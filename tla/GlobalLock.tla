----------------------------- MODULE GlobalLock -----------------------------
(***************************************************************************)
(* CGlobalLock (src/src/utility): mutual exclusion between the threads of  *)
(* all processes of the system, one byte of a lock file per resource.      *)
(* A process serialises its own threads by spinning on flag_ and then      *)
(* takes a POSIX write lock on the byte: such a lock belongs to the        *)
(* process, is granted again to the process that has it, and goes away     *)
(* with the process.  The object is a static member of                     *)
(* CGlobalSafeRawIOWriter, one per process, and the main thread has run    *)
(* init before any thread uses it.                                         *)
(***************************************************************************)
EXTENDS Integers

CONSTANTS
  Procs,      \* the processes that share the lock file
  Threads,    \* their threads
  ProcOf,     \* the process of each thread
  NoProc,     \* no process holds the byte
  Hashes,     \* the resources
  FileSize,   \* lock_file_size: what init gives a new lock file
  Calls,      \* the entry points in use: a subset of {"lock", "trylock"}
  MaxStarts   \* bound: number of times processes are started

ASSUME LockAssumption ==
  /\ ProcOf \in [Threads -> Procs]
  /\ NoProc \notin Procs
  /\ Hashes \subseteq Nat
  /\ FileSize \in Nat \ {0}
  /\ Calls \subseteq {"lock", "trylock"}
  /\ MaxStarts \in Nat

VARIABLES
  lockfile,  \* the lock file: -1 when absent, else its size
  owner,     \* the process whose write lock the kernel granted on a byte
  ipc,       \* where each process is in init
  fd,        \* fd_ >= 0
  size,      \* file_size_
  flag,      \* flag_
  pc,        \* where each thread is
  call,      \* the entry point it is in
  want,      \* its hash argument
  starts     \* number of process starts so far

lockVars == <<lockfile, owner, ipc, fd, size, flag, pc, call, want, starts>>

Bytes == 0 .. FileSize - 1
Byte(h) == h % FileSize

Init ==
  /\ lockfile = -1
  /\ owner = [b \in Bytes |-> NoProc]
  /\ ipc = [p \in Procs |-> "down"]
  /\ fd = [p \in Procs |-> FALSE]
  /\ size = [p \in Procs |-> 0]
  /\ flag = [p \in Procs |-> FALSE]
  /\ pc = [t \in Threads |-> "idle"]
  /\ call = [t \in Threads |-> "none"]
  /\ want \in [Threads -> Hashes]
  /\ starts = 0

-----------------------------------------------------------------------------
(***************************************************************************)
(* init                                                                    *)
(***************************************************************************)
threadVars == <<flag, pc, call, want>>

(* access(): is there a lock file?                                         *)
InitAccess(p) ==
  /\ ipc[p] = "down"
  /\ starts < MaxStarts
  /\ starts' = starts + 1
  /\ ipc' = [ipc EXCEPT ![p] = IF lockfile = -1 THEN "create" ELSE "open"]
  /\ UNCHANGED <<lockfile, owner, fd, size, threadVars>>

(* There is none: open(O_CREAT); another process may have made it by now.  *)
InitCreate(p) ==
  /\ ipc[p] = "create"
  /\ lockfile' = IF lockfile = -1 THEN 0 ELSE lockfile
  /\ fd' = [fd EXCEPT ![p] = TRUE]
  /\ ipc' = [ipc EXCEPT ![p] = "truncate"]
  /\ UNCHANGED <<owner, size, threadVars, starts>>

InitTruncate(p) ==
  /\ ipc[p] = "truncate"
  /\ lockfile' = FileSize
  /\ size' = [size EXCEPT ![p] = FileSize]
  /\ ipc' = [ipc EXCEPT ![p] = "ready"]
  /\ UNCHANGED <<owner, fd, threadVars, starts>>

(* There is one: open it and take its size as it is at this moment.        *)
InitOpen(p) ==
  /\ ipc[p] = "open"
  /\ fd' = [fd EXCEPT ![p] = TRUE]
  /\ size' = [size EXCEPT ![p] = lockfile]
  /\ ipc' = [ipc EXCEPT ![p] = "ready"]
  /\ UNCHANGED <<lockfile, owner, threadVars, starts>>

(* open or ftruncate fails: fd_ is -1 again and init returns false.        *)
InitFails(p) ==
  /\ ipc[p] \in {"create", "truncate", "open"}
  /\ fd' = [fd EXCEPT ![p] = FALSE]
  /\ ipc' = [ipc EXCEPT ![p] = "failed"]
  /\ UNCHANGED <<lockfile, owner, size, threadVars, starts>>

-----------------------------------------------------------------------------
(***************************************************************************)
(* lock, unlock, trylock                                                   *)
(***************************************************************************)
fileVars == <<lockfile, ipc, fd, size, starts>>

GoTo(t, where) == pc' = [pc EXCEPT ![t] = where]

Call(t, c, h) ==
  /\ ipc[ProcOf[t]] = "ready"
  /\ pc[t] = "idle"
  /\ call' = [call EXCEPT ![t] = c]
  /\ want' = [want EXCEPT ![t] = h]
  /\ GoTo(t, "spin")
  /\ UNCHANGED <<fileVars, owner, flag>>

(* flag_.test_and_set() finds the flag clear. *)
Spin(t) ==
  /\ pc[t] = "spin"
  /\ ~flag[ProcOf[t]]
  /\ flag' = [flag EXCEPT ![ProcOf[t]] = TRUE]
  /\ GoTo(t, "setlk")
  /\ UNCHANGED <<fileVars, owner, call, want>>

(* The kernel grants the byte to a process: nobody else has it. *)
Grantable(b, p) == owner[b] \in {p, NoProc}

(* Mutant of SetFileLock: the call does not wait for the byte. *)
SetFileLockBusy(t) ==
  LET p == ProcOf[t] IN
  /\ pc[t] = "setlk" /\ call[t] = "lock"
  /\ size[p] > 0
  /\ owner' = [owner EXCEPT ![Byte(want[t])] = p]
  /\ GoTo(t, "in")
  /\ UNCHANGED <<fileVars, flag, call, want>>

(* setFileLock: F_SETLKW waits until the byte is granted. *)
SetFileLock(t) ==
  LET p == ProcOf[t] IN
  /\ pc[t] = "setlk" /\ call[t] = "lock"
  /\ size[p] > 0
  /\ Grantable(Byte(want[t]), p)
  /\ owner' = [owner EXCEPT ![Byte(want[t])] = p]
  /\ GoTo(t, "in")
  /\ UNCHANGED <<fileVars, flag, call, want>>

(* tryFileLock: F_SETLK answers at once; trylock then clears the flag and  *)
(* returns.                                                                *)
TryFileLock(t) ==
  LET p == ProcOf[t] IN
  /\ pc[t] = "setlk" /\ call[t] = "trylock"
  /\ size[p] > 0
  /\ \/ /\ Grantable(Byte(want[t]), p)
        /\ owner' = [owner EXCEPT ![Byte(want[t])] = p]
        /\ GoTo(t, "got")
     \/ /\ ~Grantable(Byte(want[t]), p)
        /\ GoTo(t, "clear")
        /\ UNCHANGED owner
  /\ UNCHANGED <<fileVars, flag, call, want>>

TryReturns(t) ==
  /\ pc[t] = "got"
  /\ flag' = [flag EXCEPT ![ProcOf[t]] = FALSE]
  /\ GoTo(t, "in")
  /\ UNCHANGED <<fileVars, owner, call, want>>

(* unlock: unsetFileLock gives back what the process has of the byte. *)
UnsetFileLock(t) ==
  LET b == Byte(want[t]) IN
  /\ pc[t] = "in"
  /\ owner' = [owner EXCEPT ![b] = IF @ = ProcOf[t] THEN NoProc ELSE @]
  /\ GoTo(t, "clear")
  /\ UNCHANGED <<fileVars, flag, call, want>>

(* Mutant of Clear: the flag stays set. *)
ClearNot(t) ==
  /\ pc[t] = "clear"
  /\ GoTo(t, "idle")
  /\ UNCHANGED <<fileVars, owner, flag, call, want>>

(* The flag is cleared, whoever set it. *)
Clear(t) ==
  /\ pc[t] = "clear"
  /\ flag' = [flag EXCEPT ![ProcOf[t]] = FALSE]
  /\ GoTo(t, "idle")
  /\ UNCHANGED <<fileVars, owner, call, want>>

-----------------------------------------------------------------------------
(* A process ends: the kernel releases its locks. *)
Ends(p) ==
  /\ owner' = [b \in Bytes |-> IF owner[b] = p THEN NoProc ELSE owner[b]]
  /\ ipc' = [ipc EXCEPT ![p] = "down"]
  /\ fd' = [fd EXCEPT ![p] = FALSE]
  /\ size' = [size EXCEPT ![p] = 0]
  /\ flag' = [flag EXCEPT ![p] = FALSE]
  /\ pc' = [t \in Threads |-> IF ProcOf[t] = p THEN "idle" ELSE pc[t]]
  /\ UNCHANGED <<lockfile, call, want, starts>>

(* It is killed, or exits, at any moment (~CGlobalLock closes the file). *)
Kill(p) == ipc[p] # "down" /\ Ends(p)

(* hash % file_size_ with a size of 0: the division traps. *)
DivideByZero(t) ==
  /\ pc[t] = "setlk"
  /\ size[ProcOf[t]] = 0
  /\ Ends(ProcOf[t])

InitStep(p) ==
  \/ InitAccess(p) \/ InitCreate(p) \/ InitTruncate(p)
  \/ InitOpen(p) \/ InitFails(p)

(* A thread that has called goes on by itself. *)
Proceed(t) ==
  \/ Spin(t) \/ SetFileLock(t) \/ TryFileLock(t) \/ TryReturns(t)
  \/ Clear(t) \/ DivideByZero(t)

Next ==
  \/ \E p \in Procs : InitStep(p) \/ Kill(p)
  \/ \E t \in Threads : Proceed(t) \/ UnsetFileLock(t)
  \/ \E t \in Threads, c \in Calls, h \in Hashes : Call(t, c, h)

Spec == Init /\ [][Next]_lockVars

(* Threads are scheduled, the kernel wakes who waits for a byte, and who is *)
(* in the critical section leaves it.                                      *)
FairSpec ==
  /\ Spec
  /\ \A t \in Threads : WF_lockVars(Proceed(t) \/ UnsetFileLock(t))

-----------------------------------------------------------------------------
(***************************************************************************)
(* Properties                                                              *)
(***************************************************************************)

(* Every variable has its type. *)
TypeOK ==
  /\ lockfile \in {-1, 0, FileSize}
  /\ owner \in [Bytes -> Procs \cup {NoProc}]
  /\ ipc \in [Procs -> {"down", "create", "truncate", "open", "ready",
                        "failed"}]
  /\ fd \in [Procs -> BOOLEAN]
  /\ size \in [Procs -> {0, FileSize}]
  /\ flag \in [Procs -> BOOLEAN]
  /\ pc \in [Threads -> {"idle", "spin", "setlk", "got", "in", "clear"}]
  /\ call \in [Threads -> {"none", "lock", "trylock"}]
  /\ want \in [Threads -> Hashes]
  /\ starts \in Nat

(* Between lock and unlock a thread has its resource for itself, among the  *)
(* threads of its process and of all the others, whatever process dies at   *)
(* whatever moment (CGlobalLock::lock, unlock).                            *)
MutualExclusion ==
  \A t, u \in Threads :
    t # u /\ pc[t] = "in" /\ pc[u] = "in" => Byte(want[t]) # Byte(want[u])

(* A process whose init returned true can lock: its file_size_ is a valid  *)
(* divisor.  CGlobalLock::init does not guarantee it while the file is     *)
(* being made (README, known to fail).                                     *)
LockUsable == \A p \in Procs : ipc[p] = "ready" => size[p] > 0

(* As long as a thread waits for a lock, some thread gets one. *)
Progress ==
  (\E t \in Threads : pc[t] = "spin")
    ~> \/ \E t \in Threads : pc[t] = "in"
       \/ \A t \in Threads : pc[t] # "spin"

(* The threads that own flag_ of their process. *)
HasFlag(t) == pc[t] \in {"setlk", "in", "clear"}

(* The inductive invariant behind MutualExclusion when only lock and unlock *)
(* are used: one thread per process is past the flag, a thread in the      *)
(* critical section works for the process that owns its byte, and init     *)
(* hands out one file size to everybody.                                   *)
LockInv ==
  /\ TypeOK
  /\ \A t \in Threads : call[t] # "trylock" /\ pc[t] # "got"
  /\ \A t \in Threads : pc[t] # "idle" => call[t] = "lock"
  /\ \A t \in Threads : HasFlag(t) => flag[ProcOf[t]]
  /\ \A t, u \in Threads :
       HasFlag(t) /\ HasFlag(u) /\ ProcOf[t] = ProcOf[u] => t = u
  /\ \A t \in Threads : pc[t] = "in" => owner[Byte(want[t])] = ProcOf[t]
  /\ \A p \in Procs : ipc[p] = "open" => lockfile # -1
=============================================================================
