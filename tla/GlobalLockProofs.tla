-------------------------- MODULE GlobalLockProofs --------------------------
(***************************************************************************)
(* Mutual exclusion of CGlobalLock for any processes, threads, resources   *)
(* and lock file size, as long as trylock is not used, and what the        *)
(* processes that share pages rest on it: no acknowledged frame is lost.   *)
(***************************************************************************)
EXTENDS SharedPages, TLAPS

(* A byte number is a byte of the file. *)
LEMMA ByteInFile ==
  ASSUME NEW h \in Hashes
  PROVE  Byte(h) \in Bytes
<1>1. h \in Nat /\ FileSize \in Nat \ {0}
  BY LockAssumption
<1> QED
  BY <1>1 DEF Byte, Bytes

(* Initially nobody is past the flag. *)
LEMMA LockInit == Init => LockInv
BY LockAssumption DEF Init, LockInv, TypeOK, HasFlag

(* The steps of init leave threads and bytes alone. *)
LEMMA InitKeeps ==
  ASSUME LockInv, NEW p \in Procs, InitStep(p)
  PROVE  LockInv'
<1> USE LockAssumption
<1>1. CASE InitAccess(p)
  BY <1>1 DEF InitAccess, LockInv, TypeOK, HasFlag, threadVars
<1>2. CASE InitCreate(p)
  BY <1>2 DEF InitCreate, LockInv, TypeOK, HasFlag, threadVars
<1>3. CASE InitTruncate(p)
  BY <1>3 DEF InitTruncate, LockInv, TypeOK, HasFlag, threadVars
<1>4. CASE InitOpen(p)
  BY <1>4 DEF InitOpen, LockInv, TypeOK, HasFlag, threadVars
<1>5. CASE InitFails(p)
  BY <1>5 DEF InitFails, LockInv, TypeOK, HasFlag, threadVars
<1> QED
  BY <1>1, <1>2, <1>3, <1>4, <1>5 DEF InitStep

(* The end of a process gives back its bytes and clears its flag. *)
LEMMA EndsKeeps ==
  ASSUME LockInv, NEW p \in Procs, Ends(p)
  PROVE  LockInv'
<1> USE LockAssumption
<1>1. TypeOK'
  BY DEF Ends, LockInv, TypeOK
<1>2. \A t \in Threads : pc'[t] = IF ProcOf[t] = p THEN "idle" ELSE pc[t]
  BY DEF Ends
<1>3. \A q \in Procs : q # p => flag'[q] = flag[q] /\ ipc'[q] = ipc[q]
  BY DEF Ends, LockInv, TypeOK
<1>4. \A t \in Threads : pc'[t] = "in" => owner'[Byte(want'[t])] = ProcOf[t]
  <2> SUFFICES ASSUME NEW t \in Threads, pc'[t] = "in"
               PROVE  owner'[Byte(want'[t])] = ProcOf[t]
    OBVIOUS
  <2>1. ProcOf[t] # p /\ pc[t] = "in"
    BY <1>2
  <2>2. Byte(want[t]) \in Bytes /\ want' = want
    BY ByteInFile DEF LockInv, TypeOK, Ends
  <2> QED
    BY <2>1, <2>2 DEF Ends, LockInv
<1>5. \A q \in Procs : ipc'[q] = "open" => lockfile' # -1
  BY <1>3 DEF Ends, LockInv, TypeOK
<1>6. \A t \in Threads : pc'[t] # "idle" => pc'[t] = pc[t] /\ ProcOf[t] # p
  BY <1>2
<1>7. \A t \in Threads : HasFlag(t)' => HasFlag(t) /\ ProcOf[t] # p
  BY <1>6 DEF HasFlag
<1>8. \A t \in Threads : HasFlag(t)' => flag'[ProcOf[t]]
  BY <1>3, <1>7 DEF LockInv
<1>9. call' = call
  BY DEF Ends
<1>10. \A t \in Threads : /\ call'[t] # "trylock" /\ pc'[t] # "got"
                          /\ pc'[t] # "idle" => call'[t] = "lock"
  BY <1>6, <1>9 DEF LockInv
<1>11. \A t, u \in Threads :
         HasFlag(t)' /\ HasFlag(u)' /\ ProcOf[t] = ProcOf[u] => t = u
  BY <1>7 DEF LockInv
<1> QED
  BY <1>1, <1>4, <1>5, <1>8, <1>10, <1>11 DEF LockInv

(* What a thread does keeps the invariant. *)
LEMMA ProceedKeeps ==
  ASSUME LockInv, NEW t \in Threads, Proceed(t) \/ UnsetFileLock(t)
  PROVE  LockInv'
<1> USE LockAssumption
<1> ProcOf[t] \in Procs /\ Byte(want[t]) \in Bytes
  BY ZenonT(60), ByteInFile DEF LockInv, TypeOK
<1>1. CASE Spin(t)
  <2>1. TypeOK'
    BY <1>1 DEF Spin, GoTo, LockInv, TypeOK, fileVars
  <2>2. \A u \in Threads : u # t => pc'[u] = pc[u]
    BY <1>1 DEF Spin, GoTo, LockInv, TypeOK
  <2>3. pc[t] = "spin" /\ pc'[t] = "setlk" /\ call[t] = "lock"
    BY <1>1 DEF Spin, GoTo, LockInv, TypeOK
  <2>4. /\ ~flag[ProcOf[t]] /\ flag'[ProcOf[t]]
        /\ \A p \in Procs : flag[p] => flag'[p]
    BY <1>1 DEF Spin, LockInv, TypeOK
  <2>5. \A u \in Threads : HasFlag(u) => ProcOf[u] # ProcOf[t]
    BY <2>4 DEF LockInv
  <2>6. \A u \in Threads : u # t => (HasFlag(u)' <=> HasFlag(u))
    BY <2>2 DEF HasFlag
  <2>7. \A u \in Threads : HasFlag(u)' => flag'[ProcOf[u]]
    BY <2>4, <2>6 DEF LockInv
  <2>8. \A u, v \in Threads :
          HasFlag(u)' /\ HasFlag(v)' /\ ProcOf[u] = ProcOf[v] => u = v
    BY <2>5, <2>6 DEF LockInv
  <2>9. UNCHANGED <<lockfile, owner, ipc, call, want>>
    BY <1>1 DEF Spin, fileVars
  <2>10. \A u \in Threads : pc'[u] = "in" => owner[Byte(want[u])] = ProcOf[u]
    BY <2>2, <2>3 DEF LockInv
  <2>11. \A u \in Threads : /\ call[u] # "trylock" /\ pc'[u] # "got"
                            /\ pc'[u] # "idle" => call[u] = "lock"
    BY <2>2, <2>3 DEF LockInv
  <2> QED
    BY <2>1, <2>7, <2>8, <2>9, <2>10, <2>11 DEF LockInv
<1>2. CASE SetFileLock(t)
  <2>1. TypeOK'
    BY <1>2 DEF SetFileLock, GoTo, LockInv, TypeOK, fileVars
  <2>2. \A u \in Threads : u # t => pc'[u] = pc[u]
    BY <1>2 DEF SetFileLock, GoTo, LockInv, TypeOK
  <2>3. pc[t] = "setlk" /\ pc'[t] = "in"
    BY <1>2 DEF SetFileLock, GoTo, LockInv, TypeOK
  <2>4. ASSUME NEW u \in Threads, pc'[u] = "in"
        PROVE  owner'[Byte(want'[u])] = ProcOf[u]
    <3>1. want' = want /\ Byte(want[u]) \in Bytes
      BY <1>2, ByteInFile DEF SetFileLock, LockInv, TypeOK
    <3>2. CASE u = t
      BY <1>2, <3>1, <3>2 DEF SetFileLock, LockInv, TypeOK
    <3>3. CASE u # t
      <4>1. pc[u] = "in" /\ owner[Byte(want[u])] = ProcOf[u]
        BY <2>2, <2>4, <3>3 DEF LockInv
      <4>2. ProcOf[u] # ProcOf[t]
        BY <2>3, <3>3, <4>1 DEF LockInv, HasFlag
      <4>3. Byte(want[u]) # Byte(want[t])
        BY <1>2, <4>1, <4>2 DEF SetFileLock, Grantable
      <4> QED
        BY <1>2, <3>1, <4>1, <4>3 DEF SetFileLock, LockInv, TypeOK
    <3> QED
      BY <3>2, <3>3
  <2> QED
    BY <1>2, <2>1, <2>2, <2>3, <2>4
    DEF SetFileLock, LockInv, HasFlag, fileVars
<1>3. CASE TryFileLock(t)
  BY <1>3 DEF TryFileLock, LockInv
<1>4. CASE TryReturns(t)
  BY <1>4 DEF TryReturns, LockInv
<1>5. CASE UnsetFileLock(t)
  <2>1. TypeOK'
    BY <1>5 DEF UnsetFileLock, GoTo, LockInv, TypeOK, fileVars
  <2>2. \A u \in Threads : u # t => pc'[u] = pc[u]
    BY <1>5 DEF UnsetFileLock, GoTo, LockInv, TypeOK
  <2>3. pc[t] = "in" /\ pc'[t] = "clear"
    BY <1>5 DEF UnsetFileLock, GoTo, LockInv, TypeOK
  <2>4. ASSUME NEW u \in Threads, pc'[u] = "in"
        PROVE  owner'[Byte(want'[u])] = ProcOf[u]
    <3>1. want' = want /\ Byte(want[u]) \in Bytes
      BY <1>5, ByteInFile DEF UnsetFileLock, LockInv, TypeOK
    <3>2. u # t /\ pc[u] = "in" /\ owner[Byte(want[u])] = ProcOf[u]
      BY <2>2, <2>3, <2>4 DEF LockInv
    <3>3. ProcOf[u] # ProcOf[t]
      BY <2>3, <3>2 DEF LockInv, HasFlag
    <3> QED
      BY <1>5, <3>1, <3>2, <3>3 DEF UnsetFileLock, LockInv, TypeOK
  <2> QED
    BY <1>5, <2>1, <2>2, <2>3, <2>4
    DEF UnsetFileLock, LockInv, HasFlag, fileVars
<1>6. CASE Clear(t)
  BY <1>6 DEF Clear, GoTo, LockInv, TypeOK, HasFlag, fileVars
<1>7. CASE DivideByZero(t)
  BY <1>7, EndsKeeps DEF DivideByZero
<1> QED
  BY <1>1, <1>2, <1>3, <1>4, <1>5, <1>6, <1>7 DEF Proceed

(* A call of lock keeps the invariant. *)
LEMMA CallKeeps ==
  ASSUME LockInv, NEW t \in Threads, NEW h \in Hashes, Call(t, "lock", h)
  PROVE  LockInv'
BY LockAssumption DEF Call, GoTo, LockInv, TypeOK, HasFlag, fileVars

(* Every step keeps the invariant. *)
LEMMA LockKeeps ==
  ASSUME "trylock" \notin Calls, LockInv, [Next]_lockVars
  PROVE  LockInv'
<1> USE LockAssumption
<1>1. ASSUME NEW p \in Procs, InitStep(p)
      PROVE  LockInv'
  BY <1>1, InitKeeps
<1>2. ASSUME NEW p \in Procs, Kill(p)
      PROVE  LockInv'
  BY <1>2, EndsKeeps DEF Kill
<1>3. ASSUME NEW t \in Threads, Proceed(t) \/ UnsetFileLock(t)
      PROVE  LockInv'
  BY <1>3, ProceedKeeps
<1>4. ASSUME NEW t \in Threads, NEW c \in Calls, NEW h \in Hashes,
             Call(t, c, h)
      PROVE  LockInv'
  BY <1>4, CallKeeps
<1>5. CASE UNCHANGED lockVars
  BY <1>5 DEF lockVars, LockInv, TypeOK, HasFlag
<1> QED
  BY <1>1, <1>2, <1>3, <1>4, <1>5 DEF Next

(* The invariant of CGlobalLock holds in every reachable state of a system *)
(* that uses lock and unlock only.                                         *)
THEOREM LockInvHolds ==
  ASSUME "trylock" \notin Calls
  PROVE  Spec => []LockInv
<1>1. LockInv /\ [Next]_lockVars => LockInv'
  BY LockKeeps
<1> QED
  BY <1>1, LockInit, PTL DEF Spec

(* Mutual exclusion: between CGlobalLock::lock and unlock a thread has its *)
(* byte for itself, for any processes and threads, whoever dies when.      *)
THEOREM LockExcludes ==
  ASSUME "trylock" \notin Calls
  PROVE  Spec => []MutualExclusion
<1>1. LockInv => MutualExclusion
  BY LockAssumption DEF LockInv, MutualExclusion, HasFlag
<1> QED
  BY <1>1, LockInvHolds, PTL

-----------------------------------------------------------------------------
(***************************************************************************)
(* The shared pages.  The frames of a group of pages are kept because the  *)
(* lock makes the stores of a write one piece for the other writers, and   *)
(* because every writer has mapped the last page there is.                 *)
(***************************************************************************)

(* The jobs of a thread that has begun to change the pages. *)
Begun == {"create", "again", "tail", "done"}

(* The jobs of a write. *)
Writes == {"write", "create", "again", "tail"}

(* A thread changes the pages inside the lock only, and a write has a page  *)
(* and a frame.                                                            *)
JobInv ==
  \A t \in Threads :
    /\ job[t] \in Begun => pc[t] = "in"
    /\ job[t] \in Writes =>
         wpage[ProcOf[t]] # -1 /\ id[t] > 0 /\ len[t] \in Sizes

(* The pages are numbered without a hole, one that is not made is empty,   *)
(* and who has a page has the last one.                                    *)
PagesInv ==
  /\ \E n \in Pages \cup {-1} : made = 0 .. n
  /\ \A k \in Pages : k \notin made => tail[k] = 0
  /\ \A p \in Procs : wpage[p] # -1 =>
       wpage[p] \in made /\ \A k \in made : k <= wpage[p]

(* A page that a process has is finished only while that process goes to   *)
(* the next one, and then it is alone.                                     *)
FinishInv ==
  /\ \A p \in Procs :
       wpage[p] # -1 /\ status[wpage[p]] = "finish" =>
         \E t \in Threads : ProcOf[t] = p /\ job[t] = "create"
  /\ \A t \in Threads : job[t] = "create" =>
       \A p \in Procs \ {ProcOf[t]} : wpage[p] = -1

(* A frame whose tail is not set yet is stored at the tail, and fits. *)
StoredInv ==
  \A t \in Threads : job[t] = "tail" =>
    /\ cell[wpage[ProcOf[t]]][tail[wpage[ProcOf[t]]]] = id[t]
    /\ Fits(t)

(* The part of the invariant behind FramesKept that is about the pages. *)
PageInv ==
  STypeOK /\ JobInv /\ PagesInv /\ FinishInv /\ StoredInv /\ FramesKept

(* The inductive invariant behind FramesKept. *)
SharedInv == LockInv /\ PageInv

(* A group of pages has one lock, and who is inside is alone. *)
LEMMA OneInside ==
  ASSUME NEW h, Hashes = {h}, LockInv,
         NEW t \in Threads, NEW u \in Threads, pc[t] = "in", pc[u] = "in"
  PROVE  t = u
<1>1. want[t] = h /\ want[u] = h
  BY DEF LockInv, TypeOK
<1>2. ProcOf[t] = ProcOf[u]
  BY <1>1 DEF LockInv
<1> QED
  BY <1>2 DEF LockInv, HasFlag

(* What it means that the acknowledged frames are in the pages. *)
LEMMA KeptAt ==
  FramesKept <=>
    \A i \in acked : /\ i # 0
                     /\ \E k \in Pages, o \in Offsets :
                          o < tail[k] /\ cell[k][o] = i
<1>1. \A i : i \in UNION {FramesOf(k) : k \in Pages} <=>
             /\ i # 0
             /\ \E k \in Pages, o \in Offsets :
                  o < tail[k] /\ cell[k][o] = i
  BY DEF FramesOf
<1> QED
  BY <1>1 DEF FramesKept

(* The latest page is the largest number of a page that is made. *)
LEMMA LastPage ==
  ASSUME STypeOK, PagesInv
  PROVE  TailNum \in Pages \cup {-1} /\ made = 0 .. TailNum
<1> USE SharedAssumption
<1>1. PICK n \in Pages \cup {-1} : made = 0 .. n
  BY DEF PagesInv
<1>2. CASE n = -1
  <2>1. made = {}
    BY <1>1, <1>2
  <2> QED
    BY <1>2, <1>1, <2>1 DEF TailNum
<1>3. CASE n # -1
  <2>1. n \in made /\ n \in Pages /\ \A j \in made : j <= n
    BY <1>1, <1>3 DEF Pages
  <2>2. \A k \in made : (\A j \in made : j <= k) => k = n
    BY <1>1, <2>1 DEF Pages
  <2>3. TailNum = n
    BY <2>1, <2>2 DEF TailNum
  <2> QED
    BY <1>1, <2>1, <2>3
<1> QED
  BY <1>2, <1>3

(* A step of the lock alone leaves the pages and who is inside. *)
LEMMA LockStepKeeps ==
  ASSUME LockInv, PageInv, LockStep
  PROVE  PageInv'
<1> USE LockAssumption
<1>1. UNCHANGED pageVars
  BY DEF LockStep
<1>2. \A t \in Threads : pc[t] = "in" => pc'[t] = "in"
  <2>1. ASSUME NEW p \in Procs, InitStep(p)
        PROVE  pc' = pc
    BY <2>1 DEF InitStep, InitAccess, InitCreate, InitTruncate, InitOpen,
                InitFails, threadVars
  <2>2. ASSUME NEW t \in Threads, Spin(t) \/ SetFileLock(t) \/ Clear(t),
               NEW u \in Threads, pc[u] = "in"
        PROVE  pc'[u] = "in"
    BY <2>2 DEF Spin, SetFileLock, Clear, GoTo, LockInv, TypeOK
  <2> QED
    BY <2>1, <2>2 DEF LockStep
<1>3. JobInv'
  BY <1>1, <1>2 DEF PageInv, JobInv, pageVars
<1>4. STypeOK' /\ PagesInv' /\ FinishInv'
  BY <1>1 DEF PageInv, STypeOK, PagesInv, FinishInv, pageVars
<1>5. StoredInv'
  BY <1>1 DEF PageInv, StoredInv, Fits, pageVars
<1>6. FramesKept'
  BY <1>1 DEF PageInv, FramesKept, FramesOf, pageVars
<1> QED
  BY <1>3, <1>4, <1>5, <1>6 DEF PageInv

(* Who asks for the lock is not inside and has stored nothing yet. *)
LEMMA CallsKeep ==
  ASSUME LockInv, PageInv, NEW t \in Threads,
         CallInit(t) \/ \E s \in Sizes : CallWrite(t, s)
  PROVE  PageInv'
<1> USE LockAssumption, SharedAssumption
<1>1. /\ job[t] = "none" /\ pc[t] = "idle"
      /\ UNCHANGED <<made, status, tail, cell, wpage, acked>>
  BY DEF CallInit, CallWrite, Call
<1>2. \A u \in Threads : u # t => pc'[u] = pc[u]
  BY DEF CallInit, CallWrite, Call, GoTo, LockInv, TypeOK
<1>3. \A u \in Threads : u # t =>
        job'[u] = job[u] /\ id'[u] = id[u] /\ len'[u] = len[u]
  BY DEF CallInit, CallWrite, Job, PageInv, STypeOK
<1>4. \/ job'[t] = "init"
      \/ /\ job'[t] = "write" /\ wpage[ProcOf[t]] # -1
         /\ id'[t] > 0 /\ len'[t] \in Sizes
  BY DEF CallInit, CallWrite, Job, PageInv, STypeOK
<1>5. STypeOK'
  <2>1. CASE CallInit(t)
    BY <2>1 DEF CallInit, Job, PageInv, STypeOK
  <2>2. ASSUME NEW s \in Sizes, CallWrite(t, s)
        PROVE  STypeOK'
    <3>1. s \in Nat /\ count + 1 \in 0 .. MaxFrames
      BY <2>2 DEF CallWrite, PageInv, STypeOK
    <3> QED
      BY <2>2, <3>1 DEF CallWrite, Job, PageInv, STypeOK
  <2> QED
    BY <2>1, <2>2
<1>6. JobInv'
  <2> SUFFICES ASSUME NEW u \in Threads
               PROVE  /\ job'[u] \in Begun => pc'[u] = "in"
                      /\ job'[u] \in Writes =>
                           /\ wpage'[ProcOf[u]] # -1 /\ id'[u] > 0
                           /\ len'[u] \in Sizes
    BY DEF JobInv
  <2>1. CASE u = t
    BY <2>1, <1>1, <1>4 DEF Begun, Writes
  <2>2. CASE u # t
    BY <2>2, <1>1, <1>2, <1>3 DEF PageInv, JobInv
  <2> QED
    BY <2>1, <2>2
<1>7. PagesInv' /\ FramesKept'
  BY <1>1 DEF PageInv, PagesInv, FramesKept, FramesOf
<1>8. job'[t] \notin {"create", "tail"} /\ job[t] # "create"
  BY <1>1, <1>4
<1>9. FinishInv'
  <2>1. \A u \in Threads : job'[u] = "create" <=> job[u] = "create"
    BY <1>3, <1>8
  <2> QED
    BY <1>1, <2>1 DEF PageInv, FinishInv
<1>10. StoredInv'
  <2> SUFFICES ASSUME NEW u \in Threads, job'[u] = "tail"
               PROVE  /\ cell[wpage[ProcOf[u]]][tail[wpage[ProcOf[u]]]] = id'[u]
                      /\ tail[wpage[ProcOf[u]]] + len'[u] <= PageCap
    BY <1>1 DEF StoredInv, Fits
  <2>1. u # t
    BY <1>8
  <2> QED
    BY <2>1, <1>3 DEF PageInv, StoredInv, Fits
<1> QED
  BY <1>5, <1>6, <1>7, <1>9, <1>10 DEF PageInv

(* init maps the latest page, or the one after it when nobody has it any    *)
(* more.                                                                   *)
LEMMA DoInitKeeps ==
  ASSUME NEW h, Hashes = {h}, Alone, LockInv, PageInv,
         NEW t \in Threads, DoInit(t)
  PROVE  PageInv'
<1> USE LockAssumption, SharedAssumption
<1> DEFINE p == ProcOf[t]
<1>1. /\ p \in Procs /\ pc[t] = "in" /\ job[t] = "init" /\ job'[t] = "done"
      /\ UNCHANGED <<lockVars, cell, len, id, count, acked>>
  BY DEF DoInit, Job, PageInv, STypeOK
<1>2. \A u \in Threads : u # t => /\ job'[u] = job[u]
                                  /\ job'[u] \notin Begun
  <2>1. \A u \in Threads : u # t => pc[u] # "in" /\ job'[u] = job[u]
    BY <1>1, OneInside DEF DoInit, Job, PageInv, STypeOK
  <2> QED
    BY <2>1 DEF PageInv, JobInv
<1>3. \A u \in Threads : job[u] # "create" /\ job'[u] \notin {"create", "tail"}
  BY <1>1, <1>2 DEF Begun
<1>4. TailNum \in Pages \cup {-1} /\ made = 0 .. TailNum
  BY LastPage DEF PageInv
<1>5. \A q \in Procs : wpage[q] # -1 =>
        wpage[q] = TailNum /\ status[TailNum] # "finish"
  <2> SUFFICES ASSUME NEW q \in Procs, wpage[q] # -1
               PROVE  wpage[q] = TailNum /\ status[TailNum] # "finish"
    OBVIOUS
  <2>1. wpage[q] \in made /\ \A k \in made : k <= wpage[q]
    BY DEF PageInv, PagesInv
  <2>2. wpage[q] = TailNum
    BY <2>1, <1>4 DEF Pages
  <2> QED
    BY <2>2, <1>3 DEF PageInv, FinishInv
<1>6. CASE /\ TailNum >= 0 /\ status[TailNum] = "writting"
           /\ wpage' = [wpage EXCEPT ![p] = TailNum]
           /\ UNCHANGED <<made, status, tail>>
  <2>1. \A q \in Procs : wpage'[q] = wpage[q] \/ wpage'[q] = TailNum
    BY <1>6 DEF PageInv, STypeOK
  <2>2. \A q \in Procs : wpage'[q] = -1 => wpage[q] = -1
    BY <1>6, <1>4 DEF PageInv, STypeOK
  <2>3. STypeOK'
    BY <1>1, <1>4, <1>6 DEF PageInv, STypeOK, DoInit, Job
  <2>4. JobInv'
    <3> SUFFICES ASSUME NEW u \in Threads
                 PROVE  /\ job'[u] \in Begun => pc'[u] = "in"
                        /\ job'[u] \in Writes =>
                             /\ wpage'[ProcOf[u]] # -1 /\ id'[u] > 0
                             /\ len'[u] \in Sizes
      BY DEF JobInv
    <3>1. CASE u = t
      BY <3>1, <1>1 DEF Begun, Writes, lockVars
    <3>2. CASE u # t
      BY <3>2, <1>1, <1>2, <2>2 DEF PageInv, JobInv
    <3> QED
      BY <3>1, <3>2
  <2>5. TailNum \in made /\ \A k \in made : k <= TailNum
    BY <1>4, <1>6 DEF Pages
  <2>6. PagesInv'
    BY <1>6, <1>5, <2>1, <2>5 DEF PageInv, PagesInv
  <2>7. FinishInv'
    BY <1>3, <1>5, <1>6, <2>1 DEF FinishInv
  <2>8. StoredInv'
    BY <1>3 DEF StoredInv
  <2>9. FramesKept'
    BY <1>1, <1>6 DEF PageInv, FramesKept, FramesOf
  <2> QED
    BY <2>3, <2>4, <2>6, <2>7, <2>8, <2>9 DEF PageInv
<1>7. CASE /\ TailNum >= 0 => status[TailNum] = "finish"
           /\ CreateNextPage(p, TailNum)
  <2>0. PICK k : k = TailNum + 1
    OBVIOUS
  <2>1. /\ k \in Pages /\ k \notin made /\ made' = 0 .. k
        /\ status' = [status EXCEPT ![k] = "writting"]
        /\ tail' = [tail EXCEPT ![k] = 0]
        /\ wpage' = [wpage EXCEPT ![p] = k]
    BY <1>7, <2>0, <1>4 DEF CreateNextPage, Pages
  <2>2. \A q \in Procs : wpage[q] = -1
    <3>1. TailNum = -1 \/ TailNum >= 0
      BY <1>4 DEF Pages
    <3>2. TailNum = -1 \/ status[TailNum] = "finish"
      BY <1>7, <3>1
    <3> QED
      BY <1>5, <3>2
  <2>3. tail' = tail
    BY <2>1 DEF PageInv, PagesInv, STypeOK
  <2>4. STypeOK'
    <3>1. made' \subseteq Pages
      BY <2>1 DEF Pages
    <3>2. status' \in [Pages -> {"writting", "finish"}]
      BY <2>1 DEF PageInv, STypeOK
    <3>3. wpage' \in [Procs -> Pages \cup {-1}]
      BY <2>1 DEF PageInv, STypeOK
    <3>4. job' \in [Threads -> {"none", "init", "write", "create", "again",
                               "tail", "done"}]
      BY DEF PageInv, STypeOK, DoInit, Job
    <3> QED
      BY <1>1, <2>3, <3>1, <3>2, <3>3, <3>4 DEF PageInv, STypeOK
  <2>5. \A u \in Threads : u # t => job'[u] \notin Writes
    BY <1>2, <2>2 DEF PageInv, JobInv
  <2>6. JobInv'
    BY <1>1, <1>2, <2>5 DEF JobInv, Begun, Writes, lockVars
  <2>7. \A q \in Procs : wpage'[q] # -1 => wpage'[q] = k
    BY <2>1, <2>2 DEF PageInv, STypeOK
  <2>8. \A j \in made' : j <= k
    BY <2>1
  <2>9. \A j \in Pages : j \notin made' => tail'[j] = 0
    BY <2>1, <2>3, <1>4, <2>0 DEF PageInv, PagesInv, Pages
  <2>10. PagesInv'
    BY <2>1, <2>7, <2>8, <2>9 DEF PagesInv, Pages
  <2>11. FinishInv'
    BY <1>3, <2>1, <2>7 DEF FinishInv, PageInv, STypeOK
  <2>12. StoredInv'
    BY <1>3 DEF StoredInv
  <2>13. FramesKept'
    BY <1>1, <2>3 DEF PageInv, FramesKept, FramesOf
  <2> QED
    BY <2>4, <2>6, <2>10, <2>11, <2>12, <2>13 DEF PageInv
<1> QED
  BY <1>6, <1>7 DEF DoInit

(* While a thread is inside no other has begun. *)
LEMMA OthersWait ==
  ASSUME NEW h, Hashes = {h}, LockInv, PageInv,
         NEW t \in Threads, pc[t] = "in"
  PROVE  \A u \in Threads : u # t => job[u] \notin Begun
BY OneInside DEF PageInv, JobInv

(* A step of the thread inside from one job to another, which leaves the   *)
(* files and the page of every process, keeps all but what is stored.      *)
LEMMA InsideKeeps ==
  ASSUME NEW h, Hashes = {h}, LockInv, PageInv,
         NEW t \in Threads, pc[t] = "in",
         NEW j \in {"tail", "done"}, Job(t, j), job[t] # "create",
         j = "tail" => job[t] \in Writes,
         UNCHANGED <<pc, made, status, wpage, len, id, count>>
  PROVE  /\ JobInv' /\ FinishInv'
         /\ job' \in [Threads -> {"none", "init", "write", "create", "again",
                                  "tail", "done"}]
         /\ \A u \in Threads : u # t => job'[u] = job[u]
         /\ job'[t] = j
<1>1. /\ job' \in [Threads -> {"none", "init", "write", "create", "again",
                               "tail", "done"}]
      /\ \A u \in Threads : u # t => job'[u] = job[u]
      /\ job'[t] = j
  BY DEF Job, PageInv, STypeOK
<1>2. JobInv'
  <2> SUFFICES ASSUME NEW u \in Threads
               PROVE  /\ job'[u] \in Begun => pc[u] = "in"
                      /\ job'[u] \in Writes =>
                           /\ wpage[ProcOf[u]] # -1 /\ id[u] > 0
                           /\ len[u] \in Sizes
    BY DEF JobInv
  <2>1. CASE u = t
    BY <2>1, <1>1 DEF PageInv, JobInv, Writes
  <2>2. CASE u # t
    BY <2>2, <1>1 DEF PageInv, JobInv
  <2> QED
    BY <2>1, <2>2
<1>3. \A u \in Threads : job'[u] = "create" <=> job[u] = "create"
  BY <1>1
<1>4. FinishInv'
  BY <1>3 DEF PageInv, FinishInv
<1> QED
  BY <1>1, <1>2, <1>4

(* The frame is stored from the tail on, where no frame is. *)
LEMMA DoStoreKeeps ==
  ASSUME NEW h, Hashes = {h}, LockInv, PageInv,
         NEW t \in Threads, DoStore(t)
  PROVE  PageInv'
<1> USE LockAssumption, SharedAssumption
<1>0. PICK k : k = wpage[ProcOf[t]]
  OBVIOUS
<1>1. /\ pc[t] = "in" /\ job[t] \in {"write", "again"} /\ Job(t, "tail")
      /\ UNCHANGED <<lockVars, made, status, tail, wpage, len, id, count,
                     acked>>
  BY DEF DoStore
<1>2. /\ k \in Pages /\ tail[k] \in Offsets
      /\ len[t] \in 1 .. PageCap /\ id[t] \in 1 .. MaxFrames
  BY <1>0, <1>1 DEF PageInv, JobInv, STypeOK, Writes
<1>3. tail[k] + len[t] <= PageCap
  BY <1>0 DEF DoStore, Fits
<1>4. cell' = [cell EXCEPT ![k] = [o \in Offsets |->
                IF o = tail[k] THEN id[t]
                ELSE IF tail[k] < o /\ o < tail[k] + len[t] THEN 0
                ELSE cell[k][o]]]
  BY <1>0 DEF DoStore, PageInv, STypeOK
<1>5. /\ JobInv' /\ FinishInv' /\ job'[t] = "tail"
      /\ job' \in [Threads -> {"none", "init", "write", "create", "again",
                               "tail", "done"}]
      /\ \A u \in Threads : u # t => job'[u] = job[u]
  BY <1>1, InsideKeeps DEF Writes, lockVars
<1>6. cell' \in [Pages -> [Offsets -> 0 .. MaxFrames]]
  <2>1. [o \in Offsets |->
           IF o = tail[k] THEN id[t]
           ELSE IF tail[k] < o /\ o < tail[k] + len[t] THEN 0
           ELSE cell[k][o]] \in [Offsets -> 0 .. MaxFrames]
    BY <1>2 DEF PageInv, STypeOK
  <2> QED
    BY <1>4, <2>1 DEF PageInv, STypeOK
<1>7. STypeOK'
  BY <1>1, <1>5, <1>6 DEF PageInv, STypeOK
<1>8. PagesInv'
  BY <1>1 DEF PageInv, PagesInv
<1>9. cell'[k][tail[k]] = id[t]
  BY <1>2, <1>4 DEF PageInv, STypeOK
<1>10. StoredInv'
  <2> SUFFICES ASSUME NEW u \in Threads, job'[u] = "tail"
               PROVE  /\ cell'[wpage[ProcOf[u]]][tail[wpage[ProcOf[u]]]] = id[u]
                      /\ tail[wpage[ProcOf[u]]] + len[u] <= PageCap
    BY <1>1 DEF StoredInv, Fits
  <2>1. u = t
    BY <1>1, <1>5, OthersWait DEF Begun
  <2> QED
    BY <2>1, <1>0, <1>3, <1>9
<1>11. \A j \in Pages, o \in Offsets : o < tail[j] => cell'[j][o] = cell[j][o]
  <2> SUFFICES ASSUME NEW j \in Pages, NEW o \in Offsets, o < tail[j]
               PROVE  cell'[j][o] = cell[j][o]
    OBVIOUS
  <2>1. CASE j # k
    BY <2>1, <1>4 DEF PageInv, STypeOK
  <2>2. CASE j = k
    <3>1. o # tail[k] /\ ~(tail[k] < o)
      BY <2>2, <1>2 DEF Offsets
    <3>2. cell'[k][o] = cell[k][o]
      BY <3>1, <1>2, <1>4 DEF PageInv, STypeOK
    <3> QED
      BY <2>2, <3>2
  <2> QED
    BY <2>1, <2>2
<1>12. FramesKept'
  <2> SUFFICES ASSUME NEW i \in acked
               PROVE  /\ i # 0
                      /\ \E j \in Pages, o \in Offsets :
                           o < tail[j] /\ cell'[j][o] = i
    BY <1>1 DEF FramesKept, FramesOf
  <2>1. /\ i # 0
        /\ \E j \in Pages, o \in Offsets : o < tail[j] /\ cell[j][o] = i
    BY KeptAt DEF PageInv
  <2> QED
    BY <2>1, <1>11
<1> QED
  BY <1>5, <1>7, <1>8, <1>10, <1>12 DEF PageInv

(* The new tail adds the frame that is stored there, and loses none. *)
LEMMA DoTailKeeps ==
  ASSUME NEW h, Hashes = {h}, LockInv, PageInv,
         NEW t \in Threads, DoTail(t)
  PROVE  PageInv'
<1> USE LockAssumption, SharedAssumption
<1>0. PICK k : k = wpage[ProcOf[t]]
  OBVIOUS
<1>1. /\ pc[t] = "in" /\ job[t] = "tail" /\ Job(t, "done")
      /\ UNCHANGED <<lockVars, made, status, cell, wpage, len, id, count>>
      /\ acked' = acked \cup {id[t]}
  BY DEF DoTail
<1>2. /\ k \in Pages /\ tail[k] \in Offsets
      /\ len[t] \in 1 .. PageCap /\ id[t] \in 1 .. MaxFrames
  BY <1>0, <1>1 DEF PageInv, JobInv, STypeOK, Writes
<1>3. tail[k] + len[t] <= PageCap /\ cell[k][tail[k]] = id[t]
  BY <1>0, <1>1 DEF PageInv, StoredInv, Fits
<1>4. tail' = [tail EXCEPT ![k] = tail[k] + len[t]]
  BY <1>0 DEF DoTail
<1>5. /\ JobInv' /\ FinishInv' /\ job'[t] = "done"
      /\ job' \in [Threads -> {"none", "init", "write", "create", "again",
                               "tail", "done"}]
      /\ \A u \in Threads : u # t => job'[u] = job[u]
  BY <1>1, InsideKeeps DEF lockVars
<1>6. tail' \in [Pages -> Offsets]
  <2>1. tail[k] + len[t] \in Offsets
    BY <1>2, <1>3 DEF Offsets
  <2> QED
    BY <1>4, <2>1 DEF PageInv, STypeOK
<1>7. STypeOK'
  BY <1>1, <1>2, <1>5, <1>6 DEF PageInv, STypeOK
<1>8. k \in made
  BY <1>0, <1>2 DEF PageInv, PagesInv, Pages
<1>9. PagesInv'
  BY <1>1, <1>4, <1>8 DEF PageInv, PagesInv, STypeOK
<1>10. StoredInv'
  <2>1. \A u \in Threads : job'[u] # "tail"
    BY <1>1, <1>5, OthersWait DEF Begun
  <2> QED
    BY <2>1 DEF StoredInv
<1>11. \A j \in Pages, o \in Offsets : o < tail[j] => o < tail'[j]
  <2> SUFFICES ASSUME NEW j \in Pages, NEW o \in Offsets, o < tail[j]
               PROVE  o < tail'[j]
    OBVIOUS
  <2>1. CASE j # k
    BY <2>1, <1>4 DEF PageInv, STypeOK
  <2>2. CASE j = k
    <3>1. tail'[k] = tail[k] + len[t]
      BY <1>2, <1>4 DEF PageInv, STypeOK
    <3> QED
      BY <2>2, <3>1, <1>2 DEF Offsets
  <2> QED
    BY <2>1, <2>2
<1>12. tail[k] < tail'[k]
  BY <1>2, <1>4 DEF PageInv, STypeOK, Offsets
<1>13. FramesKept'
  <2> SUFFICES ASSUME NEW i \in acked'
               PROVE  /\ i # 0
                      /\ \E j \in Pages, o \in Offsets :
                           o < tail'[j] /\ cell[j][o] = i
    BY <1>1 DEF FramesKept, FramesOf
  <2>1. CASE i \in acked
    <3>1. /\ i # 0
          /\ \E j \in Pages, o \in Offsets : o < tail[j] /\ cell[j][o] = i
      BY <2>1, KeptAt DEF PageInv
    <3> QED
      BY <3>1, <1>11
  <2>2. CASE i = id[t]
    BY <2>2, <1>2, <1>3, <1>12
  <2> QED
    BY <2>1, <2>2, <1>1
<1> QED
  BY <1>5, <1>7, <1>9, <1>10, <1>13 DEF PageInv

(* A frame that is given up leaves the pages as they were. *)
LEMMA DoDiscardKeeps ==
  ASSUME NEW h, Hashes = {h}, LockInv, PageInv,
         NEW t \in Threads, DoDiscard(t)
  PROVE  PageInv'
<1>1. /\ pc[t] = "in" /\ job[t] = "tail" /\ Job(t, "done")
      /\ UNCHANGED <<lockVars, made, status, tail, cell, wpage, len, id,
                     count, acked>>
  BY DEF DoDiscard
<1>2. /\ JobInv' /\ FinishInv' /\ job'[t] = "done"
      /\ job' \in [Threads -> {"none", "init", "write", "create", "again",
                               "tail", "done"}]
      /\ \A u \in Threads : u # t => job'[u] = job[u]
  BY <1>1, InsideKeeps DEF lockVars
<1>3. STypeOK' /\ PagesInv' /\ FramesKept'
  BY <1>1, <1>2 DEF PageInv, STypeOK, PagesInv, FramesKept, FramesOf
<1>4. StoredInv'
  <2>1. \A u \in Threads : job'[u] # "tail"
    BY <1>1, <1>2, OthersWait DEF Begun
  <2> QED
    BY <2>1 DEF StoredInv
<1> QED
  BY <1>2, <1>3, <1>4 DEF PageInv

(* A page is finished while its writer is alone and inside. *)
LEMMA DoFinishKeeps ==
  ASSUME NEW h, Hashes = {h}, Alone, LockInv, PageInv,
         NEW t \in Threads, DoFinish(t)
  PROVE  PageInv'
<1> USE LockAssumption, SharedAssumption
<1>1. /\ pc[t] = "in" /\ job[t] = "write" /\ Job(t, "create")
      /\ UNCHANGED <<lockVars, made, tail, cell, wpage, len, id, count, acked>>
      /\ \A p \in Procs \ {ProcOf[t]} : wpage[p] = -1
      /\ status' = [status EXCEPT ![wpage[ProcOf[t]]] = "finish"]
  BY DEF DoFinish
<1>2. /\ job' \in [Threads -> {"none", "init", "write", "create", "again",
                               "tail", "done"}]
      /\ \A u \in Threads : u # t => job'[u] = job[u]
      /\ job'[t] = "create"
  BY <1>1 DEF Job, PageInv, STypeOK
<1>3. \A u \in Threads : u # t => job'[u] \notin Begun
  BY <1>1, <1>2, OthersWait
<1>4. STypeOK'
  BY <1>1, <1>2 DEF PageInv, STypeOK
<1>5. JobInv'
  <2> SUFFICES ASSUME NEW u \in Threads
               PROVE  /\ job'[u] \in Begun => pc[u] = "in"
                      /\ job'[u] \in Writes =>
                           /\ wpage[ProcOf[u]] # -1 /\ id[u] > 0
                           /\ len[u] \in Sizes
    BY <1>1 DEF JobInv, lockVars
  <2>1. CASE u = t
    BY <2>1, <1>1 DEF PageInv, JobInv, Writes
  <2>2. CASE u # t
    BY <2>2, <1>2 DEF PageInv, JobInv
  <2> QED
    BY <2>1, <2>2
<1>6. PagesInv' /\ FramesKept'
  BY <1>1 DEF PageInv, PagesInv, FramesKept, FramesOf
<1>7. FinishInv'
  <2>1. \A u \in Threads : job'[u] = "create" => u = t
    BY <1>3 DEF Begun
  <2>2. \A p \in Procs : wpage[p] # -1 => p = ProcOf[t]
    BY <1>1
  <2> QED
    BY <1>1, <1>2, <2>1, <2>2 DEF FinishInv
<1>8. StoredInv'
  <2>1. \A u \in Threads : job'[u] # "tail"
    BY <1>2, <1>3 DEF Begun
  <2> QED
    BY <2>1 DEF StoredInv
<1> QED
  BY <1>4, <1>5, <1>6, <1>7, <1>8 DEF PageInv

(* The page that is made has no frame yet: it comes after the last one. *)
LEMMA DoCreateKeeps ==
  ASSUME NEW h, Hashes = {h}, LockInv, PageInv,
         NEW t \in Threads, DoCreate(t)
  PROVE  PageInv'
<1> USE LockAssumption, SharedAssumption
<1>0. PICK p \in Procs : p = ProcOf[t]
  OBVIOUS
<1>1. /\ pc[t] = "in" /\ job[t] = "create" /\ Job(t, "again")
      /\ UNCHANGED <<lockVars, cell, len, id, count, acked>>
      /\ CreateNextPage(p, wpage[p])
  BY <1>0 DEF DoCreate
<1>2. /\ job' \in [Threads -> {"none", "init", "write", "create", "again",
                               "tail", "done"}]
      /\ \A u \in Threads : u # t => job'[u] = job[u]
      /\ job'[t] = "again"
  BY <1>1 DEF Job, PageInv, STypeOK
<1>3. \A u \in Threads : /\ u # t => job'[u] \notin Begun
                         /\ job'[u] \notin {"create", "tail"}
  BY <1>1, <1>2, OthersWait DEF Begun
<1>4. \A q \in Procs : q # p => wpage[q] = -1
  BY <1>0, <1>1 DEF PageInv, FinishInv
<1>5. /\ wpage[p] # -1 /\ wpage[p] \in made
      /\ \A j \in made : j <= wpage[p]
  BY <1>0, <1>1 DEF PageInv, JobInv, PagesInv, Writes
<1>6. TailNum \in Pages \cup {-1} /\ made = 0 .. TailNum
  BY LastPage DEF PageInv
<1>7. wpage[p] = TailNum /\ TailNum \in Pages
  BY <1>5, <1>6 DEF Pages
<1>8. PICK k : k = wpage[p] + 1
  OBVIOUS
<1>9. /\ k \in Pages /\ k \notin made /\ made' = 0 .. k
      /\ status' = [status EXCEPT ![k] = "writting"]
      /\ tail' = [tail EXCEPT ![k] = 0]
      /\ wpage' = [wpage EXCEPT ![p] = k]
  BY <1>1, <1>6, <1>7, <1>8 DEF CreateNextPage, Pages
<1>10. tail' = tail
  BY <1>9 DEF PageInv, PagesInv, STypeOK
<1>11. wpage'[p] = k /\ \A q \in Procs : q # p => wpage'[q] = -1
  BY <1>4, <1>9 DEF PageInv, STypeOK
<1>12. STypeOK'
  <2>1. made' \subseteq Pages
    BY <1>9 DEF Pages
  <2>2. status' \in [Pages -> {"writting", "finish"}]
    BY <1>9 DEF PageInv, STypeOK
  <2>3. wpage' \in [Procs -> Pages \cup {-1}]
    BY <1>9 DEF PageInv, STypeOK
  <2> QED
    BY <1>1, <1>2, <1>10, <2>1, <2>2, <2>3 DEF PageInv, STypeOK
<1>13. JobInv'
  <2> SUFFICES ASSUME NEW u \in Threads
               PROVE  /\ job'[u] \in Begun => pc[u] = "in"
                      /\ job'[u] \in Writes =>
                           /\ wpage'[ProcOf[u]] # -1 /\ id[u] > 0
                           /\ len[u] \in Sizes
    BY <1>1 DEF JobInv, lockVars
  <2>1. wpage'[p] # -1
    BY <1>9, <1>11 DEF Pages
  <2>2. CASE u = t
    BY <2>1, <2>2, <1>0, <1>1 DEF PageInv, JobInv, Writes
  <2>3. CASE u # t
    <3>1. job'[u] \in Writes => wpage[ProcOf[u]] # -1
      BY <2>3, <1>2 DEF PageInv, JobInv
    <3>2. job'[u] \in Writes => ProcOf[u] = p
      BY <3>1, <1>4
    <3> QED
      BY <2>1, <2>3, <3>2, <1>2 DEF PageInv, JobInv
  <2> QED
    BY <2>2, <2>3
<1>14. \A j \in made' : j <= k
  BY <1>9
<1>15. \A j \in Pages : j \notin made' => tail'[j] = 0
  BY <1>6, <1>7, <1>8, <1>9, <1>10 DEF PageInv, PagesInv, Pages
<1>16. PagesInv'
  BY <1>9, <1>11, <1>14, <1>15 DEF PagesInv, Pages
<1>17. FinishInv'
  BY <1>3, <1>9, <1>11 DEF FinishInv, PageInv, STypeOK
<1>18. StoredInv'
  BY <1>3 DEF StoredInv
<1>19. FramesKept'
  BY <1>1, <1>10 DEF PageInv, FramesKept, FramesOf
<1> QED
  BY <1>12, <1>13, <1>16, <1>17, <1>18, <1>19 DEF PageInv

(* The call that is done gives the lock back. *)
LEMMA DoUnlockKeeps ==
  ASSUME LockInv, PageInv, NEW t \in Threads, DoUnlock(t)
  PROVE  PageInv'
<1> USE LockAssumption
<1>1. /\ job[t] = "done" /\ Job(t, "none")
      /\ UNCHANGED <<made, status, tail, cell, wpage, len, id, count, acked>>
  BY DEF DoUnlock
<1>2. /\ job' \in [Threads -> {"none", "init", "write", "create", "again",
                               "tail", "done"}]
      /\ \A u \in Threads : u # t => job'[u] = job[u]
      /\ job'[t] = "none"
  BY <1>1 DEF Job, PageInv, STypeOK
<1>3. \A u \in Threads : u # t => pc'[u] = pc[u]
  BY DEF DoUnlock, UnsetFileLock, GoTo, LockInv, TypeOK
<1>4. STypeOK' /\ PagesInv' /\ FramesKept'
  BY <1>1, <1>2 DEF PageInv, STypeOK, PagesInv, FramesKept, FramesOf
<1>5. JobInv'
  <2> SUFFICES ASSUME NEW u \in Threads
               PROVE  /\ job'[u] \in Begun => pc'[u] = "in"
                      /\ job'[u] \in Writes =>
                           /\ wpage[ProcOf[u]] # -1 /\ id[u] > 0
                           /\ len[u] \in Sizes
    BY <1>1 DEF JobInv
  <2>1. CASE u = t
    BY <2>1, <1>2 DEF Begun, Writes
  <2>2. CASE u # t
    BY <2>2, <1>2, <1>3 DEF PageInv, JobInv
  <2> QED
    BY <2>1, <2>2
<1>6. \A u \in Threads : /\ job'[u] = "create" <=> job[u] = "create"
                         /\ job'[u] = "tail" <=> job[u] = "tail"
  BY <1>1, <1>2
<1>7. FinishInv'
  BY <1>1, <1>6 DEF PageInv, FinishInv
<1>8. StoredInv'
  BY <1>1, <1>6 DEF PageInv, StoredInv, Fits
<1> QED
  BY <1>4, <1>5, <1>7, <1>8 DEF PageInv

(* A process that ends leaves the files as they are, and has no page. *)
LEMMA GoneKeeps ==
  ASSUME LockInv, PageInv, NEW p \in Procs, Ends(p), Gone(p)
  PROVE  PageInv'
<1> USE LockAssumption
<1>1. /\ wpage' = [wpage EXCEPT ![p] = -1]
      /\ UNCHANGED <<made, status, tail, cell, len, id, count, acked>>
  BY DEF Gone
<1>2. \A t \in Threads :
        /\ ProcOf[t] = p => job'[t] = "none"
        /\ ProcOf[t] # p => job'[t] = job[t] /\ pc'[t] = pc[t]
  BY DEF Gone, Ends
<1>3. wpage'[p] = -1 /\ \A q \in Procs : q # p => wpage'[q] = wpage[q]
  BY <1>1 DEF PageInv, STypeOK
<1>4. job' \in [Threads -> {"none", "init", "write", "create", "again", "tail",
                            "done"}]
  BY DEF Gone, PageInv, STypeOK
<1>5. STypeOK'
  BY <1>1, <1>4 DEF PageInv, STypeOK
<1>6. JobInv'
  BY <1>1, <1>2, <1>3 DEF PageInv, JobInv, Begun, Writes
<1>7. PagesInv' /\ FramesKept'
  BY <1>1, <1>3 DEF PageInv, PagesInv, FramesKept, FramesOf
<1>8. FinishInv'
  <2>1. ASSUME NEW q \in Procs, wpage'[q] # -1, status[wpage'[q]] = "finish"
        PROVE  \E t \in Threads : ProcOf[t] = q /\ job'[t] = "create"
    <3>1. q # p /\ wpage'[q] = wpage[q]
      BY <2>1, <1>3
    <3>2. PICK t \in Threads : ProcOf[t] = q /\ job[t] = "create"
      BY <2>1, <3>1 DEF PageInv, FinishInv
    <3> QED
      BY <3>1, <3>2, <1>2
  <2>2. ASSUME NEW t \in Threads, job'[t] = "create",
               NEW q \in Procs \ {ProcOf[t]}
        PROVE  wpage'[q] = -1
    BY <2>2, <1>2, <1>3 DEF PageInv, FinishInv
  <2> QED
    BY <1>1, <2>1, <2>2 DEF FinishInv
<1>9. StoredInv'
  <2> SUFFICES ASSUME NEW t \in Threads, job'[t] = "tail"
               PROVE  LET k == wpage'[ProcOf[t]] IN
                      cell[k][tail[k]] = id[t] /\ tail[k] + len[t] <= PageCap
    BY <1>1 DEF StoredInv, Fits
  <2>1. ProcOf[t] # p /\ job[t] = "tail"
    BY <1>2
  <2> QED
    BY <2>1, <1>3 DEF PageInv, StoredInv, Fits
<1> QED
  BY <1>5, <1>6, <1>7, <1>8, <1>9 DEF PageInv

(* The steps of the processes that share pages are steps of the lock. *)
LEMMA SharedLock ==
  ASSUME LockInv, [SNext]_vars
  PROVE  LockInv'
<1> USE LockAssumption
<1>1. CASE LockStep
  BY <1>1, InitKeeps, ProceedKeeps DEF LockStep, Proceed
<1>2. ASSUME NEW t \in Threads, PageStep(t)
      PROVE  LockInv'
  <2>1. CASE CallInit(t) \/ \E s \in Sizes : CallWrite(t, s)
    BY <2>1, CallKeeps DEF CallInit, CallWrite
  <2>2. CASE \/ DoInit(t) \/ DoStore(t) \/ DoTail(t) \/ DoDiscard(t)
             \/ DoFinish(t) \/ DoCreate(t)
    <3>1. UNCHANGED lockVars
      BY <2>2 DEF DoInit, DoStore, DoTail, DoDiscard, DoFinish, DoCreate
    <3> QED
      BY <3>1 DEF lockVars, LockInv, TypeOK, HasFlag
  <2>3. CASE DoUnlock(t)
    BY <2>3, ProceedKeeps DEF DoUnlock
  <2>4. CASE SDivideByZero(t)
    BY <2>4, EndsKeeps DEF SDivideByZero, DivideByZero
  <2> QED
    BY <1>2, <2>1, <2>2, <2>3, <2>4 DEF PageStep
<1>3. ASSUME NEW p \in Procs, SKill(p)
      PROVE  LockInv'
  BY <1>3, EndsKeeps DEF SKill, Kill
<1>4. CASE UNCHANGED vars
  BY <1>4 DEF vars, lockVars, LockInv, TypeOK, HasFlag
<1> QED
  BY <1>1, <1>2, <1>3, <1>4 DEF SNext

(* What says nothing of the pages keeps what holds of them. *)
LEMMA PagesStay ==
  ASSUME PageInv, UNCHANGED pageVars, pc' = pc
  PROVE  PageInv'
<1>1. STypeOK' /\ JobInv' /\ PagesInv' /\ FinishInv'
  BY DEF pageVars, PageInv, STypeOK, JobInv, PagesInv, FinishInv
<1>2. StoredInv'
  BY DEF pageVars, PageInv, StoredInv, Fits
<1>3. FramesKept'
  BY DEF pageVars, PageInv, FramesKept, FramesOf
<1> QED
  BY <1>1, <1>2, <1>3 DEF PageInv

(* No step loses a frame or breaks what the pages rest on. *)
LEMMA SharedStep ==
  ASSUME NEW h, Hashes = {h}, Alone, SharedInv, [SNext]_vars
  PROVE  SharedInv'
<1> USE LockAssumption DEF SharedInv
<1>1. LockInv'
  BY SharedLock
<1>2. CASE LockStep
  BY <1>1, <1>2, LockStepKeeps
<1>3. ASSUME NEW t \in Threads, PageStep(t)
      PROVE  PageInv'
  <2>1. CASE CallInit(t) \/ \E s \in Sizes : CallWrite(t, s)
    BY <2>1, CallsKeep
  <2>2. CASE DoInit(t)
    BY <2>2, DoInitKeeps
  <2>3. CASE DoStore(t)
    BY <2>3, DoStoreKeeps
  <2>4. CASE DoTail(t)
    BY <2>4, DoTailKeeps
  <2>5. CASE DoDiscard(t)
    BY <2>5, DoDiscardKeeps
  <2>6. CASE DoFinish(t)
    BY <2>6, DoFinishKeeps
  <2>7. CASE DoCreate(t)
    BY <2>7, DoCreateKeeps
  <2>8. CASE DoUnlock(t)
    BY <2>8, DoUnlockKeeps
  <2>9. CASE SDivideByZero(t)
    BY <2>9, GoneKeeps DEF SDivideByZero, DivideByZero
  <2> QED
    BY <1>3, <2>1, <2>2, <2>3, <2>4, <2>5, <2>6, <2>7, <2>8, <2>9 DEF PageStep
<1>4. ASSUME NEW p \in Procs, SKill(p)
      PROVE  PageInv'
  BY <1>4, GoneKeeps DEF SKill, Kill
<1>5. CASE UNCHANGED vars
  <2>1. UNCHANGED pageVars /\ pc' = pc
    BY <1>5 DEF vars, lockVars
  <2> QED
    BY <1>1, <2>1, PagesStay
<1> QED
  BY <1>1, <1>2, <1>3, <1>4, <1>5 DEF SNext

(* Before the first process starts there is no page. *)
LEMMA SharedInit ==
  ASSUME SInit
  PROVE  SharedInv
<1> USE LockAssumption, SharedAssumption
<1>1. LockInv
  BY LockInit DEF SInit
<1>2. STypeOK
  BY DEF SInit, STypeOK, Pages, Offsets
<1>3. JobInv /\ StoredInv /\ FramesKept
  BY DEF SInit, JobInv, StoredInv, FramesKept, Begun, Writes
<1>4. PagesInv /\ FinishInv
  <2>1. made = 0 .. -1
    BY DEF SInit
  <2> QED
    BY <2>1 DEF SInit, PagesInv, FinishInv
<1> QED
  BY <1>1, <1>2, <1>3, <1>4 DEF SharedInv, PageInv

(* A group of pages that is written under one lock, and whose pages are    *)
(* finished while their writer is alone, loses no frame for which          *)
(* CGlobalSafeRawIOWriter::write returned true: for any processes, threads *)
(* and geometry of the pages, whoever dies when.                           *)
THEOREM FramesAreKept ==
  ASSUME NEW h, Hashes = {h}, Alone
  PROVE  SSpec => []FramesKept
<1>1. SharedInv /\ [SNext]_vars => SharedInv'
  BY SharedStep
<1>2. SharedInv => FramesKept
  BY DEF SharedInv, PageInv
<1> QED
  BY <1>1, <1>2, SharedInit, PTL DEF SSpec

(* The critical sections of the processes that share pages exclude each    *)
(* other, for any resources (CGlobalSafeRawIOWriter).                      *)
THEOREM SharedExcludes == SSpec => []MutualExclusion
<1>1. LockInv /\ [SNext]_vars => LockInv'
  BY SharedLock
<1>2. SInit => LockInv
  BY LockInit DEF SInit
<1>3. LockInv => MutualExclusion
  BY LockAssumption DEF LockInv, MutualExclusion, HasFlag
<1> QED
  BY <1>1, <1>2, <1>3, PTL DEF SSpec
=============================================================================
