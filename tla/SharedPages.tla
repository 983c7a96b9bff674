----------------------------- MODULE SharedPages -----------------------------
(***************************************************************************)
(* The system pages: CSystemIO holds one CGlobalSafeRawIOWriter per        *)
(* process, and the processes append to the same group of pages, each      *)
(* under CGlobalLock (module GlobalLock).  A process keeps the number of   *)
(* the page it has mapped (page_num_) from one call to the next.           *)
(*                                                                         *)
(* Inside the lock only the writers' own stores are interleaved with the   *)
(* end of a process; a frame is abstracted to its number and to the size   *)
(* it takes, head included, and a page to the frames below its tail.       *)
(***************************************************************************)
EXTENDS GlobalLock

CONSTANTS
  MaxPage,    \* bound: largest page number
  PageCap,    \* room for frames in a page
  Sizes,      \* sizes of the frames that are written
  MaxFrames,  \* bound: number of frames written
  Alone       \* TRUE: a page is finished only while no other process has
              \* mapped one

ASSUME SharedAssumption ==
  /\ MaxPage \in Nat /\ PageCap \in Nat /\ MaxFrames \in Nat
  /\ Sizes \subseteq 1 .. PageCap /\ Alone \in BOOLEAN

VARIABLES
  made,    \* the page files that exist
  status,  \* tPageHead.status of each page
  tail,    \* tPageHead.tail of each page, from 0
  cell,    \* the number of the frame that starts at each offset, 0 if none
  wpage,   \* page_num_ of each process, -1 before init
  job,     \* what each thread does under the lock
  len,     \* size of the frame it writes
  id,      \* number of that frame
  count,   \* number of frames begun
  acked    \* the frames for which write returned true

pageVars == <<made, status, tail, cell, wpage, job, len, id, count, acked>>
vars == <<lockVars, pageVars>>

Pages == 0 .. MaxPage
Offsets == 0 .. PageCap

SInit ==
  /\ Init
  /\ made = {}
  /\ status = [k \in Pages |-> "writting"]
  /\ tail = [k \in Pages |-> 0]
  /\ cell = [k \in Pages |-> [o \in Offsets |-> 0]]
  /\ wpage = [p \in Procs |-> -1]
  /\ job = [t \in Threads |-> "none"]
  /\ len = [t \in Threads |-> 0]
  /\ id = [t \in Threads |-> 0]
  /\ count = 0
  /\ acked = {}

-----------------------------------------------------------------------------
(* The largest number of an existing page, or -1 (CIOBase::getTailNum). *)
TailNum ==
  IF made = {} THEN -1 ELSE CHOOSE k \in made : \A j \in made : j <= k

Job(t, j) == job' = [job EXCEPT ![t] = j]

(* createNextPage for process p that has page k: the page after k is       *)
(* opened, made when it is not there, and its head filled as for a new one. *)
CreateNextPage(p, k) ==
  /\ k < MaxPage
  /\ made' = made \cup {k + 1}
  /\ status' = [status EXCEPT ![k + 1] = "writting"]
  /\ tail' = [tail EXCEPT ![k + 1] = 0]
  /\ wpage' = [wpage EXCEPT ![p] = k + 1]

(* init, write and prefetch ask for the lock first. *)
CallInit(t) ==
  /\ wpage[ProcOf[t]] = -1
  /\ job[t] = "none"
  /\ \E h \in Hashes : Call(t, "lock", h)
  /\ Job(t, "init")
  /\ UNCHANGED <<made, status, tail, cell, wpage, len, id, count, acked>>

CallWrite(t, s) ==
  /\ wpage[ProcOf[t]] # -1
  /\ job[t] = "none"
  /\ count < MaxFrames
  /\ \E h \in Hashes : Call(t, "lock", h)
  /\ Job(t, "write")
  /\ count' = count + 1
  /\ id' = [id EXCEPT ![t] = count + 1]
  /\ len' = [len EXCEPT ![t] = s]
  /\ UNCHANGED <<made, status, tail, cell, wpage, acked>>

(* CRawIOWriter::init: go on with the latest page, or with a new one when  *)
(* it is finished or there is none.                                        *)
DoInit(t) ==
  LET p == ProcOf[t] IN
  /\ pc[t] = "in" /\ job[t] = "init"
  /\ \/ /\ TailNum >= 0 /\ status[TailNum] = "writting"
        /\ wpage' = [wpage EXCEPT ![p] = TailNum]
        /\ UNCHANGED <<made, status, tail>>
     \/ /\ TailNum >= 0 => status[TailNum] = "finish"
        /\ CreateNextPage(p, TailNum)
  /\ Job(t, "done")
  /\ UNCHANGED <<lockVars, cell, len, id, count, acked>>

(* The frame fits the page the process has mapped. *)
Fits(t) == tail[wpage[ProcOf[t]]] + len[t] <= PageCap

(* write: the frame is stored at the tail of the page. *)
DoStore(t) ==
  LET k == wpage[ProcOf[t]]
      from == tail[k]
  IN
  /\ pc[t] = "in" /\ job[t] \in {"write", "again"}
  /\ Fits(t)
  /\ cell' = [cell EXCEPT ![k] = [o \in Offsets |->
                IF o = from THEN id[t]
                ELSE IF from < o /\ o < from + len[t] THEN 0
                ELSE @[o]]]
  /\ Job(t, "tail")
  /\ UNCHANGED <<lockVars, made, status, tail, wpage, len, id, count, acked>>

(* write: the new tail, and true is returned. *)
DoTail(t) ==
  /\ pc[t] = "in" /\ job[t] = "tail"
  /\ tail' = [tail EXCEPT ![wpage[ProcOf[t]]] = @ + len[t]]
  /\ acked' = acked \cup {id[t]}
  /\ Job(t, "done")
  /\ UNCHANGED <<lockVars, made, status, cell, wpage, len, id, count>>

(* A prefetched frame is given up: the tail stays (discard). *)
DoDiscard(t) ==
  /\ pc[t] = "in" /\ job[t] = "tail"
  /\ Job(t, "done")
  /\ UNCHANGED <<lockVars, made, status, tail, cell, wpage, len, id, count,
                 acked>>

(* write: no room in the page the process has mapped, which is finished. *)
DoFinish(t) ==
  /\ pc[t] = "in" /\ job[t] = "write"
  /\ ~Fits(t)
  /\ Alone => \A p \in Procs \ {ProcOf[t]} : wpage[p] = -1
  /\ status' = [status EXCEPT ![wpage[ProcOf[t]]] = "finish"]
  /\ Job(t, "create")
  /\ UNCHANGED <<lockVars, made, tail, cell, wpage, len, id, count, acked>>

(* Mutant of DoCreate: the page that is full is used again. *)
DoCreateSame(t) ==
  /\ pc[t] = "in" /\ job[t] = "create"
  /\ tail' = [tail EXCEPT ![wpage[ProcOf[t]]] = 0]
  /\ Job(t, "again")
  /\ UNCHANGED <<lockVars, made, status, cell, wpage, len, id, count, acked>>

(* write: the process goes to the page after it. *)
DoCreate(t) ==
  /\ pc[t] = "in" /\ job[t] = "create"
  /\ CreateNextPage(ProcOf[t], wpage[ProcOf[t]])
  /\ Job(t, "again")
  /\ UNCHANGED <<lockVars, cell, len, id, count, acked>>

(* The lock is given back when the call is done. *)
DoUnlock(t) ==
  /\ job[t] = "done"
  /\ UnsetFileLock(t)
  /\ Job(t, "none")
  /\ UNCHANGED <<made, status, tail, cell, wpage, len, id, count, acked>>

(* The process ends, in the middle of a call or not. *)
Gone(p) ==
  /\ wpage' = [wpage EXCEPT ![p] = -1]
  /\ job' = [t \in Threads |-> IF ProcOf[t] = p THEN "none" ELSE job[t]]
  /\ UNCHANGED <<made, status, tail, cell, len, id, count, acked>>

SKill(p) == Kill(p) /\ Gone(p)
SDivideByZero(t) == DivideByZero(t) /\ Gone(ProcOf[t])

LockStep ==
  /\ \/ \E p \in Procs : InitStep(p)
     \/ \E t \in Threads : Spin(t) \/ SetFileLock(t) \/ Clear(t)
  /\ UNCHANGED pageVars

PageStep(t) ==
  \/ CallInit(t) \/ \E s \in Sizes : CallWrite(t, s)
  \/ DoInit(t) \/ DoStore(t) \/ DoTail(t) \/ DoDiscard(t)
  \/ DoFinish(t) \/ DoCreate(t) \/ DoUnlock(t)
  \/ SDivideByZero(t)

SNext ==
  \/ LockStep
  \/ \E t \in Threads : PageStep(t)
  \/ \E p \in Procs : SKill(p)

SSpec == SInit /\ [][SNext]_vars

-----------------------------------------------------------------------------
(***************************************************************************)
(* Properties                                                              *)
(***************************************************************************)

(* The frames a reader finds in page k. *)
FramesOf(k) == {cell[k][o] : o \in {x \in Offsets : x < tail[k]}} \ {0}

(* Every variable of the pages has its type. *)
STypeOK ==
  /\ made \subseteq Pages
  /\ status \in [Pages -> {"writting", "finish"}]
  /\ tail \in [Pages -> Offsets]
  /\ cell \in [Pages -> [Offsets -> 0 .. MaxFrames]]
  /\ wpage \in [Procs -> Pages \cup {-1}]
  /\ job \in [Threads -> {"none", "init", "write", "create", "again", "tail",
                      "done"}]
  /\ len \in [Threads -> Nat]
  /\ id \in [Threads -> 0 .. MaxFrames]
  /\ count \in 0 .. MaxFrames
  /\ acked \subseteq 1 .. MaxFrames

(* A frame for which write returned true stays in the pages, whatever the  *)
(* other processes write or whoever dies (CGlobalSafeRawIOWriter::write).  *)
FramesKept == acked \subseteq UNION {FramesOf(k) : k \in Pages}

(* A finished page is final: readers leave it, so no frame is added to it  *)
(* any more (CRawIOWriter::write, CRawIOReader::read).  README, known to   *)
(* fail.                                                                   *)
FinishedFinal ==
  [][\A k \in Pages : status[k] = "finish" =>
       status'[k] = "finish" /\ FramesOf(k)' = FramesOf(k)]_vars
=============================================================================
