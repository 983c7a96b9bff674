------------------------------- MODULE PageIO -------------------------------
(***************************************************************************)
(* The memory-mapped page files of src/src/io: one CRawIOWriter process    *)
(* appends frames to a group of numbered page files with a common prefix,  *)
(* any number of CRawIOReaders in other processes poll the same files.     *)
(*                                                                         *)
(* Writer and readers share memory without a lock, so the model has one    *)
(* step per group of stores or loads whose order matters.  Lengths are     *)
(* counted in abstract units: a page head takes HeadLen of them, a frame   *)
(* head FrameLen.  The payload of a frame is abstracted to its rank among  *)
(* all frames ever published, so that a lost, repeated or torn frame is    *)
(* visible in what a reader returns.                                       *)
(*                                                                         *)
(* The writer process may die between any two stores and be started again; *)
(* the mapped files keep every store it made.                              *)
(***************************************************************************)
EXTENDS Integers

CONSTANTS
  Readers,        \* the reader processes
  MaxPage,        \* bound: largest page number the writer may create
  PageSize,       \* size of a page file (page_size_)
  HeadLen,        \* sizeof(tPageHead)
  FrameLen,       \* sizeof(tFrameHead)
  Lens,           \* payload lengths the application writes
  MaxFrames,      \* bound: number of frames published
  MaxStarts,      \* bound: number of times the writer process is started
  Nanos,          \* times a reader asks to start from
  CrashInCreate   \* TRUE: the process may also die inside createNextPage

ASSUME PageAssumption ==
  /\ MaxPage \in Nat
  /\ HeadLen \in Nat \ {0}
  /\ FrameLen \in Nat \ {0}
  /\ PageSize \in Nat
  /\ HeadLen <= PageSize
  /\ Lens \subseteq Nat
  /\ MaxFrames \in Nat
  /\ MaxStarts \in Nat
  /\ Nanos \subseteq Nat \ {0}
  /\ CrashInCreate \in BOOLEAN

VARIABLES
  \* the page files, shared by all processes
  file,     \* absent, empty (created, size 0) or sized (truncated to PageSize)
  version,  \* tPageHead.version: zero, ok, or bad (overwritten by a frame)
  status,   \* tPageHead.status
  tail,     \* tPageHead.tail
  last,     \* tPageHead.last_nano
  cell,     \* the frame memory at each offset of each page
  \* the writer process
  wpc,      \* where the writer is
  wpage,    \* page_num_
  wop,      \* the call in progress: write or prefetch
  wlen,     \* its len argument
  starts,   \* number of times the writer process was started
  \* the readers
  rpc,      \* where each reader is
  rpage,    \* page_num_
  rfd,      \* fd_ >= 0
  rcur,     \* cursor_ - buf_
  rstat,    \* the local variable status of read()
  rnano,    \* the nano argument of seekTime, 0 for the tail
  rgot,     \* payload of the frame read() returned last, -1 if none
  \* history: what was published, and what each reader is owed
  nseq,     \* number of frames published so far: the rank of the next one
  cnt,      \* per page: nseq when the page was created or last extended
  rseq      \* per reader: rank of the next frame it has to return

pageVars == <<file, version, status, tail, last, cell>>
writerVars == <<wpc, wpage, wop, wlen, starts>>
readerVars == <<rpc, rpage, rfd, rcur, rstat, rnano, rgot, rseq>>
vars == <<file, version, status, tail, last, cell, wpc, wpage, wop, wlen,
          starts, rpc, rpage, rfd, rcur, rstat, rnano, rgot, nseq, cnt, rseq>>

Pages == 0 .. MaxPage
Offsets == 0 .. PageSize
Cell == [body: Nat \cup {-1}, len: Nat, magic: BOOLEAN, nano: Nat]

(* A page file that was just extended by ftruncate is all zeros. *)
ZeroCell == [body |-> -1, len |-> 0, magic |-> FALSE, nano |-> 0]

(***************************************************************************)
(* What both sides do with a page file.                                    *)
(***************************************************************************)

(* CIOBase::getTailNum: the largest number of an existing file, or -1. *)
TailNum ==
  IF \A p \in Pages : file[p] = "absent"
  THEN -1
  ELSE CHOOSE p \in Pages : /\ file[p] # "absent"
                            /\ \A q \in Pages : file[q] # "absent" => q <= p

(* CIOBase::getHeadNum: the smallest one, or -1. *)
HeadNum ==
  IF \A p \in Pages : file[p] = "absent"
  THEN -1
  ELSE CHOOSE p \in Pages : /\ file[p] # "absent"
                            /\ \A q \in Pages : file[q] # "absent" => p <= q

(* CIOBase::checkPageHead *)
CheckPageHead(p) == version[p] = "ok"

(* CRawIOReader::load succeeds: the file is there, is not too small, and   *)
(* its head is complete.                                                   *)
Loadable(p) == p \in Pages /\ file[p] = "sized" /\ CheckPageHead(p)

-----------------------------------------------------------------------------
(***************************************************************************)
(* CRawIOWriter                                                            *)
(***************************************************************************)

(* The test of write and prefetch: a frame of length len fits the page. *)
Fits(p, len) == tail[p] + FrameLen + len <= PageSize

(* The call in progress returns (or dies with the process). *)
Return(pc) ==
  /\ wpc' = pc
  /\ wop' = "none"
  /\ wlen' = 0

(* init, first part: the latest page is the one to go on with.             *)
WInitScan ==
  /\ wpc = "down"
  /\ starts < MaxStarts
  /\ starts' = starts + 1
  /\ wop' = "init"
  /\ wpage' = TailNum
  /\ wpc' = IF TailNum >= 0 THEN "load" ELSE "open"
  /\ UNCHANGED <<pageVars, wlen, readerVars, nseq, cnt>>

(* Mutant of WInitLoad: the head of an existing page is filled again. *)
WInitLoadReset ==
  /\ wpc = "load"
  /\ file' = [file EXCEPT ![wpage] = "sized"]
  /\ tail' = [tail EXCEPT ![wpage] = HeadLen]
  /\ Return("idle")
  /\ UNCHANGED <<version, status, last, cell, wpage, starts, readerVars, nseq,
                 cnt>>

(* init, second part: load the latest page.  A file smaller than a page    *)
(* head counts as new: it is extended and its head is not checked.         *)
WInitLoad ==
  /\ wpc = "load"
  /\ file' = [file EXCEPT ![wpage] = "sized"]
  /\ \/ /\ file[wpage] = "sized" /\ ~CheckPageHead(wpage)
        /\ Return("down")
     \/ /\ file[wpage] = "empty" \/ CheckPageHead(wpage)
        /\ status[wpage] = "writting"
        /\ Return("idle")
     \/ /\ file[wpage] = "empty" \/ CheckPageHead(wpage)
        /\ status[wpage] = "finish"
        /\ wpc' = "open"
        /\ UNCHANGED <<wop, wlen>>
  /\ UNCHANGED <<version, status, tail, last, cell, wpage, starts, readerVars,
                 nseq, cnt>>

(* createNextPage -> load(page_num_ + 1): open(O_CREAT) makes the file.    *)
(* page_num_ is the largest number in use, so the file is a new one.       *)
WOpen ==
  /\ wpc = "open"
  /\ wpage < MaxPage
  /\ file' = [file EXCEPT ![wpage + 1] = "empty"]
  /\ cnt' = [cnt EXCEPT ![wpage + 1] = nseq]
  /\ wpc' = "truncate"
  /\ UNCHANGED <<version, status, tail, last, cell, wpage, wop, wlen, starts,
                 readerVars, nseq>>

(* load: ftruncate gives the new file its size; ++page_num_. *)
WTruncate ==
  /\ wpc = "truncate"
  /\ file' = [file EXCEPT ![wpage + 1] = "sized"]
  /\ wpage' = wpage + 1
  /\ wpc' = "head"
  /\ UNCHANGED <<version, status, tail, last, cell, wop, wlen, starts,
                 readerVars, nseq, cnt>>

(* Mutant of WFillHead: the tail of a new page is left at 0. *)
WFillHeadNoTail ==
  /\ wpc = "head"
  /\ status' = [status EXCEPT ![wpage] = "writting"]
  /\ wpc' = "version"
  /\ UNCHANGED <<file, version, tail, last, cell, wpage, wop, wlen, starts,
                 readerVars, nseq, cnt>>

(* createNextPage: the stores of the head but the last one. *)
WFillHead ==
  /\ wpc = "head"
  /\ status' = [status EXCEPT ![wpage] = "writting"]
  /\ tail' = [tail EXCEPT ![wpage] = HeadLen]
  /\ wpc' = "version"
  /\ UNCHANGED <<file, version, last, cell, wpage, wop, wlen, starts,
                 readerVars, nseq, cnt>>

(* createNextPage: version is stored last.  init is then done, write and   *)
(* prefetch try the frame again.                                           *)
WSetVersion ==
  /\ wpc = "version"
  /\ version' = [version EXCEPT ![wpage] = "ok"]
  /\ \/ wop = "init" /\ Return("idle")
     \/ wop # "init" /\ wpc' = "again" /\ UNCHANGED <<wop, wlen>>
  /\ UNCHANGED <<file, status, tail, last, cell, wpage, starts, readerVars,
                 nseq, cnt>>

(* write(data, len) or prefetch(len) is called. *)
WCall(op, len) ==
  /\ wpc = "idle"
  /\ nseq < MaxFrames
  /\ wop' = op
  /\ wlen' = len
  /\ wpc' = "room"
  /\ UNCHANGED <<pageVars, wpage, starts, readerVars, nseq, cnt>>

(* The frame fits: prefetch stores its length at once and hands out the    *)
(* buffer, write goes on to copy the data.                                 *)
WReserve ==
  /\ wpc \in {"room", "again"}
  /\ Fits(wpage, wlen)
  /\ cell' = IF wop = "prefetch"
             THEN [cell EXCEPT ![wpage][tail[wpage]].len = wlen]
             ELSE cell
  /\ wpc' = "body"
  /\ UNCHANGED <<file, version, status, tail, last, wpage, wop, wlen, starts,
                 readerVars, nseq, cnt>>

(* Mutant of WFinish: the page is left without the finish mark. *)
WFinishNoMark ==
  /\ wpc = "room"
  /\ ~Fits(wpage, wlen)
  /\ wpc' = "open"
  /\ UNCHANGED <<pageVars, wpage, wop, wlen, starts, readerVars, nseq, cnt>>

(* It does not fit: the page is closed and unmapped, the next one created. *)
WFinish ==
  /\ wpc = "room"
  /\ ~Fits(wpage, wlen)
  /\ status' = [status EXCEPT ![wpage] = "finish"]
  /\ wpc' = "open"
  /\ UNCHANGED <<file, version, tail, last, cell, wpage, wop, wlen, starts,
                 readerVars, nseq, cnt>>

(* It does not even fit an empty page: write returns false, prefetch NULL. *)
WTooBig ==
  /\ wpc = "again"
  /\ ~Fits(wpage, wlen)
  /\ Return("idle")
  /\ UNCHANGED <<pageVars, wpage, starts, readerVars, nseq, cnt>>

(* The data bytes are stored.  A frame that starts below HeadLen overwrites *)
(* the page head, the version with it.                                     *)
WBody ==
  /\ wpc = "body"
  /\ cell' = [cell EXCEPT ![wpage][tail[wpage]].body = nseq]
  /\ version' = IF tail[wpage] < HeadLen
                THEN [version EXCEPT ![wpage] = "bad"]
                ELSE version
  /\ wpc' = "fhead"
  /\ UNCHANGED <<file, status, tail, last, wpage, wop, wlen, starts,
                 readerVars, nseq, cnt>>

(* write / commit: the frame head.  Time is the rank of the frame, from 1. *)
WFrameHead ==
  /\ wpc = "fhead"
  /\ cell' = [cell EXCEPT ![wpage][tail[wpage]] =
                [body |-> @.body, len |-> wlen, magic |-> TRUE,
                 nano |-> nseq + 1]]
  /\ wpc' = "last"
  /\ UNCHANGED <<file, version, status, tail, last, wpage, wop, wlen, starts,
                 readerVars, nseq, cnt>>

(* A prefetched frame may be given up instead of committed (discard). *)
WDiscard ==
  /\ wpc = "fhead"
  /\ wop = "prefetch"
  /\ Return("idle")
  /\ UNCHANGED <<pageVars, wpage, starts, readerVars, nseq, cnt>>

(* write / commit: last_nano, before the tail. *)
WLastNano ==
  /\ wpc = "last"
  /\ last' = [last EXCEPT ![wpage] = nseq + 1]
  /\ wpc' = "tail"
  /\ UNCHANGED <<file, version, status, tail, cell, wpage, wop, wlen, starts,
                 readerVars, nseq, cnt>>

(* write / commit: storing the new tail publishes the frame. *)
WTail ==
  /\ wpc = "tail"
  /\ tail' = [tail EXCEPT ![wpage] = @ + FrameLen + wlen]
  /\ nseq' = nseq + 1
  /\ cnt' = [cnt EXCEPT ![wpage] = nseq + 1]
  /\ Return("idle")
  /\ UNCHANGED <<file, version, status, last, cell, wpage, starts,
                 readerVars>>

Creating == {"truncate", "head", "version"}

(* The process dies.  Its stores stay in the files. *)
WCrash ==
  /\ wpc # "down"
  /\ CrashInCreate \/ wpc \notin Creating
  /\ Return("down")
  /\ UNCHANGED <<pageVars, wpage, starts, readerVars, nseq, cnt>>

-----------------------------------------------------------------------------
(***************************************************************************)
(* CRawIOReader                                                            *)
(***************************************************************************)

(* init: choose the page to start from, the latest one for nano = 0, the   *)
(* first one for a start time.                                             *)
RInit(r, nano) ==
  LET from == IF nano = 0 THEN TailNum ELSE HeadNum IN
  /\ rpc[r] = "off"
  /\ rpage' = [rpage EXCEPT ![r] = IF from < 0 THEN 0 ELSE from]
  /\ rnano' = [rnano EXCEPT ![r] = nano]
  /\ rpc' = [rpc EXCEPT ![r] = "load"]
  /\ UNCHANGED <<pageVars, writerVars, rfd, rcur, rstat, rgot, nseq, cnt, rseq>>

(* init: load the page and go to the wanted position; a page that cannot   *)
(* be loaded yet is tried again by every later read.                       *)
RInitLoad(r) ==
  /\ rpc[r] = "load"
  /\ rfd' = [rfd EXCEPT ![r] = Loadable(rpage[r])]
  /\ rcur' = [rcur EXCEPT ![r] = IF Loadable(rpage[r]) THEN HeadLen ELSE @]
  /\ rpc' = [rpc EXCEPT ![r] = IF ~Loadable(rpage[r]) THEN "idle"
                               ELSE IF rnano[r] = 0 THEN "seekTail"
                               ELSE "seekPage"]
  /\ rseq' = [rseq EXCEPT ![r] =
                IF ~Loadable(rpage[r]) THEN nseq
                ELSE IF rpage[r] = 0 THEN 0 ELSE cnt[rpage[r] - 1]]
  /\ UNCHANGED <<pageVars, writerVars, rpage, rstat, rnano, rgot, nseq, cnt>>

(* seekTime(-1), or no frame of the page is late enough: go to the tail. *)
RSeekTail(r) ==
  /\ rpc[r] = "seekTail"
  /\ rcur' = [rcur EXCEPT ![r] = tail[rpage[r]]]
  /\ rseq' = [rseq EXCEPT ![r] = cnt[rpage[r]]]
  /\ rpc' = [rpc EXCEPT ![r] = "idle"]
  /\ UNCHANGED <<pageVars, writerVars, rpage, rfd, rstat, rnano, rgot, nseq,
                 cnt>>

(* seekTime, test of the first loop: is the last frame of the page late    *)
(* enough?                                                                 *)
RSeekPage(r) ==
  /\ rpc[r] = "seekPage"
  /\ rpc' = [rpc EXCEPT ![r] = IF last[rpage[r]] < rnano[r]
                               THEN "passPage" ELSE "seekFrame"]
  /\ UNCHANGED <<pageVars, writerVars, rpage, rfd, rcur, rstat, rnano, rgot,
                 nseq, cnt, rseq>>

(* passPage: a finished page is left for the next one, whose load may      *)
(* fail; in a page still being written the cursor goes to the tail.        *)
RPassPage(r) ==
  LET p == rpage[r] IN
  /\ rpc[r] = "passPage"
  /\ \/ /\ status[p] # "finish"
        /\ rpc' = [rpc EXCEPT ![r] = "seekTail"]
        /\ UNCHANGED <<rpage, rfd, rcur, rseq>>
     \/ /\ status[p] = "finish"
        /\ rpage' = [rpage EXCEPT ![r] = p + 1]
        /\ rfd' = [rfd EXCEPT ![r] = Loadable(p + 1)]
        /\ rcur' = [rcur EXCEPT ![r] = IF Loadable(p + 1) THEN HeadLen ELSE @]
        /\ rseq' = [rseq EXCEPT ![r] = cnt[p]]
        /\ rpc' = [rpc EXCEPT ![r] =
                      IF Loadable(p + 1) THEN "seekPage" ELSE "idle"]
  /\ UNCHANGED <<pageVars, writerVars, rstat, rnano, rgot, nseq, cnt>>

(* seekTime, second loop: skip the frames of the page that are too early.  *)
RSeekFrame(r) ==
  LET c == cell[rpage[r]][rcur[r]]
      skip == c.nano < rnano[r]
  IN
  /\ rpc[r] = "seekFrame"
  /\ rcur' = [rcur EXCEPT ![r] = IF skip THEN @ + FrameLen + c.len ELSE @]
  /\ rseq' = [rseq EXCEPT ![r] = IF skip THEN @ + 1 ELSE @]
  /\ rpc' = [rpc EXCEPT ![r] = IF skip THEN "seekFrame" ELSE "idle"]
  /\ UNCHANGED <<pageVars, writerVars, rpage, rfd, rstat, rnano, rgot, nseq,
                 cnt>>

(* read() without a page: try to load it. *)
RReload(r) ==
  /\ rpc[r] = "idle"
  /\ ~rfd[r]
  /\ Loadable(rpage[r])
  /\ rfd' = [rfd EXCEPT ![r] = TRUE]
  /\ rcur' = [rcur EXCEPT ![r] = HeadLen]
  /\ UNCHANGED <<pageVars, writerVars, rpc, rpage, rstat, rnano, rgot, nseq,
                 cnt, rseq>>

(* read(): status is loaded before tail. *)
RStatus(r) ==
  /\ rpc[r] = "idle"
  /\ rfd[r]
  /\ rstat' = [rstat EXCEPT ![r] = status[rpage[r]]]
  /\ rpc' = [rpc EXCEPT ![r] = "tail"]
  /\ UNCHANGED <<pageVars, writerVars, rpage, rfd, rcur, rnano, rgot, nseq,
                 cnt, rseq>>

(* Mutant of RTail: the reader leaves a page that is not finished. *)
RTailEager(r) ==
  LET p == rpage[r]
      more == rcur[r] < tail[p]
  IN
  /\ rpc[r] = "tail"
  /\ rpc' = [rpc EXCEPT ![r] = IF more THEN "frame" ELSE "idle"]
  /\ rpage' = [rpage EXCEPT ![r] = IF more THEN p ELSE p + 1]
  /\ rfd' = [rfd EXCEPT ![r] = more \/ Loadable(p + 1)]
  /\ rcur' = [rcur EXCEPT ![r] =
                IF ~more /\ Loadable(p + 1) THEN HeadLen ELSE @]
  /\ UNCHANGED <<pageVars, writerVars, rstat, rnano, rgot, nseq, cnt, rseq>>

(* read(): tail decides whether there is a frame; without one, a page that *)
(* was finished is left for the next.                                      *)
RTail(r) ==
  LET p == rpage[r]
      more == rcur[r] < tail[p]
      pass == ~more /\ rstat[r] = "finish"
  IN
  /\ rpc[r] = "tail"
  /\ rpc' = [rpc EXCEPT ![r] = IF more THEN "frame" ELSE "idle"]
  /\ rpage' = [rpage EXCEPT ![r] = IF pass THEN p + 1 ELSE p]
  /\ rfd' = [rfd EXCEPT ![r] = IF pass THEN Loadable(p + 1) ELSE @]
  /\ rcur' = [rcur EXCEPT ![r] =
                IF pass /\ Loadable(p + 1) THEN HeadLen ELSE @]
  /\ UNCHANGED <<pageVars, writerVars, rstat, rnano, rgot, nseq, cnt, rseq>>

(* Mutant of RFrame: the cursor stays on the frame returned. *)
RFrameAgain(r) ==
  /\ rpc[r] = "frame"
  /\ rpc' = [rpc EXCEPT ![r] = "idle"]
  /\ rgot' = [rgot EXCEPT ![r] = cell[rpage[r]][rcur[r]].body]
  /\ UNCHANGED <<pageVars, writerVars, rpage, rfd, rcur, rstat, rnano, nseq,
                 cnt, rseq>>

(* read(): the frame is returned, or skipped with all before the tail when *)
(* its magic word is not there.                                            *)
RFrame(r) ==
  LET p == rpage[r]
      c == cell[p][rcur[r]]
  IN
  /\ rpc[r] = "frame"
  /\ rpc' = [rpc EXCEPT ![r] = "idle"]
  /\ rcur' = [rcur EXCEPT ![r] =
                IF c.magic THEN @ + FrameLen + c.len ELSE tail[p]]
  /\ rgot' = [rgot EXCEPT ![r] = IF c.magic THEN c.body ELSE @]
  /\ rseq' = [rseq EXCEPT ![r] = @ + 1]
  /\ UNCHANGED <<pageVars, writerVars, rpage, rfd, rstat, rnano, nseq, cnt>>

(* The reader is destroyed (~CIOBase unloads the page), for example when    *)
(* CReaderPool erases it.  A later init makes a new one.                   *)
RExit(r) ==
  /\ rpc[r] = "idle"
  /\ rpc' = [rpc EXCEPT ![r] = "off"]
  /\ rpage' = [rpage EXCEPT ![r] = 0]
  /\ rfd' = [rfd EXCEPT ![r] = FALSE]
  /\ rcur' = [rcur EXCEPT ![r] = 0]
  /\ rstat' = [rstat EXCEPT ![r] = "writting"]
  /\ rnano' = [rnano EXCEPT ![r] = 0]
  /\ rgot' = [rgot EXCEPT ![r] = -1]
  /\ rseq' = [rseq EXCEPT ![r] = 0]
  /\ UNCHANGED <<pageVars, writerVars, nseq, cnt>>

-----------------------------------------------------------------------------
Init ==
  /\ file = [p \in Pages |-> "absent"]
  /\ version = [p \in Pages |-> "zero"]
  /\ status = [p \in Pages |-> "writting"]
  /\ tail = [p \in Pages |-> 0]
  /\ last = [p \in Pages |-> 0]
  /\ cell = [p \in Pages |-> [o \in Offsets |-> ZeroCell]]
  /\ wpc = "down"
  /\ wpage = -1
  /\ wop = "none"
  /\ wlen = 0
  /\ starts = 0
  /\ rpc = [r \in Readers |-> "off"]
  /\ rpage = [r \in Readers |-> 0]
  /\ rfd = [r \in Readers |-> FALSE]
  /\ rcur = [r \in Readers |-> 0]
  /\ rstat = [r \in Readers |-> "writting"]
  /\ rnano = [r \in Readers |-> 0]
  /\ rgot = [r \in Readers |-> -1]
  /\ nseq = 0
  /\ cnt = [p \in Pages |-> 0]
  /\ rseq = [r \in Readers |-> 0]

Writer ==
  \/ WInitScan \/ WInitLoad
  \/ WOpen \/ WTruncate \/ WFillHead \/ WSetVersion
  \/ \E op \in {"write", "prefetch"}, len \in Lens : WCall(op, len)
  \/ WReserve \/ WFinish \/ WTooBig
  \/ WBody \/ WFrameHead \/ WDiscard \/ WLastNano \/ WTail

ReadStep(r) ==
  \/ RInitLoad(r) \/ RSeekTail(r)
  \/ RSeekPage(r) \/ RPassPage(r) \/ RSeekFrame(r)
  \/ RReload(r) \/ RStatus(r) \/ RTail(r) \/ RFrame(r)

Reader(r) ==
  \/ \E nano \in {0} \cup Nanos : RInit(r, nano)
  \/ ReadStep(r)
  \/ RExit(r)

Next ==
  \/ Writer
  \/ WCrash
  \/ \E r \in Readers : Reader(r)

Spec == Init /\ [][Next]_vars

(* A reader is polled in a loop that never stops. *)
FairSpec == Spec /\ \A r \in Readers : WF_vars(ReadStep(r))

-----------------------------------------------------------------------------
(***************************************************************************)
(* Properties                                                              *)
(***************************************************************************)

(* Every variable has its type. *)
TypeOK ==
  /\ file \in [Pages -> {"absent", "empty", "sized"}]
  /\ version \in [Pages -> {"zero", "ok", "bad"}]
  /\ status \in [Pages -> {"writting", "finish"}]
  /\ tail \in [Pages -> Offsets]
  /\ last \in [Pages -> Nat]
  /\ cell \in [Pages -> [Offsets -> Cell]]
  /\ wpc \in {"down", "load", "open", "truncate", "head", "version", "idle",
              "room", "again", "body", "fhead", "last", "tail"}
  /\ wpage \in Pages \cup {-1}
  /\ wop \in {"none", "init", "write", "prefetch"}
  /\ wlen \in Nat
  /\ starts \in Nat
  /\ rpc \in [Readers -> {"off", "load", "seekTail", "seekPage", "passPage",
                          "seekFrame", "idle", "tail", "frame"}]
  /\ rpage \in [Readers -> 0 .. MaxPage + 1]
  /\ rfd \in [Readers -> BOOLEAN]
  /\ rcur \in [Readers -> Offsets]
  /\ rstat \in [Readers -> {"writting", "finish"}]
  /\ rnano \in [Readers -> Nat]
  /\ rgot \in [Readers -> Nat \cup {-1}]
  /\ nseq \in Nat
  /\ cnt \in [Pages -> Nat]
  /\ rseq \in [Readers -> Nat]

(* read() returns the frames in the order they were published, none lost   *)
(* and none repeated, from the position init chose on, across page changes *)
(* and writer crashes (CRawIOReader::read, CRawIOWriter::write).           *)
ReadsInOrder ==
  \A r \in Readers : rgot[r] # -1 => rgot[r] = rseq[r] - 1

(* Reader r stands at the tail of its page or on the frame it is owed. *)
OnFrame(r) ==
  LET p == rpage[r] IN
  \/ rcur[r] = tail[p] /\ rseq[r] = cnt[p]
  \/ /\ rcur[r] < tail[p]
     /\ cell[p][rcur[r]].magic
     /\ cell[p][rcur[r]].body = rseq[r]

(* A reader that may read from its page stands at the tail, with nothing    *)
(* owed to it from this page, or on a complete frame: the one it is owed.  *)
(* In particular read() never meets a torn frame.                          *)
CursorOnFrame ==
  \A r \in Readers :
    rfd[r] /\ rpc[r] \in {"idle", "tail", "frame"} => OnFrame(r)

(* What was published stays: in a readable page the tail only grows, a     *)
(* finished page stays finished, and no store goes below the tail.         *)
PublishedImmutable ==
  [][\A p \in Pages : version[p] = "ok" =>
       /\ version'[p] = "ok"
       /\ tail'[p] >= tail[p]
       /\ status[p] = "finish" => status'[p] = "finish" /\ tail'[p] = tail[p]
       /\ \A o \in Offsets : o < tail[p] => cell'[p][o] = cell[p][o]]_vars

(* A frame for which write returned true is in a page that readers can     *)
(* load, so that what was sent can be read again later.                    *)
AcknowledgedReadable ==
  \A p \in Pages : cnt[p] > (IF p = 0 THEN 0 ELSE cnt[p - 1]) => Loadable(p)

(* init(path, from_nano) starts at the first frame filled at from_nano or  *)
(* later, or earlier than that: it skips none of them.  seekTime does not  *)
(* guarantee it (README, known to fail).                                   *)
StartsAtNano ==
  \A r \in Readers :
    rpc[r] = "idle" /\ rnano[r] > 0 /\ rgot[r] = -1 => rseq[r] < rnano[r]

(* The readers that have chosen their position. *)
Attached ==
  {r \in Readers : rpc[r] \in {"idle", "tail", "frame"}}

(* The pages implement MessageLog: a reader joins the log when its init     *)
(* returns, and gets from then on one message after the other.             *)
Log == INSTANCE MessageLog WITH
         published <- nseq,
         attached <- Attached,
         next <- [r \in Readers |-> IF r \in Attached THEN rseq[r] ELSE 0],
         got <- rgot

ImplementsLog == Log!LogSpec

(* Every published frame a reader is owed is eventually returned to it,    *)
(* unless the reader goes away.                                            *)
EventuallyDelivered ==
  \A r \in Readers : \A n \in 0 .. MaxFrames - 1 :
    (rpc[r] = "idle" /\ rseq[r] <= n /\ n < nseq)
      ~> (rseq[r] > n \/ rpc[r] = "off")

-----------------------------------------------------------------------------
(***************************************************************************)
(* The inductive invariant behind ReadsInOrder and CursorOnFrame.          *)
(***************************************************************************)

(* Rank of the first frame of page p. *)
Base(p) == IF p = 0 THEN 0 ELSE cnt[p - 1]

(* Page p is between open(O_CREAT) and the store of its version. *)
InCreation(p) ==
  \/ wpc = "truncate" /\ p = wpage + 1
  \/ wpc \in {"head", "version"} /\ p = wpage

(* The creation of page p was interrupted: no reader will ever load it. *)
Dead(p) == file[p] # "absent" /\ version[p] # "ok" /\ ~InCreation(p)

(* n is the largest page number in use. *)
IsTop(n) ==
  /\ n >= 0 => file[n] # "absent"
  /\ \A q \in Pages : q > n => file[q] = "absent"

(* The writer works on the top page, which holds the latest frames. *)
TopInv ==
  /\ \E n \in Pages \cup {-1} :
       /\ IsTop(n)
       /\ wpc \notin {"down", "truncate"} => wpage = n
       /\ wpc = "truncate" => wpage = n - 1
       /\ wpc \notin {"down", "open"} => n >= 0
       /\ n >= 0 => cnt[n] = nseq
       /\ n = -1 => nseq = 0
       /\ InCreation(n) => Base(n) = nseq
  /\ (\E p \in Pages : file[p] # "absent") => file[0] # "absent"
  /\ \A p \in Pages : cnt[p] <= nseq

(* A page without a complete head is as ftruncate left it. *)
FreshInv ==
  \A p \in Pages :
    file[p] = "absent" \/ InCreation(p) =>
      /\ version[p] = "zero"
      /\ status[p] = "writting"
      /\ last[p] = 0
      /\ cell[p] = [o \in Offsets |-> ZeroCell]
      /\ wpc = "version" /\ p = wpage => tail[p] = HeadLen

(* Page p begins with the frame of rank Base(p), or is still empty. *)
FirstFrame(p) ==
  \/ tail[p] = HeadLen /\ cnt[p] = Base(p)
  \/ tail[p] > HeadLen /\ cell[p][HeadLen].magic
                       /\ cell[p][HeadLen].body = Base(p)

(* The frame at offset o ends at the tail of page p and is the latest one  *)
(* there, or is followed by the frame of the next rank.                    *)
Linked(p, o) ==
  LET e == o + FrameLen + cell[p][o].len IN
  /\ cell[p][o].nano = cell[p][o].body + 1
  /\ cell[p][o].body < cnt[p]
  /\ \/ e = tail[p] /\ cnt[p] = cell[p][o].body + 1
     \/ /\ e < tail[p]
        /\ cell[p][e].magic
        /\ cell[p][e].body = cell[p][o].body + 1

(* The frames of a readable page follow one another from the head to the   *)
(* tail, and nothing beyond the tail looks like a frame.                   *)
ChainInv ==
  \A p \in Pages : version[p] = "ok" =>
    /\ file[p] = "sized"
    /\ HeadLen <= tail[p]
    /\ FirstFrame(p)
    /\ \A o \in Offsets :
         /\ o > tail[p] => ~cell[p][o].magic
         /\ o < tail[p] /\ cell[p][o].magic => Linked(p, o)

(* last_nano is the time of a frame before the tail or of the one at it. *)
LastInv ==
  \A p \in Pages :
    /\ last[p] <= nseq + 1
    /\ \A o \in Offsets : cell[p][o].nano <= nseq + 1
    /\ version[p] = "ok" =>
         \/ last[p] = 0
         \/ last[p] <= cnt[p] /\ tail[p] > HeadLen
         \/ cell[p][tail[p]].nano >= last[p]

(* What the writer has stored so far of the frame at the tail. *)
WriterInv ==
  LET c == cell[wpage][tail[wpage]] IN
  /\ wpc \in {"head", "version", "idle", "room", "again", "body", "fhead",
               "last", "tail"} => file[wpage] = "sized"
  /\ wpc \in {"idle", "room", "again", "body", "fhead", "last", "tail"} =>
       status[wpage] = "writting"
  /\ wpc \in {"body", "fhead", "last", "tail"} => Fits(wpage, wlen)
  /\ wpc \in {"fhead", "last", "tail"} => c.body = nseq
  /\ wpc \in {"last", "tail"} => c.magic /\ c.len = wlen /\ c.nano = nseq + 1
  /\ wpc = "tail" => last[wpage] = nseq + 1

(* Where reader r stands. *)
ReaderAt(r) ==
  LET p == rpage[r] IN
  /\ rfd[r] => p \in Pages /\ version[p] = "ok"
  /\ rpc[r] \notin {"off", "load", "idle"} => rfd[r]
  /\ rpc[r] \in {"off", "load"} => ~rfd[r]
  /\ rpc[r] \notin {"idle", "tail", "frame"} => rgot[r] = -1
  /\ rpc[r] = "load" =>
       p \in Pages /\ (p = 0 \/ file[p] # "absent")
  /\ rpc[r] \in {"seekPage", "passPage", "seekFrame"} => rnano[r] > 0
  /\ rpc[r] \in {"seekPage", "passPage"} =>
       rcur[r] = HeadLen /\ rseq[r] = Base(p)
  /\ rpc[r] = "seekFrame" =>
       /\ OnFrame(r)
       /\ rnano[r] <= last[p]
       /\ rcur[r] = tail[p] => cell[p][tail[p]].nano >= rnano[r]
  /\ rpc[r] \in {"idle", "tail", "frame"} /\ rfd[r] => OnFrame(r)
  /\ rpc[r] = "tail" /\ rstat[r] = "finish" => status[p] = "finish"
  /\ rpc[r] = "frame" => rcur[r] < tail[p]
  /\ rpc[r] = "idle" /\ ~rfd[r] /\ p \in Pages =>
       Dead(p) \/ rseq[r] = Base(p)
  /\ rpc[r] = "idle" /\ ~rfd[r] /\ p \in Pages \ {0} /\ file[p] = "absent" =>
       file[p - 1] # "absent" /\ status[p - 1] = "finish"
  /\ rgot[r] # -1 => rgot[r] = rseq[r] - 1

ReaderInv == \A r \in Readers : ReaderAt(r)

PageInv ==
  /\ TypeOK
  /\ TopInv
  /\ FreshInv
  /\ ChainInv
  /\ LastInv
  /\ WriterInv
  /\ ReaderInv
=============================================================================
