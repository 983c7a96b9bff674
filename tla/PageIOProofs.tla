---------------------------- MODULE PageIOProofs ----------------------------
(***************************************************************************)
(* Proofs about PageIO: PageInv is inductive, for every number of readers, *)
(* pages and frames and every page geometry, and what follows from it.     *)
(***************************************************************************)
EXTENDS PageIO, TLAPS

USE PageAssumption

-----------------------------------------------------------------------------
(***************************************************************************)
(* Facts used for several actions.                                         *)
(***************************************************************************)

(* CIOBase::getTailNum finds the top page. *)
LEMMA TailNumIsTop ==
  ASSUME TypeOK, NEW n \in Pages \cup {-1}, IsTop(n)
  PROVE  TailNum = n
<1>1. CASE n = -1
  BY <1>1 DEF TailNum, IsTop, Pages
<1>2. CASE n # -1
  <2> DEFINE P(p) == /\ file[p] # "absent"
                     /\ \A q \in Pages : file[q] # "absent" => q <= p
  <2>1. n \in Pages /\ P(n)
    BY <1>2 DEF IsTop, Pages
  <2>2. \A p \in Pages : P(p) => p = n
    BY <2>1 DEF Pages
  <2> QED
    BY <2>1, <2>2 DEF TailNum
<1> QED
  BY <1>1, <1>2

(* CIOBase::getHeadNum finds page 0, if any page. *)
LEMMA HeadNumIsZero ==
  ASSUME TypeOK, TopInv
  PROVE  HeadNum = IF file[0] = "absent" THEN -1 ELSE 0
<1> DEFINE P(p) == /\ file[p] # "absent"
                   /\ \A q \in Pages : file[q] # "absent" => p <= q
<1>1. CASE file[0] = "absent"
  BY <1>1 DEF HeadNum, TopInv
<1>2. CASE file[0] # "absent"
  <2>1. 0 \in Pages /\ P(0)
    BY <1>2 DEF Pages
  <2>2. \A p \in Pages : P(p) => p = 0
    BY <2>1 DEF Pages
  <2> QED
    BY <1>2, <2>1, <2>2 DEF HeadNum
<1> QED
  BY <1>1, <1>2

(* The page above the largest one in use has no file. *)
LEMMA AboveTop ==
  ASSUME PageInv, wpc # "down", wpc # "truncate"
  PROVE  /\ IsTop(wpage)
         /\ wpage >= 0 => cnt[wpage] = nseq
         /\ wpage = -1 => nseq = 0
         /\ wpc # "open" => wpage \in Pages
         /\ InCreation(wpage) => Base(wpage) = nseq
BY DEF PageInv, TopInv, TypeOK, Pages

(* What a step of the writer must keep for the readers to stay where they  *)
(* are: nothing below the tail of a readable page changes, and what lies   *)
(* there after the step is the old frames and perhaps the next one.        *)
LEMMA ReadersStay ==
  ASSUME PageInv,
         UNCHANGED readerVars,
         \A p \in Pages : file[p] # "absent" => file'[p] # "absent",
         \A p \in Pages : file[p] # "absent" /\ status[p] = "finish"
                            => status'[p] = "finish",
         \A p \in Pages : Dead(p) => Dead(p)',
         \A p \in Pages :
            \/ p = 0
            \/ file[p] # "absent"
            \/ file[p - 1] # "absent" /\ status[p - 1] = "finish"
            => Base(p)' = Base(p),
         \A p \in Pages : version[p] = "ok" =>
            /\ version'[p] = "ok"
            /\ tail'[p] \in Offsets
            /\ last'[p] \in Nat /\ last'[p] >= last[p]
            /\ \A o \in Offsets : o < tail[p] => cell'[p][o] = cell[p][o]
            /\ \/ /\ tail'[p] = tail[p] /\ cnt'[p] = cnt[p]
                  /\ cell'[p][tail[p]].nano \in Nat
                  /\ cell'[p][tail[p]].nano >= cell[p][tail[p]].nano
               \/ /\ tail'[p] > tail[p]
                  /\ cell'[p][tail[p]].magic
                  /\ cell'[p][tail[p]].body = cnt[p]
  PROVE  ReaderInv'
<1> SUFFICES ASSUME NEW r \in Readers
             PROVE  ReaderAt(r)'
  BY DEF ReaderInv
<1>1. ReaderAt(r) /\ rpage[r] \in 0 .. MaxPage + 1 /\ rcur[r] \in Offsets
      /\ rnano[r] \in Nat
  BY DEF PageInv, ReaderInv, TypeOK
<1>2. PICK p \in 0 .. MaxPage + 1 : p = rpage[r] /\ p = rpage'[r]
  BY <1>1 DEF readerVars
<1>3. ASSUME rfd[r]
      PROVE  /\ p \in Pages /\ version[p] = "ok" /\ version'[p] = "ok"
             /\ tail[p] \in Offsets /\ tail'[p] \in Offsets
             /\ tail'[p] >= tail[p]
             /\ file[p] # "absent"
             /\ Base(p)' = Base(p)
             /\ OnFrame(r) => OnFrame(r)' /\ rcur[r] <= tail[p]
             /\ last[p] \in Nat /\ last'[p] \in Nat /\ last'[p] >= last[p]
  <2>1. p \in Pages /\ version[p] = "ok"
    BY <1>1, <1>2, <1>3 DEF ReaderAt
  <2>2. tail[p] \in Offsets /\ last[p] \in Nat
    BY <2>1 DEF PageInv, TypeOK
  <2>3. /\ version'[p] = "ok" /\ tail'[p] \in Offsets
        /\ last'[p] \in Nat /\ last'[p] >= last[p]
    BY <2>1
  <2>4. tail'[p] >= tail[p]
    BY <2>1, <2>2 DEF Offsets
  <2>5. file[p] # "absent"
    BY <2>1 DEF PageInv, ChainInv
  <2>6. Base(p)' = Base(p)
    BY <2>1, <2>5
  <2>7. ASSUME OnFrame(r) PROVE OnFrame(r)' /\ rcur[r] <= tail[p]
    BY <1>1, <1>2, <2>1, <2>2, <2>4, <2>7 DEF OnFrame, readerVars, Offsets
  <2> QED
    BY <2>1, <2>2, <2>3, <2>4, <2>5, <2>6, <2>7
<1>4. ASSUME rfd[r], OnFrame(r), rcur[r] = tail'[p], rpc[r] = "seekFrame"
      PROVE  cell'[p][tail'[p]].nano >= rnano[r]
  <2>1. tail'[p] = tail[p]
    BY <1>3, <1>4 DEF Offsets
  <2>2. cell[p][tail[p]].nano \in Nat
    BY <1>3, <1>4 DEF PageInv, TypeOK, Cell
  <2> QED
    BY <1>1, <1>2, <1>3, <1>4, <2>1, <2>2 DEF ReaderAt, Offsets
<1>5. ASSUME rfd[r], rpc[r] = "frame" PROVE rcur[r] < tail'[p]
  BY <1>1, <1>2, <1>3, <1>5 DEF ReaderAt, Offsets
<1>6. ASSUME rfd[r], rpc[r] = "seekFrame"
      PROVE  OnFrame(r)' /\ rnano[r] <= last'[p]
  BY <1>1, <1>2, <1>3, <1>6 DEF ReaderAt
<1>7. ASSUME rpc[r] = "idle", ~rfd[r], p \in Pages
      PROVE  Dead(p)' \/ rseq[r] = Base(p)'
  <2>1. CASE Dead(p)
    BY <2>1, <1>7
  <2>2. CASE ~Dead(p)
    <3>1. rseq[r] = Base(p)
      BY <1>1, <1>2, <1>7, <2>2 DEF ReaderAt
    <3>2. \/ p = 0
          \/ file[p] # "absent"
          \/ file[p - 1] # "absent" /\ status[p - 1] = "finish"
      BY <1>1, <1>2, <1>7 DEF ReaderAt
    <3> QED
      BY <1>7, <3>1, <3>2
  <2> QED
    BY <2>1, <2>2
<1>8. ASSUME rpc[r] = "idle", ~rfd[r], p \in Pages \ {0}, file'[p] = "absent"
      PROVE  file'[p - 1] # "absent" /\ status'[p - 1] = "finish"
  <2>1. p - 1 \in Pages
    BY <1>8 DEF Pages
  <2> QED
    BY <1>1, <1>2, <1>8, <2>1 DEF ReaderAt
<1>9. rpc[r] \in {"seekFrame", "frame", "tail", "seekPage", "passPage"} => rfd[r]
  BY <1>1 DEF ReaderAt
<1>10. rpc[r] = "tail" /\ rstat[r] = "finish" => status'[p] = "finish"
  BY <1>1, <1>2, <1>3, <1>9 DEF ReaderAt
<1>11. rpc[r] = "load" => p \in Pages /\ (p = 0 \/ file'[p] # "absent")
  BY <1>1, <1>2 DEF ReaderAt
<1> QED
  BY <1>1, <1>2, <1>3, <1>4, <1>5, <1>6, <1>7, <1>8, <1>9, <1>10, <1>11
     DEF ReaderAt, readerVars

LEMMA InitInv == Init => PageInv
<1> SUFFICES ASSUME Init PROVE PageInv
  OBVIOUS
<1>1. TypeOK
  BY DEF Init, TypeOK, Pages, Offsets, Cell, ZeroCell
<1>2. TopInv
  <2>1. -1 \in Pages \cup {-1} /\ IsTop(-1) /\ ~InCreation(-1)
    BY DEF Init, IsTop, Pages, InCreation
  <2> QED
    BY <2>1 DEF Init, TopInv, Pages, InCreation
<1>3. FreshInv
  BY DEF Init, FreshInv, InCreation
<1>4. ChainInv /\ LastInv /\ WriterInv
  BY DEF Init, ChainInv, LastInv, WriterInv, ZeroCell
<1>5. ReaderInv
  BY DEF Init, ReaderInv, ReaderAt
<1> QED
  BY <1>1, <1>2, <1>3, <1>4, <1>5 DEF PageInv

LEMMA TailStep == PageInv /\ WTail => PageInv'
<1> SUFFICES ASSUME PageInv, WTail PROVE PageInv'
  OBVIOUS
<1> DEFINE t == tail[wpage]
<1>1. /\ wpage \in Pages /\ status[wpage] = "writting" /\ IsTop(wpage)
      /\ cnt[wpage] = nseq /\ Fits(wpage, wlen)
      /\ cell[wpage][t].magic /\ cell[wpage][t].len = wlen
      /\ cell[wpage][t].body = nseq /\ cell[wpage][t].nano = nseq + 1
      /\ last[wpage] = nseq + 1
      /\ t \in Offsets /\ wlen \in Nat /\ nseq \in Nat
  BY DEF PageInv, TopInv, WriterInv, TypeOK, WTail
<1>chain. \A q \in Pages : q > wpage => file[q] = "absent"
  BY <1>1 DEF IsTop
<1>2. TypeOK'
  <2>1. t + FrameLen + wlen \in Offsets
    BY <1>1, PageAssumption DEF Fits, Offsets
  <2>2. tail' \in [Pages -> Offsets] /\ cnt' \in [Pages -> Nat]
    BY <1>1, <2>1 DEF PageInv, TypeOK, WTail
  <2>3. nseq' \in Nat /\ wlen' \in Nat
    BY <1>1 DEF WTail, Return
  <2> QED
    BY <2>2, <2>3 DEF PageInv, TypeOK, WTail, Return, readerVars
<1>3. TopInv'
  BY <1>1 DEF PageInv, TopInv, WTail, Return, IsTop, InCreation, TypeOK, Pages
<1>4. FreshInv'
  BY <1>1 DEF PageInv, FreshInv, WTail, Return, InCreation, TypeOK, Pages
<1>5. ChainInv'
  <2> SUFFICES ASSUME NEW p \in Pages, version[p] = "ok"
               PROVE  /\ file[p] = "sized"
                      /\ HeadLen <= tail'[p]
                      /\ FirstFrame(p)'
                      /\ \A o \in Offsets :
                           /\ o > tail'[p] => ~cell[p][o].magic
                           /\ o < tail'[p] /\ cell[p][o].magic => Linked(p, o)'
    BY DEF ChainInv, WTail
  <2>1. CASE p # wpage
    <3>1. p - 1 # wpage
      BY <1>1, <1>chain DEF PageInv, ChainInv, Pages
    <3>2. tail'[p] = tail[p] /\ cnt'[p] = cnt[p]
      BY <1>1, <2>1 DEF PageInv, TypeOK, WTail
    <3>3. Base(p)' = Base(p)
      BY <1>1, <3>1 DEF PageInv, TypeOK, WTail, Base, Pages
    <3> QED
      BY <3>2, <3>3 DEF PageInv, ChainInv, WTail, FirstFrame, Linked
  <2>2. CASE p = wpage
    <3>0. Base(p)' = Base(p)
      BY <1>1, <2>2 DEF PageInv, TypeOK, WTail, Base, Pages
    <3>1. /\ tail'[p] = t + FrameLen + wlen /\ cnt'[p] = nseq + 1
          /\ cell' = cell
      BY <1>1, <2>2 DEF PageInv, TypeOK, WTail
    <3>2. file[p] = "sized" /\ HeadLen <= t /\ FirstFrame(p)
      BY <2>2 DEF PageInv, ChainInv
    <3>3. tail'[p] > t /\ tail'[p] \in Offsets
      BY <1>1, <3>1 DEF Fits, Offsets, Pages
    <3>4. FirstFrame(p)'
      BY <1>1, <2>2, <3>0, <3>1, <3>2, <3>3 DEF FirstFrame, Offsets
    <3>5. ASSUME NEW o \in Offsets, o < tail'[p], cell[p][o].magic
          PROVE  Linked(p, o)'
      <4>1. o <= t
        BY <2>2, <3>5, <1>1 DEF PageInv, ChainInv, Offsets
      <4>2. CASE o = t
        BY <1>1, <2>2, <3>1, <4>2 DEF Linked, Offsets
      <4>3. CASE o < t
        <5>1. Linked(p, o) /\ cell[p][o].len \in Nat /\ cell[p][o].body \in Int
          BY <2>2, <3>5, <4>3 DEF PageInv, ChainInv, TypeOK, Cell
        <5> QED
          BY <1>1, <2>2, <3>1, <3>3, <4>3, <5>1 DEF Linked, Offsets
      <4> QED
        BY <4>1, <4>2, <4>3, <1>1 DEF Offsets
    <3>6. ASSUME NEW o \in Offsets, o > tail'[p]
          PROVE  ~cell[p][o].magic
      BY <2>2, <3>3, <3>6, <1>1 DEF PageInv, ChainInv, Offsets
    <3> QED
      BY <3>2, <3>3, <3>4, <3>5, <3>6, <1>1 DEF Offsets
  <2> QED
    BY <2>1, <2>2
<1>6. LastInv'
  <2> SUFFICES ASSUME NEW p \in Pages
               PROVE  /\ last[p] <= nseq' + 1
                      /\ \A o \in Offsets : cell[p][o].nano <= nseq' + 1
                      /\ version[p] = "ok" =>
                          \/ last[p] = 0
                          \/ last[p] <= cnt'[p] /\ tail'[p] > HeadLen
                          \/ cell[p][tail'[p]].nano >= last[p]
    BY DEF LastInv, WTail
  <2>0. last[p] <= nseq' + 1 /\ \A o \in Offsets : cell[p][o].nano <= nseq' + 1
    BY <1>1 DEF PageInv, LastInv, WTail, TypeOK, Cell
  <2>1. CASE p # wpage
    BY <1>1, <2>0, <2>1 DEF PageInv, LastInv, WTail, TypeOK
  <2>2. CASE p = wpage
    BY <1>1, <2>0, <2>2 DEF PageInv, LastInv, ChainInv, WTail, TypeOK, Offsets
  <2> QED
    BY <2>1, <2>2
<1>7. WriterInv'
  BY <1>1 DEF PageInv, WriterInv, WTail, Return, TypeOK, Pages
<1>8. ReaderInv'
  <2>1. ASSUME NEW p \in Pages, \/ p = 0
                               \/ file[p] # "absent"
                               \/ /\ file[p - 1] # "absent"
                                  /\ status[p - 1] = "finish"
        PROVE  Base(p)' = Base(p)
    <3>1. p = 0 \/ p - 1 # wpage
      BY <1>1, <1>chain, <2>1 DEF Pages
    <3> QED
      BY <1>1, <3>1 DEF Base, PageInv, TypeOK, WTail, Pages
  <2>2. \A p \in Pages : Dead(p) => Dead(p)'
    BY DEF Dead, InCreation, WTail, Return
  <2>3. ASSUME NEW p \in Pages, version[p] = "ok", p # wpage
        PROVE  tail'[p] = tail[p] /\ cnt'[p] = cnt[p]
    BY <1>1, <2>3 DEF PageInv, TypeOK, WTail
  <2>4. /\ tail'[wpage] > t
        /\ cell'[wpage][t].magic /\ cell'[wpage][t].body = cnt[wpage]
    BY <1>1 DEF PageInv, TypeOK, WTail, Offsets
  <2>5. ASSUME NEW p \in Pages
        PROVE  /\ tail'[p] \in Offsets
               /\ last'[p] \in Nat /\ last'[p] >= last[p]
               /\ cell'[p][tail[p]].nano \in Nat
               /\ cell'[p][tail[p]].nano >= cell[p][tail[p]].nano
    BY <1>2 DEF PageInv, TypeOK, WTail, Cell
  <2> QED
    BY <2>1, <2>2, <2>3, <2>4, <2>5, ReadersStay DEF WTail
<1> QED
  BY <1>2, <1>3, <1>4, <1>5, <1>6, <1>7, <1>8 DEF PageInv

(***************************************************************************)
(* Steps of the writer that touch no page file.                            *)
(***************************************************************************)
LEMMA QuietStep ==
  ASSUME PageInv,
         UNCHANGED <<pageVars, readerVars, nseq, cnt>>,
         \A p \in Pages : ~InCreation(p)'
  PROVE  FreshInv' /\ ChainInv' /\ LastInv' /\ ReaderInv'
<1>1. \A p \in Pages : Base(p)' = Base(p)
  BY DEF Base
<1>2. ChainInv' /\ LastInv'
  BY <1>1 DEF PageInv, ChainInv, LastInv, FirstFrame, Linked, pageVars
<1>3. \A p \in Pages : Dead(p) => Dead(p)'
  BY DEF Dead, pageVars
<1>4. ASSUME NEW p \in Pages
      PROVE  /\ tail'[p] = tail[p] /\ cnt'[p] = cnt[p]
             /\ tail'[p] \in Offsets
             /\ last'[p] \in Nat /\ last'[p] >= last[p]
             /\ cell'[p][tail[p]].nano \in Nat
             /\ cell'[p][tail[p]].nano >= cell[p][tail[p]].nano
  BY DEF PageInv, TypeOK, pageVars, Cell
<1>5. ReaderInv'
  BY <1>1, <1>3, <1>4, ReadersStay DEF pageVars
<1>6. FreshInv'
  <2>1. \A p \in Pages : ~(wpc' = "version" /\ p = wpage')
    BY DEF InCreation
  <2> QED
    BY <2>1 DEF PageInv, FreshInv, pageVars
<1> QED
  BY <1>2, <1>5, <1>6

LEMMA InitScanStep == PageInv /\ WInitScan => PageInv'
<1> SUFFICES ASSUME PageInv, WInitScan PROVE PageInv'
  OBVIOUS
<1>1. PICK n \in Pages \cup {-1} :
        /\ IsTop(n)
        /\ n >= 0 => cnt[n] = nseq
        /\ n = -1 => nseq = 0
  BY DEF PageInv, TopInv
<1>2. TailNum = n
  BY <1>1, TailNumIsTop DEF PageInv
<1>3. TypeOK'
  BY <1>2 DEF PageInv, TypeOK, WInitScan, readerVars, pageVars, Pages
<1>4. ~InCreation(n)' /\ \A p \in Pages : ~InCreation(p)'
  BY DEF InCreation, WInitScan
<1>5. TopInv'
  <2>1. IsTop(n)'
    BY <1>1 DEF IsTop, WInitScan, pageVars
  <2>2. file' = file /\ wpage' = n /\ nseq' = nseq /\ cnt' = cnt
        /\ wpc' \in {"load", "open"} /\ (wpc' = "load" => n >= 0)
    BY <1>2 DEF WInitScan, pageVars
  <2> QED
    BY <1>1, <1>4, <2>1, <2>2 DEF PageInv, TopInv
<1>6. WriterInv'
  BY DEF WriterInv, WInitScan
<1>7. FreshInv' /\ ChainInv' /\ LastInv' /\ ReaderInv'
  BY <1>4, QuietStep DEF WInitScan
<1> QED
  BY <1>3, <1>5, <1>6, <1>7 DEF PageInv

(* WCall, WTooBig and WDiscard: the writer keeps its page. *)
LEMMA CallStep ==
  PageInv /\ ((\E op \in {"write", "prefetch"}, len \in Lens : WCall(op, len))
                \/ WTooBig \/ WDiscard) => PageInv'
<1> SUFFICES ASSUME PageInv,
                    \/ \E op \in {"write", "prefetch"}, len \in Lens :
                         WCall(op, len)
                    \/ WTooBig \/ WDiscard
             PROVE  PageInv'
  OBVIOUS
<1>1. /\ wpc \in {"idle", "again", "fhead"} /\ wpc' \in {"idle", "room"}
      /\ wop' \in {"none", "write", "prefetch"} /\ wlen' \in Nat
      /\ UNCHANGED <<pageVars, wpage, starts, readerVars, nseq, cnt>>
  BY DEF WCall, WTooBig, WDiscard, Return
<1>2. IsTop(wpage) /\ wpage \in Pages /\ cnt[wpage] = nseq
  BY <1>1, AboveTop DEF Pages
<1>3. TypeOK'
  BY <1>1 DEF PageInv, TypeOK, readerVars, pageVars
<1>4. \A p \in Pages : ~InCreation(p)'
  BY <1>1 DEF InCreation
<1>5. TopInv'
  <2>1. IsTop(wpage)'
    BY <1>1, <1>2 DEF IsTop, pageVars
  <2>2. file' = file /\ wpage' = wpage /\ nseq' = nseq /\ cnt' = cnt
    BY <1>1 DEF pageVars
  <2> QED
    BY <1>1, <1>2, <1>4, <2>1, <2>2 DEF PageInv, TopInv, Pages
<1>6. WriterInv'
  BY <1>1 DEF PageInv, WriterInv, pageVars
<1>7. FreshInv' /\ ChainInv' /\ LastInv' /\ ReaderInv'
  BY <1>1, <1>4, QuietStep
<1> QED
  BY <1>3, <1>5, <1>6, <1>7 DEF PageInv

LEMMA CrashStep == PageInv /\ WCrash => PageInv'
<1> SUFFICES ASSUME PageInv, WCrash PROVE PageInv'
  OBVIOUS
<1>1. TypeOK'
  BY DEF PageInv, TypeOK, WCrash, Return, readerVars, pageVars
<1>2. \A p \in Pages \cup {-1} : ~InCreation(p)'
  BY DEF InCreation, WCrash, Return
<1>3. TopInv'
  <2>1. PICK n \in Pages \cup {-1} :
          /\ IsTop(n)
          /\ n >= 0 => cnt[n] = nseq
          /\ n = -1 => nseq = 0
    BY DEF PageInv, TopInv
  <2>2. IsTop(n)'
    BY <2>1 DEF IsTop, WCrash, pageVars
  <2>3. file' = file /\ nseq' = nseq /\ cnt' = cnt /\ wpc' = "down"
    BY DEF WCrash, pageVars, Return
  <2> QED
    BY <1>2, <2>1, <2>2, <2>3 DEF PageInv, TopInv
<1>4. WriterInv'
  BY DEF WriterInv, WCrash, Return
<1>5. FreshInv' /\ ChainInv' /\ LastInv' /\ ReaderInv'
  BY <1>2, QuietStep DEF WCrash
<1> QED
  BY <1>1, <1>3, <1>4, <1>5 DEF PageInv

(***************************************************************************)
(* Steps that store into the frame at the tail, or last_nano.              *)
(***************************************************************************)
LEMMA StoreStep ==
  ASSUME PageInv,
         {wpc, wpc'} \subseteq {"room", "again", "body", "fhead", "last", "tail"},
         UNCHANGED <<file, status, tail, readerVars, nseq, cnt, wpage>>,
         \/ version' = version
         \/ /\ version' = [version EXCEPT ![wpage] = "bad"]
            /\ tail[wpage] < HeadLen,
         cell' \in [Pages -> [Offsets -> Cell]],
         \A p \in Pages, o \in Offsets :
           p # wpage \/ o # tail[wpage] => cell'[p][o] = cell[p][o],
         cell'[wpage][tail[wpage]].nano >= cell[wpage][tail[wpage]].nano,
         cell'[wpage][tail[wpage]].nano <= nseq + 1,
         \/ last' = last
         \/ /\ last' = [last EXCEPT ![wpage] = nseq + 1]
            /\ cell'[wpage][tail[wpage]].nano = nseq + 1
  PROVE  TopInv' /\ FreshInv' /\ ChainInv' /\ LastInv' /\ ReaderInv'
<1>1. IsTop(wpage) /\ wpage \in Pages /\ cnt[wpage] = nseq
  BY AboveTop DEF Pages
<1>2. \A p \in Pages : ~InCreation(p)' /\ ~InCreation(p)
  BY DEF InCreation
<1>3. \A p \in Pages : Base(p)' = Base(p)
  BY DEF Base
<1>4. TopInv'
  <2>1. IsTop(wpage)'
    BY <1>1 DEF IsTop
  <2> QED
    BY <1>1, <1>2, <2>1 DEF PageInv, TopInv, Pages
<1>5. ASSUME NEW p \in Pages
      PROVE  /\ version[p] = "ok" => version'[p] = "ok"
             /\ version[p] # "ok" => version'[p] # "ok"
  <2>1. version[p] = "ok" => HeadLen <= tail[p]
    BY DEF PageInv, ChainInv
  <2>2. tail[p] \in Nat /\ version \in [Pages -> {"zero", "ok", "bad"}]
    BY DEF PageInv, TypeOK, Offsets
  <2> QED
    BY <1>1, <2>1, <2>2
<1>6. FreshInv'
  <2> SUFFICES ASSUME NEW p \in Pages, file[p] = "absent"
               PROVE  /\ version'[p] = "zero"
                      /\ status[p] = "writting"
                      /\ last'[p] = 0
                      /\ cell'[p] = [o \in Offsets |-> ZeroCell]
    BY <1>2 DEF FreshInv, InCreation
  <2>1. p # wpage /\ version[p] = "zero" /\ status[p] = "writting"
        /\ last[p] = 0 /\ cell[p] = [o \in Offsets |-> ZeroCell]
    BY <1>1 DEF IsTop, PageInv, FreshInv, Pages
  <2>2. version'[p] = version[p] /\ last'[p] = last[p]
    BY <1>1, <2>1 DEF PageInv, TypeOK
  <2>3. cell'[p] \in [Offsets -> Cell] /\ cell[p] \in [Offsets -> Cell]
    BY DEF PageInv, TypeOK
  <2>4. cell'[p] = cell[p]
    BY <2>1, <2>3
  <2> QED
    BY <2>1, <2>2, <2>4
<1>7. ChainInv'
  <2> SUFFICES ASSUME NEW p \in Pages, version[p] = "ok"
               PROVE  /\ file[p] = "sized"
                      /\ HeadLen <= tail[p]
                      /\ FirstFrame(p)'
                      /\ \A o \in Offsets :
                           /\ o > tail[p] => ~cell'[p][o].magic
                           /\ o < tail[p] /\ cell'[p][o].magic => Linked(p, o)'
    BY <1>5 DEF ChainInv
  <2>1. \A o \in Offsets : o # tail[p] => cell'[p][o] = cell[p][o]
    OBVIOUS
  <2>2. tail[p] \in Offsets /\ HeadLen \in Offsets
    BY DEF PageInv, TypeOK, Offsets
  <2>3. /\ file[p] = "sized" /\ HeadLen <= tail[p] /\ FirstFrame(p)
        /\ \A o \in Offsets : o > tail[p] => ~cell[p][o].magic
        /\ \A o \in Offsets : o < tail[p] /\ cell[p][o].magic => Linked(p, o)
    BY DEF PageInv, ChainInv
  <2>4. FirstFrame(p)'
    BY <1>3, <2>1, <2>2, <2>3 DEF FirstFrame, Offsets
  <2>5. ASSUME NEW o \in Offsets, o < tail[p], cell'[p][o].magic
        PROVE  Linked(p, o)'
    <3>1. cell'[p][o] = cell[p][o] /\ Linked(p, o)
      BY <2>1, <2>2, <2>3, <2>5 DEF Offsets
    <3>2. cell[p][o].len \in Nat
      BY DEF PageInv, TypeOK, Cell
    <3> QED
      BY <2>1, <2>2, <3>1, <3>2 DEF Linked, Offsets
  <2> QED
    BY <2>1, <2>2, <2>3, <2>4, <2>5 DEF Offsets
<1>8. ASSUME NEW p \in Pages
      PROVE  /\ last'[p] \in Nat /\ last'[p] >= last[p] /\ last'[p] <= nseq + 1
             /\ cell'[p][tail[p]].nano \in Nat
             /\ cell[p][tail[p]].nano \in Nat
             /\ cell'[p][tail[p]].nano >= cell[p][tail[p]].nano
             /\ last'[p] = last[p] \/ cell'[p][tail[p]].nano >= last'[p]
  <2>1. /\ last[p] \in Nat /\ last[p] <= nseq + 1 /\ nseq \in Nat
        /\ tail[p] \in Offsets /\ cell[p][tail[p]].nano \in Nat
        /\ cell'[p][tail[p]].nano \in Nat /\ last \in [Pages -> Nat]
    BY DEF PageInv, TypeOK, LastInv, Cell
  <2>2. CASE p = wpage
    BY <1>1, <2>1, <2>2
  <2>3. CASE p # wpage
    BY <1>1, <2>1, <2>3
  <2> QED
    BY <2>2, <2>3
<1>9. LastInv'
  <2> SUFFICES ASSUME NEW p \in Pages
               PROVE  /\ \A o \in Offsets : cell'[p][o].nano <= nseq + 1
                      /\ version[p] = "ok" =>
                          \/ last'[p] = 0
                          \/ last'[p] <= cnt[p] /\ tail[p] > HeadLen
                          \/ cell'[p][tail[p]].nano >= last'[p]
    BY <1>5, <1>8 DEF LastInv
  <2>1. \A o \in Offsets : cell'[p][o].nano <= nseq + 1
    BY DEF PageInv, LastInv
  <2>2. last[p] \in Nat
    BY DEF PageInv, TypeOK
  <2> QED
    BY <1>8, <2>1, <2>2 DEF PageInv, LastInv
<1>10. ReaderInv'
  <2>1. \A p \in Pages : Dead(p) => Dead(p)'
    BY <1>2, <1>5 DEF Dead
  <2>2. \A p \in Pages : tail'[p] = tail[p] /\ tail'[p] \in Offsets
    BY DEF PageInv, TypeOK
  <2>3. \A p \in Pages : \A o \in Offsets : o < tail[p] => cell'[p][o] = cell[p][o]
    BY <2>2 DEF Offsets
  <2> QED
    BY <1>3, <1>5, <1>8, <2>1, <2>2, <2>3, ReadersStay
<1> QED
  BY <1>4, <1>6, <1>7, <1>9, <1>10

LEMMA ReserveStep == PageInv /\ WReserve => PageInv'
<1> SUFFICES ASSUME PageInv, WReserve PROVE PageInv'
  OBVIOUS
<1> DEFINE t == tail[wpage]
<1>1. /\ wpage \in Pages /\ t \in Offsets /\ wlen \in Nat
      /\ cell \in [Pages -> [Offsets -> Cell]]
      /\ cell[wpage][t] \in Cell
      /\ cell[wpage][t].nano \in Nat /\ cell[wpage][t].nano <= nseq + 1
  BY AboveTop DEF WReserve, PageInv, TypeOK, LastInv, Cell
<1>2. /\ cell' \in [Pages -> [Offsets -> Cell]]
      /\ \A p \in Pages, o \in Offsets :
           p # wpage \/ o # t => cell'[p][o] = cell[p][o]
      /\ cell'[wpage][t].nano = cell[wpage][t].nano
  <2>1. CASE cell' = cell
    BY <1>1, <2>1
  <2>2. CASE cell' = [cell EXCEPT ![wpage][t].len = wlen]
    BY <1>1, <2>2 DEF Cell
  <2> QED
    BY <2>1, <2>2 DEF WReserve
<1>3. TopInv' /\ FreshInv' /\ ChainInv' /\ LastInv' /\ ReaderInv'
  BY <1>1, <1>2, StoreStep DEF WReserve
<1>4. TypeOK'
  BY <1>2 DEF PageInv, TypeOK, WReserve, readerVars
<1>5. WriterInv'
  BY DEF PageInv, WriterInv, WReserve, Fits
<1> QED
  BY <1>3, <1>4, <1>5 DEF PageInv

LEMMA BodyStep == PageInv /\ WBody => PageInv'
<1> SUFFICES ASSUME PageInv, WBody PROVE PageInv'
  OBVIOUS
<1> DEFINE t == tail[wpage]
<1>1. /\ wpage \in Pages /\ t \in Offsets /\ nseq \in Nat
      /\ cell \in [Pages -> [Offsets -> Cell]]
      /\ cell[wpage][t] \in Cell
      /\ cell[wpage][t].nano \in Nat /\ cell[wpage][t].nano <= nseq + 1
  BY AboveTop DEF WBody, PageInv, TypeOK, LastInv, Cell
<1>2. /\ cell' \in [Pages -> [Offsets -> Cell]]
      /\ \A p \in Pages, o \in Offsets :
           p # wpage \/ o # t => cell'[p][o] = cell[p][o]
      /\ cell'[wpage][t].nano = cell[wpage][t].nano
      /\ cell'[wpage][t].body = nseq
  BY <1>1 DEF WBody, Cell
<1>3. TopInv' /\ FreshInv' /\ ChainInv' /\ LastInv' /\ ReaderInv'
  BY <1>1, <1>2, StoreStep DEF WBody
<1>4. TypeOK'
  BY <1>1, <1>2 DEF PageInv, TypeOK, WBody, readerVars
<1>5. WriterInv'
  BY <1>2 DEF PageInv, WriterInv, WBody, Fits
<1> QED
  BY <1>3, <1>4, <1>5 DEF PageInv

LEMMA FrameHeadStep == PageInv /\ WFrameHead => PageInv'
<1> SUFFICES ASSUME PageInv, WFrameHead PROVE PageInv'
  OBVIOUS
<1> DEFINE t == tail[wpage]
<1>1. /\ wpage \in Pages /\ t \in Offsets /\ nseq \in Nat /\ wlen \in Nat
      /\ cell \in [Pages -> [Offsets -> Cell]]
      /\ cell[wpage][t] \in Cell /\ cell[wpage][t].body = nseq
      /\ cell[wpage][t].nano \in Nat /\ cell[wpage][t].nano <= nseq + 1
  BY AboveTop DEF WFrameHead, PageInv, TypeOK, LastInv, Cell, WriterInv
<1>2. /\ cell' \in [Pages -> [Offsets -> Cell]]
      /\ \A p \in Pages, o \in Offsets :
           p # wpage \/ o # t => cell'[p][o] = cell[p][o]
      /\ cell'[wpage][t].body = nseq /\ cell'[wpage][t].len = wlen
      /\ cell'[wpage][t].magic /\ cell'[wpage][t].nano = nseq + 1
  <2> DEFINE c == [body |-> cell[wpage][t].body, len |-> wlen,
                   magic |-> TRUE, nano |-> nseq + 1]
  <2>1. c \in Cell /\ c.body = nseq /\ c.len = wlen /\ c.magic
        /\ c.nano = nseq + 1
    BY <1>1 DEF Cell
  <2>2. cell' = [cell EXCEPT ![wpage][t] = c]
    BY DEF WFrameHead
  <2> HIDE DEF c
  <2> QED
    BY <1>1, <2>1, <2>2
<1>3. TopInv' /\ FreshInv' /\ ChainInv' /\ LastInv' /\ ReaderInv'
  BY <1>1, <1>2, StoreStep DEF WFrameHead
<1>4. TypeOK'
  BY <1>1, <1>2 DEF PageInv, TypeOK, WFrameHead, readerVars
<1>5. WriterInv'
  BY <1>2 DEF PageInv, WriterInv, WFrameHead, Fits
<1> QED
  BY <1>3, <1>4, <1>5 DEF PageInv

LEMMA LastNanoStep == PageInv /\ WLastNano => PageInv'
<1> SUFFICES ASSUME PageInv, WLastNano PROVE PageInv'
  OBVIOUS
<1> DEFINE t == tail[wpage]
<1>1. /\ wpage \in Pages /\ t \in Offsets /\ nseq \in Nat
      /\ cell \in [Pages -> [Offsets -> Cell]]
      /\ cell[wpage][t].nano = nseq + 1
  BY AboveTop DEF WLastNano, PageInv, TypeOK, WriterInv
<1>3. TopInv' /\ FreshInv' /\ ChainInv' /\ LastInv' /\ ReaderInv'
  BY <1>1, StoreStep DEF WLastNano
<1>4. TypeOK'
  BY <1>1 DEF PageInv, TypeOK, WLastNano, readerVars
<1>5. WriterInv'
  BY <1>1 DEF PageInv, TypeOK, WriterInv, WLastNano, Fits
<1> QED
  BY <1>3, <1>4, <1>5 DEF PageInv

(***************************************************************************)
(* Steps that change the page files and the page heads.                    *)
(***************************************************************************)
LEMMA FinishStep == PageInv /\ WFinish => PageInv'
<1> SUFFICES ASSUME PageInv, WFinish PROVE PageInv'
  OBVIOUS
<1>1. IsTop(wpage) /\ wpage \in Pages /\ cnt[wpage] = nseq
  BY AboveTop DEF WFinish, Pages
<1>2. TypeOK'
  BY DEF PageInv, TypeOK, WFinish, readerVars
<1>3. \A p \in Pages : ~InCreation(p)' /\ ~InCreation(p)
  BY DEF InCreation, WFinish
<1>4. \A p \in Pages : Base(p)' = Base(p)
  BY DEF Base, WFinish
<1>5. \A p \in Pages : status[p] = "finish" => status'[p] = "finish"
  BY <1>1 DEF PageInv, TypeOK, WFinish
<1>6. \A p \in Pages : p # wpage => status'[p] = status[p]
  BY DEF PageInv, TypeOK, WFinish
<1>7. TopInv'
  <2>1. IsTop(wpage)'
    BY <1>1 DEF IsTop, WFinish
  <2> QED
    BY <1>1, <1>3, <2>1 DEF PageInv, TopInv, Pages, WFinish
<1>8. FreshInv'
  BY <1>1, <1>3, <1>6 DEF PageInv, FreshInv, WFinish, IsTop, Pages
<1>9. ChainInv' /\ LastInv'
  BY <1>4 DEF PageInv, ChainInv, LastInv, FirstFrame, Linked, WFinish
<1>10. WriterInv'
  BY DEF WriterInv, WFinish
<1>11. ReaderInv'
  <2>1. \A p \in Pages : Dead(p) => Dead(p)'
    BY <1>3 DEF Dead, WFinish
  <2>2. ASSUME NEW p \in Pages
        PROVE  /\ tail'[p] = tail[p] /\ tail'[p] \in Offsets
               /\ last'[p] \in Nat /\ last'[p] >= last[p]
               /\ cell'[p][tail[p]].nano \in Nat
               /\ cell'[p][tail[p]].nano >= cell[p][tail[p]].nano
    BY DEF PageInv, TypeOK, WFinish, Cell
  <2> QED
    BY <1>4, <1>5, <2>1, <2>2, ReadersStay DEF WFinish
<1> QED
  BY <1>2, <1>7, <1>8, <1>9, <1>10, <1>11 DEF PageInv

LEMMA InitLoadStep == PageInv /\ WInitLoad => PageInv'
<1> SUFFICES ASSUME PageInv, WInitLoad PROVE PageInv'
  OBVIOUS
<1>1. IsTop(wpage) /\ wpage \in Pages /\ cnt[wpage] = nseq
      /\ file[wpage] # "absent"
  BY AboveTop DEF WInitLoad, Pages, IsTop
<1>2. /\ wpc = "load" /\ wpc' \in {"down", "idle", "open"}
      /\ wpc' = "idle" => status[wpage] = "writting"
      /\ wop' \in {"none", "init", "write", "prefetch"} /\ wlen' \in Nat
      /\ file' = [file EXCEPT ![wpage] = "sized"]
      /\ UNCHANGED <<version, status, tail, last, cell, wpage, starts,
                     readerVars, nseq, cnt>>
  BY DEF WInitLoad, Return, PageInv, TypeOK
<1>3. TypeOK'
  BY <1>2 DEF PageInv, TypeOK, readerVars
<1>4. \A p \in Pages : ~InCreation(p)' /\ ~InCreation(p)
  BY <1>2 DEF InCreation
<1>5. \A p \in Pages : Base(p)' = Base(p)
  BY <1>2 DEF Base
<1>6. \A p \in Pages : /\ file'[p] = "absent" <=> file[p] = "absent"
                       /\ file[p] = "sized" => file'[p] = "sized"
  BY <1>1, <1>2 DEF PageInv, TypeOK
<1>7. TopInv'
  <2>1. IsTop(wpage)'
    BY <1>1, <1>2, <1>6 DEF IsTop, Pages
  <2> QED
    BY <1>1, <1>2, <1>4, <1>6, <2>1 DEF PageInv, TopInv, Pages
<1>8. FreshInv'
  BY <1>2, <1>4, <1>6 DEF PageInv, FreshInv
<1>9. ChainInv' /\ LastInv'
  BY <1>2, <1>5, <1>6 DEF PageInv, ChainInv, LastInv, FirstFrame, Linked
<1>10. WriterInv'
  BY <1>1, <1>2 DEF WriterInv, PageInv, TypeOK
<1>11. ReaderInv'
  <2>1. \A p \in Pages : Dead(p) => Dead(p)'
    BY <1>2, <1>4, <1>6 DEF Dead
  <2>2. ASSUME NEW p \in Pages
        PROVE  /\ tail'[p] = tail[p] /\ tail'[p] \in Offsets
               /\ last'[p] \in Nat /\ last'[p] >= last[p]
               /\ cell'[p][tail[p]].nano \in Nat
               /\ cell'[p][tail[p]].nano >= cell[p][tail[p]].nano
    BY <1>2 DEF PageInv, TypeOK, Cell
  <2> QED
    BY <1>2, <1>5, <1>6, <2>1, <2>2, ReadersStay
<1> QED
  BY <1>3, <1>7, <1>8, <1>9, <1>10, <1>11 DEF PageInv

LEMMA OpenStep == PageInv /\ WOpen => PageInv'
<1> SUFFICES ASSUME PageInv, WOpen PROVE PageInv'
  OBVIOUS
<1>1. /\ IsTop(wpage) /\ wpage + 1 \in Pages /\ wpage \in Pages \cup {-1}
      /\ wpage >= 0 => cnt[wpage] = nseq
      /\ wpage = -1 => nseq = 0
      /\ file[wpage + 1] = "absent"
      /\ nseq \in Nat
  <2>1. wpage \in Pages \cup {-1} /\ wpage + 1 \in Pages
    BY DEF WOpen, PageInv, TypeOK, Pages
  <2>2. /\ IsTop(wpage)
        /\ wpage >= 0 => cnt[wpage] = nseq
        /\ wpage = -1 => nseq = 0
    BY AboveTop DEF WOpen
  <2>3. file[wpage + 1] = "absent"
    BY <2>1, <2>2 DEF IsTop, Pages
  <2>4. nseq \in Nat
    BY DEF PageInv, TypeOK
  <2> QED
    BY <2>1, <2>2, <2>3, <2>4
<1>2. PICK n \in Pages : n = wpage + 1
  BY <1>1
<1>3. /\ wpc = "open" /\ wpc' = "truncate"
      /\ file' = [file EXCEPT ![n] = "empty"]
      /\ cnt' = [cnt EXCEPT ![n] = nseq]
      /\ UNCHANGED <<version, status, tail, last, cell, wpage, wop, wlen,
                     starts, readerVars, nseq>>
  BY <1>2 DEF WOpen
<1>4. TypeOK'
  BY <1>1, <1>3 DEF PageInv, TypeOK, readerVars
<1>5. /\ file'[n] = "empty" /\ cnt'[n] = nseq
      /\ \A p \in Pages : p # n => file'[p] = file[p] /\ cnt'[p] = cnt[p]
  BY <1>3 DEF PageInv, TypeOK
<1>6. \A p \in Pages : ~InCreation(p) /\ (InCreation(p)' <=> p = n)
  BY <1>1, <1>2, <1>3 DEF InCreation, Pages
<1>7. Base(n)' = nseq
  BY <1>1, <1>2, <1>3, <1>5 DEF Base, Pages
<1>8. TopInv'
  <2>1. IsTop(n)'
    BY <1>1, <1>2, <1>5 DEF IsTop, Pages
  <2>2. file'[0] # "absent"
    <3>1. CASE wpage = -1
      BY <1>2, <1>5, <3>1
    <3>2. CASE wpage # -1
      BY <1>1, <1>2, <1>5, <3>2 DEF PageInv, TopInv, IsTop, Pages
    <3> QED
      BY <3>1, <3>2
  <2>3. wpage' = n - 1 /\ n >= 0
    BY <1>1, <1>2, <1>3 DEF Pages
  <2>4. \A p \in Pages : cnt'[p] <= nseq'
    BY <1>1, <1>3, <1>5 DEF PageInv, TopInv
  <2> QED
    BY <1>3, <1>5, <1>7, <2>1, <2>2, <2>3, <2>4 DEF TopInv
<1>9. FreshInv'
  BY <1>1, <1>2, <1>3, <1>5, <1>6 DEF PageInv, FreshInv
<1>10. \A p \in Pages : version[p] = "ok" => p # n /\ p <= wpage
  BY <1>1, <1>2 DEF PageInv, ChainInv, IsTop, Pages
<1>11. ASSUME NEW p \in Pages, \/ p = 0
                              \/ file[p] # "absent"
                              \/ file[p - 1] # "absent"
       PROVE  Base(p)' = Base(p)
  <2>1. p = 0 \/ p - 1 # n
    BY <1>1, <1>2, <1>11 DEF IsTop, Pages
  <2> QED
    BY <1>5, <2>1 DEF Base, Pages
<1>12. ChainInv'
  <2> SUFFICES ASSUME NEW p \in Pages, version[p] = "ok"
               PROVE  /\ file'[p] = "sized"
                      /\ HeadLen <= tail[p]
                      /\ FirstFrame(p)'
                      /\ \A o \in Offsets :
                           /\ o > tail[p] => ~cell[p][o].magic
                           /\ o < tail[p] /\ cell[p][o].magic => Linked(p, o)'
    BY <1>3 DEF ChainInv
  <2>1. p # n /\ file[p] = "sized"
    BY <1>10 DEF PageInv, ChainInv
  <2>2. cnt'[p] = cnt[p] /\ file'[p] = file[p] /\ Base(p)' = Base(p)
    BY <1>5, <1>11, <2>1
  <2> QED
    BY <1>3, <2>1, <2>2 DEF PageInv, ChainInv, FirstFrame, Linked
<1>13. LastInv'
  BY <1>3, <1>5, <1>10 DEF PageInv, LastInv
<1>14. WriterInv'
  BY <1>3 DEF WriterInv
<1>15. ReaderInv'
  <2>1. \A p \in Pages : Dead(p) => Dead(p)'
    BY <1>1, <1>2, <1>3, <1>5, <1>6 DEF Dead
  <2>2. ASSUME NEW p \in Pages
        PROVE  /\ tail'[p] = tail[p] /\ tail'[p] \in Offsets
               /\ last'[p] \in Nat /\ last'[p] >= last[p]
               /\ cell'[p][tail[p]].nano \in Nat
               /\ cell'[p][tail[p]].nano >= cell[p][tail[p]].nano
    BY <1>3 DEF PageInv, TypeOK, Cell
  <2>3. \A p \in Pages : file[p] # "absent" => file'[p] # "absent"
    BY <1>5
  <2> QED
    BY <1>3, <1>5, <1>10, <1>11, <2>1, <2>2, <2>3, ReadersStay
<1> QED
  BY <1>4, <1>8, <1>9, <1>12, <1>13, <1>14, <1>15 DEF PageInv

(* The three other steps of createNextPage work on the page n in creation. *)
LEMMA CreatedPage ==
  ASSUME PageInv, wpc \in Creating
  PROVE  \E n \in Pages :
           /\ n = (IF wpc = "truncate" THEN wpage + 1 ELSE wpage)
           /\ IsTop(n) /\ cnt[n] = nseq /\ Base(n) = nseq
           /\ \A p \in Pages : InCreation(p) <=> p = n
           /\ version[n] = "zero" /\ status[n] = "writting" /\ last[n] = 0
           /\ cell[n] = [o \in Offsets |-> ZeroCell]
           /\ wpc = "version" => tail[n] = HeadLen
<1>1. PICK n \in Pages \cup {-1} :
        /\ IsTop(n)
        /\ wpc \notin {"down", "truncate"} => wpage = n
        /\ wpc = "truncate" => wpage = n - 1
        /\ n >= 0
        /\ n >= 0 => cnt[n] = nseq
        /\ InCreation(n) => Base(n) = nseq
  BY DEF PageInv, TopInv, Creating
<1>2. n \in Pages /\ n = (IF wpc = "truncate" THEN wpage + 1 ELSE wpage)
  BY <1>1 DEF Creating, Pages
<1>3. \A p \in Pages : InCreation(p) <=> p = n
  BY <1>1, <1>2 DEF Creating, InCreation, Pages
<1> QED
  BY <1>1, <1>2, <1>3 DEF PageInv, FreshInv, Pages

LEMMA TruncateStep == PageInv /\ WTruncate => PageInv'
<1> SUFFICES ASSUME PageInv, WTruncate PROVE PageInv'
  OBVIOUS
<1>1. PICK n \in Pages :
        /\ n = wpage + 1
        /\ IsTop(n) /\ cnt[n] = nseq /\ Base(n) = nseq
        /\ \A p \in Pages : InCreation(p) <=> p = n
  BY CreatedPage DEF WTruncate, Creating
<1>2. /\ wpc' = "head" /\ wpage' = n
      /\ file' = [file EXCEPT ![n] = "sized"]
      /\ UNCHANGED <<version, status, tail, last, cell, wop, wlen, starts,
                     readerVars, nseq, cnt>>
  BY <1>1 DEF WTruncate
<1>3. TypeOK'
  BY <1>2 DEF PageInv, TypeOK, readerVars
<1>4. \A p \in Pages : InCreation(p)' <=> InCreation(p)
  BY <1>1, <1>2 DEF InCreation
<1>5. \A p \in Pages : Base(p)' = Base(p)
  BY <1>2 DEF Base
<1>6. /\ file'[n] = "sized" /\ file[n] # "absent"
      /\ \A p \in Pages : p # n => file'[p] = file[p]
      /\ \A p \in Pages : file'[p] = "absent" <=> file[p] = "absent"
  BY <1>1, <1>2 DEF PageInv, TypeOK, IsTop, Pages
<1>7. TopInv'
  <2>1. IsTop(n)'
    BY <1>1, <1>6 DEF IsTop, Pages
  <2> QED
    BY <1>1, <1>2, <1>5, <1>6, <2>1 DEF PageInv, TopInv, Pages
<1>8. FreshInv'
  BY <1>2, <1>4, <1>6 DEF PageInv, FreshInv
<1>9. ChainInv' /\ LastInv'
  BY <1>2, <1>5, <1>6 DEF PageInv, ChainInv, LastInv, FirstFrame, Linked
<1>10. WriterInv'
  BY <1>2, <1>6 DEF WriterInv
<1>11. ReaderInv'
  <2>1. \A p \in Pages : Dead(p) => Dead(p)'
    BY <1>2, <1>4, <1>6 DEF Dead
  <2>2. ASSUME NEW p \in Pages
        PROVE  /\ tail'[p] = tail[p] /\ tail'[p] \in Offsets
               /\ last'[p] \in Nat /\ last'[p] >= last[p]
               /\ cell'[p][tail[p]].nano \in Nat
               /\ cell'[p][tail[p]].nano >= cell[p][tail[p]].nano
    BY <1>2 DEF PageInv, TypeOK, Cell
  <2> QED
    BY <1>2, <1>5, <1>6, <2>1, <2>2, ReadersStay
<1> QED
  BY <1>3, <1>7, <1>8, <1>9, <1>10, <1>11 DEF PageInv

LEMMA FillHeadStep == PageInv /\ WFillHead => PageInv'
<1> SUFFICES ASSUME PageInv, WFillHead PROVE PageInv'
  OBVIOUS
<1>1. PICK n \in Pages :
        /\ n = wpage
        /\ IsTop(n) /\ cnt[n] = nseq /\ Base(n) = nseq
        /\ \A p \in Pages : InCreation(p) <=> p = n
        /\ version[n] = "zero" /\ status[n] = "writting"
  BY CreatedPage DEF WFillHead, Creating
<1>2. /\ wpc = "head" /\ wpc' = "version" /\ status' = status
      /\ tail' = [tail EXCEPT ![n] = HeadLen]
      /\ UNCHANGED <<file, version, last, cell, wpage, wop, wlen, starts,
                     readerVars, nseq, cnt>>
  BY <1>1 DEF WFillHead, PageInv, TypeOK
<1>3. TypeOK'
  BY <1>2 DEF PageInv, TypeOK, Offsets, readerVars
<1>4. \A p \in Pages : InCreation(p)' <=> InCreation(p)
  BY <1>1, <1>2 DEF InCreation
<1>5. \A p \in Pages : Base(p)' = Base(p)
  BY <1>2 DEF Base
<1>6. /\ tail'[n] = HeadLen
      /\ \A p \in Pages : version[p] = "ok" => tail'[p] = tail[p]
  BY <1>1, <1>2 DEF PageInv, TypeOK
<1>7. TopInv'
  <2>1. IsTop(n)'
    BY <1>1, <1>2 DEF IsTop
  <2> QED
    BY <1>1, <1>2, <1>5, <2>1 DEF PageInv, TopInv, Pages
<1>8. FreshInv'
  BY <1>1, <1>2, <1>4, <1>6 DEF PageInv, FreshInv
<1>9. ChainInv' /\ LastInv'
  BY <1>2, <1>5, <1>6 DEF PageInv, ChainInv, LastInv, FirstFrame, Linked
<1>10. WriterInv'
  BY <1>2 DEF WriterInv, PageInv
<1>11. ReaderInv'
  <2>1. \A p \in Pages : Dead(p) => Dead(p)'
    BY <1>2, <1>4 DEF Dead
  <2>2. ASSUME NEW p \in Pages
        PROVE  /\ tail'[p] \in Offsets
               /\ last'[p] \in Nat /\ last'[p] >= last[p]
               /\ cell'[p][tail[p]].nano \in Nat
               /\ cell'[p][tail[p]].nano >= cell[p][tail[p]].nano
    BY <1>2, <1>3 DEF PageInv, TypeOK, Cell
  <2> QED
    BY <1>2, <1>5, <1>6, <2>1, <2>2, ReadersStay
<1> QED
  BY <1>3, <1>7, <1>8, <1>9, <1>10, <1>11 DEF PageInv

LEMMA SetVersionStep == PageInv /\ WSetVersion => PageInv'
<1> SUFFICES ASSUME PageInv, WSetVersion PROVE PageInv'
  OBVIOUS
<1>1. PICK n \in Pages :
        /\ n = wpage
        /\ IsTop(n) /\ cnt[n] = nseq /\ Base(n) = nseq
        /\ \A p \in Pages : InCreation(p) <=> p = n
        /\ version[n] = "zero" /\ status[n] = "writting" /\ last[n] = 0
        /\ cell[n] = [o \in Offsets |-> ZeroCell]
        /\ tail[n] = HeadLen
  BY CreatedPage DEF WSetVersion, Creating
<1>2. /\ wpc = "version" /\ wpc' \in {"idle", "again"}
      /\ wop' \in {"none", "init", "write", "prefetch"} /\ wlen' \in Nat
      /\ version' = [version EXCEPT ![n] = "ok"]
      /\ UNCHANGED <<file, status, tail, last, cell, wpage, starts,
                     readerVars, nseq, cnt>>
  BY <1>1 DEF WSetVersion, Return, PageInv, TypeOK
<1>3. TypeOK'
  BY <1>2 DEF PageInv, TypeOK, readerVars
<1>4. \A p \in Pages : ~InCreation(p)'
  BY <1>2 DEF InCreation
<1>5. \A p \in Pages : Base(p)' = Base(p)
  BY <1>2 DEF Base
<1>6. /\ version'[n] = "ok" /\ file[n] = "sized"
      /\ \A p \in Pages : p # n => version'[p] = version[p]
  BY <1>1, <1>2 DEF PageInv, TypeOK, WriterInv
<1>7. TopInv'
  <2>1. IsTop(n)'
    BY <1>1, <1>2 DEF IsTop
  <2> QED
    BY <1>1, <1>2, <1>4, <2>1 DEF PageInv, TopInv, Pages
<1>8. FreshInv'
  BY <1>1, <1>2, <1>4, <1>6 DEF PageInv, FreshInv
<1>9. ChainInv'
  <2> SUFFICES ASSUME NEW p \in Pages, version'[p] = "ok"
               PROVE  /\ file[p] = "sized"
                      /\ HeadLen <= tail[p]
                      /\ FirstFrame(p)'
                      /\ \A o \in Offsets :
                           /\ o > tail[p] => ~cell[p][o].magic
                           /\ o < tail[p] /\ cell[p][o].magic => Linked(p, o)'
    BY <1>2 DEF ChainInv
  <2>1. CASE p = n
    <3>1. \A o \in Offsets : ~cell[p][o].magic
      BY <1>1, <2>1 DEF ZeroCell
    <3> QED
      BY <1>1, <1>2, <1>5, <1>6, <2>1, <3>1 DEF FirstFrame
  <2>2. CASE p # n
    BY <1>2, <1>5, <1>6, <2>2 DEF PageInv, ChainInv, FirstFrame, Linked
  <2> QED
    BY <2>1, <2>2
<1>10. LastInv'
  BY <1>1, <1>2, <1>6 DEF PageInv, LastInv
<1>11. WriterInv'
  BY <1>1, <1>2, <1>6 DEF WriterInv
<1>12. ReaderInv'
  <2>1. \A p \in Pages : Dead(p) => Dead(p)'
    BY <1>1, <1>2, <1>4, <1>6 DEF Dead
  <2>2. ASSUME NEW p \in Pages
        PROVE  /\ tail'[p] = tail[p] /\ tail'[p] \in Offsets
               /\ last'[p] \in Nat /\ last'[p] >= last[p]
               /\ cell'[p][tail[p]].nano \in Nat
               /\ cell'[p][tail[p]].nano >= cell[p][tail[p]].nano
    BY <1>2 DEF PageInv, TypeOK, Cell
  <2>3. \A p \in Pages : version[p] = "ok" => version'[p] = "ok"
    BY <1>6
  <2> QED
    BY <1>2, <1>5, <2>1, <2>2, <2>3, ReadersStay
<1> QED
  BY <1>3, <1>7, <1>8, <1>9, <1>10, <1>11, <1>12 DEF PageInv

-----------------------------------------------------------------------------
(***************************************************************************)
(* Steps of a reader.                                                      *)
(***************************************************************************)

(* The other readers and the pages do not notice. *)
LEMMA ReaderStep ==
  ASSUME PageInv, NEW r \in Readers,
         UNCHANGED <<pageVars, writerVars, nseq, cnt>>,
         TypeOK', ReaderAt(r)',
         \A s \in Readers : s # r =>
           /\ rpc'[s] = rpc[s] /\ rpage'[s] = rpage[s] /\ rfd'[s] = rfd[s]
           /\ rcur'[s] = rcur[s] /\ rstat'[s] = rstat[s]
           /\ rnano'[s] = rnano[s] /\ rgot'[s] = rgot[s] /\ rseq'[s] = rseq[s]
  PROVE  PageInv'
<1> USE DEF pageVars, writerVars
<1>1. \A p \in Pages \cup {-1} :
        /\ Base(p)' = Base(p)
        /\ InCreation(p)' <=> InCreation(p)
        /\ Dead(p)' <=> Dead(p)
        /\ IsTop(p)' <=> IsTop(p)
  BY DEF Base, InCreation, Dead, IsTop
<1>2. TopInv'
  <2>1. PICK n \in Pages \cup {-1} :
       /\ IsTop(n)
       /\ wpc \notin {"down", "truncate"} => wpage = n
       /\ wpc = "truncate" => wpage = n - 1
       /\ wpc \notin {"down", "open"} => n >= 0
       /\ n >= 0 => cnt[n] = nseq
       /\ n = -1 => nseq = 0
       /\ InCreation(n) => Base(n) = nseq
    BY DEF PageInv, TopInv
  <2> QED
    BY <1>1, <2>1 DEF PageInv, TopInv
<1>3. FreshInv'
  BY <1>1 DEF PageInv, FreshInv
<1>4. ChainInv' /\ LastInv'
  BY <1>1 DEF PageInv, ChainInv, LastInv, FirstFrame, Linked
<1>5. WriterInv'
  BY DEF PageInv, WriterInv, Fits
<1>6. ReaderInv'
  <2> SUFFICES ASSUME NEW s \in Readers, s # r PROVE ReaderAt(s)'
    BY DEF ReaderInv
  <2>1. ReaderAt(s)
    BY DEF PageInv, ReaderInv
  <2>2. PICK p \in 0 .. MaxPage + 1 : p = rpage[s] /\ p = rpage'[s]
    BY DEF PageInv, TypeOK
  <2>3. p \in Pages => (Base(p)' = Base(p)) /\ (Dead(p)' <=> Dead(p))
    BY <1>1
  <2>4. OnFrame(s)' <=> OnFrame(s)
    BY DEF OnFrame
  <2>5. rfd[s] => p \in Pages
    BY <2>1, <2>2 DEF ReaderAt
  <2>6. rpc[s] \in {"seekPage", "passPage"} => p \in Pages
    BY <2>1, <2>2, <2>5 DEF ReaderAt
  <2> QED
    BY <2>1, <2>2, <2>3, <2>4, <2>5, <2>6 DEF ReaderAt
<1> QED
  BY <1>2, <1>3, <1>4, <1>5, <1>6 DEF PageInv

(* A reader at the head of a readable page, and owed its first frame, is   *)
(* in place.                                                               *)
LEMMA AtHead ==
  ASSUME PageInv, NEW p \in Pages, version[p] = "ok"
  PROVE  \/ HeadLen = tail[p] /\ Base(p) = cnt[p]
         \/ /\ HeadLen < tail[p]
            /\ cell[p][HeadLen].magic
            /\ cell[p][HeadLen].body = Base(p)
BY DEF PageInv, ChainInv, FirstFrame

(* So is a reader that moves past the frame it was owed. *)
LEMMA NextFrame ==
  ASSUME PageInv, NEW r \in Readers, rfd[r], OnFrame(r),
         rcur[r] < tail[rpage[r]]
  PROVE  LET p == rpage[r]
             c == cell[p][rcur[r]]
             e == rcur[r] + FrameLen + c.len
         IN  /\ p \in Pages /\ version[p] = "ok" /\ c.magic /\ c.body = rseq[r]
             /\ c.nano = rseq[r] + 1 /\ e \in Offsets
             /\ \/ e = tail[p] /\ rseq[r] + 1 = cnt[p]
                \/ /\ e < tail[p]
                   /\ cell[p][e].magic
                   /\ cell[p][e].body = rseq[r] + 1
<1> DEFINE p == rpage[r]
           c == cell[p][rcur[r]]
<1>1. p \in Pages /\ version[p] = "ok"
  BY DEF PageInv, ReaderInv, ReaderAt
<1>2. /\ rcur[r] \in Offsets /\ tail[p] \in Offsets /\ c.len \in Nat
      /\ rseq[r] \in Nat
  BY <1>1 DEF PageInv, TypeOK, Cell
<1>3. c.magic /\ c.body = rseq[r]
  BY <1>2 DEF OnFrame, Offsets
<1>4. Linked(p, rcur[r])
  BY <1>1, <1>2, <1>3 DEF PageInv, ChainInv
<1> QED
  BY <1>1, <1>2, <1>3, <1>4 DEF Linked, Offsets

(* What the steps below start from. *)
LEMMA ReaderFacts ==
  ASSUME PageInv, NEW r \in Readers
  PROVE  /\ ReaderAt(r) /\ rcur[r] \in Offsets /\ rnano[r] \in Nat
         /\ rseq[r] \in Nat /\ rpage[r] \in 0 .. MaxPage + 1
         /\ rfd[r] \in BOOLEAN /\ HeadLen \in Offsets
         /\ rfd[r] => /\ rpage[r] \in Pages /\ version[rpage[r]] = "ok"
                       /\ tail[rpage[r]] \in Offsets
                       /\ cnt[rpage[r]] \in Nat
                       /\ file[rpage[r]] = "sized"
<1>1. ReaderAt(r)
  BY DEF PageInv, ReaderInv
<1>2. rfd[r] => rpage[r] \in Pages /\ version[rpage[r]] = "ok"
  BY <1>1 DEF ReaderAt
<1> QED
  BY <1>1, <1>2 DEF PageInv, TypeOK, ChainInv, Offsets

LEMMA RInitStep ==
  ASSUME NEW r \in Readers, NEW nano \in {0} \cup Nanos, PageInv, RInit(r, nano)
  PROVE  PageInv'
<1> DEFINE from == IF nano = 0 THEN TailNum ELSE HeadNum
           p == IF from < 0 THEN 0 ELSE from
<1>1. PICK n \in Pages \cup {-1} : IsTop(n)
  BY DEF PageInv, TopInv
<1>2. TailNum = n
  BY <1>1, TailNumIsTop DEF PageInv
<1>3. HeadNum = IF file[0] = "absent" THEN -1 ELSE 0
  BY HeadNumIsZero DEF PageInv
<1>4. PICK q \in Pages : q = p /\ (q = 0 \/ file[q] # "absent")
  BY <1>1, <1>2, <1>3 DEF IsTop, Pages
<1>5. /\ rpage' = [rpage EXCEPT ![r] = q] /\ rpc[r] = "off"
      /\ rnano' = [rnano EXCEPT ![r] = nano]
      /\ rpc' = [rpc EXCEPT ![r] = "load"]
      /\ UNCHANGED <<pageVars, writerVars, rfd, rcur, rstat, rgot, nseq, cnt,
                     rseq>>
  BY <1>4 DEF RInit
<1> HIDE DEF from, p
<1>6. TypeOK'
  <2>1. /\ rpage' \in [Readers -> 0 .. MaxPage + 1]
        /\ rnano' \in [Readers -> Nat]
        /\ rpc' \in [Readers -> {"off", "load", "seekTail", "seekPage",
                                 "passPage", "seekFrame", "idle", "tail",
                                 "frame"}]
    <3>1. q \in 0 .. MaxPage + 1 /\ nano \in Nat
      BY PageAssumption DEF Pages
    <3> QED
      BY <3>1, <1>5 DEF PageInv, TypeOK
  <2> QED
    BY <1>5, <2>1 DEF PageInv, TypeOK, pageVars, writerVars
<1>7. ReaderAt(r)'
  <2>1. ~rfd[r] /\ rgot[r] = -1
    BY <1>5, ReaderFacts DEF ReaderAt
  <2>2. rpc'[r] = "load" /\ rpage'[r] = q /\ rfd'[r] = FALSE /\ rgot'[r] = -1
    BY <1>5, <2>1 DEF PageInv, TypeOK
  <2>3. q = 0 \/ file'[q] # "absent"
    BY <1>4, <1>5 DEF pageVars
  <2> QED
    BY <2>2, <2>3 DEF ReaderAt
<1> QED
  BY <1>5, <1>6, <1>7, ReaderStep DEF PageInv, TypeOK

LEMMA RInitLoadStep ==
  ASSUME NEW r \in Readers, PageInv, RInitLoad(r)
  PROVE  PageInv'
<1>1. PICK p \in Pages : /\ p = rpage[r] /\ p = rpage'[r]
                         /\ p = 0 \/ file[p] # "absent"
  BY ReaderFacts DEF ReaderAt, RInitLoad
<1>2. /\ ~rfd[r] /\ rgot[r] = -1
      /\ rnano[r] \in Nat /\ HeadLen \in Offsets
      /\ UNCHANGED <<pageVars, writerVars, rpage, rstat, rnano, rgot, nseq, cnt>>
  BY ReaderFacts DEF ReaderAt, RInitLoad
<1>base. Base(p) \in Nat
  BY DEF PageInv, TypeOK, Base, Pages
<1>same. /\ rfd' = [rfd EXCEPT ![r] = Loadable(p)]
         /\ rcur' = [rcur EXCEPT ![r] = IF Loadable(p) THEN HeadLen ELSE rcur[r]]
         /\ rpc' = [rpc EXCEPT ![r] = IF ~Loadable(p) THEN "idle"
                                      ELSE IF rnano[r] = 0 THEN "seekTail"
                                      ELSE "seekPage"]
         /\ rseq' = [rseq EXCEPT ![r] = IF ~Loadable(p) THEN nseq ELSE Base(p)]
  BY <1>1 DEF RInitLoad, Base
<1>bool. Loadable(p) \in BOOLEAN
  BY DEF Loadable, CheckPageHead
<1>3. TypeOK'
  BY <1>2, <1>base, <1>same, <1>bool
     DEF PageInv, TypeOK, pageVars, writerVars
<1>4. Base(p)' = Base(p) /\ (Dead(p)' <=> Dead(p))
  BY <1>2 DEF Base, Dead, InCreation, pageVars, writerVars
<1>5. CASE Loadable(p)
  <2>1. /\ rfd'[r] = TRUE /\ rcur'[r] = HeadLen /\ rseq'[r] = Base(p)
        /\ rpc'[r] = (IF rnano[r] = 0 THEN "seekTail" ELSE "seekPage")
        /\ rgot'[r] = -1 /\ rnano'[r] = rnano[r]
    BY <1>2, <1>same, <1>5 DEF PageInv, TypeOK
  <2>2. version'[p] = "ok"
    BY <1>2, <1>5 DEF Loadable, CheckPageHead, pageVars
  <2>3. ReaderAt(r)'
    BY <1>1, <1>2, <1>4, <2>1, <2>2 DEF ReaderAt
  <2> QED
    BY <1>2, <1>3, <1>same, <2>3, ReaderStep DEF PageInv, TypeOK
<1>6. CASE ~Loadable(p)
  <2>1. /\ rfd'[r] = FALSE /\ rseq'[r] = nseq
        /\ rpc'[r] = "idle" /\ rgot'[r] = -1 /\ rnano'[r] = rnano[r]
    BY <1>2, <1>same, <1>6 DEF PageInv, TypeOK
  <2>2. Dead(p) \/ Base(p) = nseq
    <3>1. PICK n \in Pages \cup {-1} :
            /\ IsTop(n)
            /\ wpc \notin {"down", "truncate"} => wpage = n
            /\ wpc = "truncate" => wpage = n - 1
            /\ n = -1 => nseq = 0
            /\ InCreation(n) => Base(n) = nseq
      BY DEF PageInv, TopInv
    <3>2. CASE file[p] = "absent"
      <4>1. p = 0 /\ \A q \in Pages : file[q] = "absent"
        BY <1>1, <3>2 DEF PageInv, TopInv
      <4>2. n = -1
        BY <3>1, <4>1 DEF IsTop, Pages
      <4> QED
        BY <3>1, <4>1, <4>2 DEF Base
    <3>3. CASE file[p] # "absent" /\ InCreation(p)
      <4>1. p = n
        BY <3>1, <3>3 DEF InCreation, Pages
      <4> QED
        BY <3>1, <3>3, <4>1
    <3>4. CASE file[p] # "absent" /\ ~InCreation(p)
      BY <1>6, <3>4 DEF Dead, Loadable, CheckPageHead, PageInv, ChainInv
    <3> QED
      BY <3>2, <3>3, <3>4
  <2>3. p = 0 \/ file'[p] # "absent"
    BY <1>1, <1>2 DEF pageVars
  <2>4. ReaderAt(r)'
    BY <1>1, <1>4, <2>1, <2>2, <2>3 DEF ReaderAt
  <2> QED
    BY <1>2, <1>3, <1>same, <2>4, ReaderStep DEF PageInv, TypeOK
<1> QED
  BY <1>5, <1>6

LEMMA RSeekTailStep ==
  ASSUME NEW r \in Readers, PageInv, RSeekTail(r)
  PROVE  PageInv'
<1>1. rfd[r] /\ rgot[r] = -1
  BY ReaderFacts DEF ReaderAt, RSeekTail
<1>2. TypeOK'
  BY <1>1, ReaderFacts DEF PageInv, TypeOK, RSeekTail, pageVars, writerVars
<1>3. ReaderAt(r)'
  BY <1>1, ReaderFacts
     DEF ReaderAt, RSeekTail, OnFrame, pageVars, PageInv, TypeOK
<1> QED
  BY <1>2, <1>3, ReaderStep DEF RSeekTail, PageInv, TypeOK

LEMMA RSeekPageStep ==
  ASSUME NEW r \in Readers, PageInv, RSeekPage(r)
  PROVE  PageInv'
<1>1. PICK p \in Pages : p = rpage[r] /\ p = rpage'[r]
  BY ReaderFacts DEF ReaderAt, RSeekPage
<1>2. /\ rfd[r] /\ rgot[r] = -1 /\ rnano[r] > 0 /\ rcur[r] = HeadLen
      /\ rseq[r] = Base(p) /\ version[p] = "ok" /\ last[p] \in Nat
      /\ rnano[r] \in Nat /\ tail[p] \in Offsets /\ HeadLen \in Offsets
      /\ UNCHANGED <<pageVars, writerVars, nseq, cnt, rfd, rgot, rnano, rcur,
                     rseq, rpage>>
  BY <1>1, ReaderFacts DEF ReaderAt, RSeekPage, PageInv, TypeOK
<1>3. TypeOK'
  BY <1>2 DEF PageInv, TypeOK, RSeekPage, pageVars, writerVars
<1>4. Base(p)' = Base(p)
  BY <1>2 DEF Base
<1>5. CASE last[p] < rnano[r]
  <2>1. rpc'[r] = "passPage"
    BY <1>1, <1>5 DEF RSeekPage, PageInv, TypeOK
  <2>2. ReaderAt(r)'
    BY <1>1, <1>2, <1>4, <2>1 DEF ReaderAt, pageVars
  <2> QED
    BY <1>3, <2>2, ReaderStep DEF RSeekPage, PageInv, TypeOK
<1>6. CASE ~(last[p] < rnano[r])
  <2>1. rpc'[r] = "seekFrame"
    BY <1>1, <1>6 DEF RSeekPage, PageInv, TypeOK
  <2>2. OnFrame(r)'
    BY <1>1, <1>2, AtHead DEF OnFrame, pageVars
  <2>3. rcur[r] = tail[p] => cell[p][tail[p]].nano >= rnano[r]
    <3>0. tail[p] \in Offsets /\ cell \in [Pages -> [Offsets -> Cell]]
      BY <1>2 DEF PageInv, TypeOK
    <3>1. cell[p][tail[p]] \in Cell
      BY <3>0
    <3>2. cell[p][tail[p]].nano \in Nat
      BY <3>1 DEF Cell
    <3> QED
      BY <1>2, <1>6, <3>2 DEF PageInv, LastInv, Offsets
  <2>4. ReaderAt(r)'
    BY <1>1, <1>2, <1>6, <2>1, <2>2, <2>3 DEF ReaderAt, pageVars
  <2> QED
    BY <1>3, <2>4, ReaderStep DEF RSeekPage, PageInv, TypeOK
<1> QED
  BY <1>5, <1>6

(* A reader that has returned all of a finished page p goes to page p + 1; *)
(* if that page cannot be loaded yet it waits, owed the first frame of it. *)
LEMMA Waiting ==
  ASSUME PageInv, NEW r \in Readers, NEW p \in Pages, status[p] = "finish",
         version[p] = "ok", ~Loadable(p + 1),
         UNCHANGED <<pageVars, writerVars, nseq, cnt>>,
         rpage'[r] = p + 1, rfd'[r] = FALSE, rpc'[r] = "idle",
         rseq'[r] = cnt[p], rgot'[r] # -1 => rgot'[r] = rseq'[r] - 1
  PROVE  ReaderAt(r)'
<1>1. file[p] # "absent"
  BY DEF PageInv, ChainInv
<1>2. p + 1 \in Pages => Base(p + 1)' = cnt[p]
  BY DEF Base, Pages
<1>3. PICK q \in 1 .. MaxPage + 1 : q = p + 1 /\ q - 1 = p
  BY DEF Pages
<1> QED
  BY <1>1, <1>2, <1>3 DEF ReaderAt, pageVars

LEMMA RPassPageStep ==
  ASSUME NEW r \in Readers, PageInv, RPassPage(r)
  PROVE  PageInv'
<1>1. PICK p \in Pages : p = rpage[r]
  BY ReaderFacts DEF ReaderAt, RPassPage
<1>2. /\ rpc[r] = "passPage" /\ rfd[r] /\ rgot[r] = -1 /\ rnano[r] > 0
      /\ version[p] = "ok" /\ HeadLen \in Offsets
      /\ rcur[r] = HeadLen /\ rseq[r] = Base(p)
      /\ UNCHANGED <<pageVars, writerVars, rstat, rnano, rgot, nseq, cnt>>
  BY <1>1, ReaderFacts DEF ReaderAt, RPassPage
<1>3. CASE status[p] # "finish"
  <2>1. rpc' = [rpc EXCEPT ![r] = "seekTail"] /\ UNCHANGED <<rpage, rfd, rcur, rseq>>
    BY <1>1, <1>3 DEF RPassPage
  <2>2. TypeOK'
    BY <1>2, <2>1 DEF PageInv, TypeOK, pageVars, writerVars
  <2>3. rpc'[r] = "seekTail"
    BY <2>1 DEF PageInv, TypeOK
  <2>4. ReaderAt(r)'
    BY <1>1, <1>2, <2>1, <2>3 DEF ReaderAt, pageVars
  <2> QED
    BY <1>2, <2>1, <2>2, <2>4, ReaderStep DEF PageInv, TypeOK
<1>4. CASE status[p] = "finish"
  <2>1. /\ rpage' = [rpage EXCEPT ![r] = p + 1]
        /\ rfd' = [rfd EXCEPT ![r] = Loadable(p + 1)]
        /\ rcur' = [rcur EXCEPT ![r] = IF Loadable(p + 1) THEN HeadLen ELSE @]
        /\ rseq' = [rseq EXCEPT ![r] = cnt[p]]
        /\ rpc' = [rpc EXCEPT ![r] =
                      IF Loadable(p + 1) THEN "seekPage" ELSE "idle"]
    BY <1>1, <1>4 DEF RPassPage
  <2>2. Loadable(p + 1) \in BOOLEAN /\ cnt[p] \in Nat /\ p + 1 \in 0 .. MaxPage + 1
    BY DEF Loadable, CheckPageHead, PageInv, TypeOK, Pages
  <2>3. TypeOK'
    BY <1>2, <2>1, <2>2 DEF PageInv, TypeOK, pageVars, writerVars
  <2>4. /\ rpage'[r] = p + 1 /\ rfd'[r] = Loadable(p + 1) /\ rseq'[r] = cnt[p]
        /\ rcur'[r] = HeadLen
        /\ rpc'[r] = IF Loadable(p + 1) THEN "seekPage" ELSE "idle"
    BY <1>2, <2>1 DEF PageInv, TypeOK
  <2>5. ReaderAt(r)'
    <3>1. CASE Loadable(p + 1)
      <4>1. p + 1 \in Pages /\ version'[p + 1] = "ok"
        BY <1>2, <3>1 DEF Loadable, CheckPageHead, pageVars
      <4>2. Base(p + 1)' = cnt[p]
        BY <1>2 DEF Base, Pages
      <4> QED
        BY <1>2, <2>4, <3>1, <4>1, <4>2 DEF ReaderAt
    <3>2. CASE ~Loadable(p + 1)
      BY <1>2, <1>4, <2>2, <2>4, <3>2, Waiting
    <3> QED
      BY <3>1, <3>2
  <2> QED
    BY <1>2, <2>1, <2>3, <2>5, ReaderStep DEF PageInv, TypeOK
<1> QED
  BY <1>3, <1>4

LEMMA RSeekFrameStep ==
  ASSUME NEW r \in Readers, PageInv, RSeekFrame(r)
  PROVE  PageInv'
<1>1. PICK p \in Pages : p = rpage[r] /\ p = rpage'[r]
  BY ReaderFacts DEF ReaderAt, RSeekFrame
<1> DEFINE c == cell[p][rcur[r]]
           e == rcur[r] + FrameLen + c.len
<1>2. /\ rpc[r] = "seekFrame" /\ rfd[r] /\ rgot[r] = -1 /\ rnano[r] > 0
      /\ version[p] = "ok" /\ OnFrame(r) /\ rnano[r] <= last[p]
      /\ rcur[r] = tail[p] => cell[p][tail[p]].nano >= rnano[r]
      /\ rcur[r] \in Offsets /\ tail[p] \in Offsets /\ rnano[r] \in Nat
      /\ rseq[r] \in Nat
      /\ UNCHANGED <<pageVars, writerVars, rpage, rfd, rstat, rnano, rgot, nseq,
                     cnt>>
  BY <1>1, ReaderFacts DEF ReaderAt, RSeekFrame
<1>3. CASE ~(c.nano < rnano[r])
  <2>1. rpc' = [rpc EXCEPT ![r] = "idle"] /\ rcur' = rcur /\ rseq' = rseq
    BY <1>1, <1>3 DEF RSeekFrame, PageInv, TypeOK
  <2>2. TypeOK'
    BY <1>2, <2>1 DEF PageInv, TypeOK, pageVars, writerVars
  <2>3. rpc'[r] = "idle" /\ OnFrame(r)'
    BY <1>1, <1>2, <2>1 DEF PageInv, TypeOK, OnFrame, pageVars
  <2>4. ReaderAt(r)'
    BY <1>1, <1>2, <2>1, <2>3 DEF ReaderAt, pageVars
  <2> QED
    BY <1>2, <2>1, <2>2, <2>4, ReaderStep DEF PageInv, TypeOK
<1>4. CASE c.nano < rnano[r]
  <2>1. /\ rpc' = [rpc EXCEPT ![r] = "seekFrame"]
        /\ rcur' = [rcur EXCEPT ![r] = e]
        /\ rseq' = [rseq EXCEPT ![r] = rseq[r] + 1]
    BY <1>1, <1>4 DEF RSeekFrame
  <2>2. c.nano \in Nat /\ cell[p][tail[p]].nano \in Nat
    <3>1. cell \in [Pages -> [Offsets -> Cell]]
      BY DEF PageInv, TypeOK
    <3> QED
      BY <1>2, <3>1 DEF Cell
  <2>3. rcur[r] < tail[p]
    <3>1. rcur[r] # tail[p]
      BY <1>2, <1>4, <2>2
    <3>2. rcur[r] = tail[p] \/ rcur[r] < tail[p]
      BY SMTT(30), <1>1, <1>2 DEF OnFrame
    <3> QED
      BY <3>1, <3>2
  <2>4. /\ c.magic /\ c.nano = rseq[r] + 1 /\ e \in Offsets
        /\ \/ e = tail[p] /\ rseq[r] + 1 = cnt[p]
           \/ /\ e < tail[p]
              /\ cell[p][e].magic
              /\ cell[p][e].body = rseq[r] + 1
    BY <1>1, <1>2, <2>3, NextFrame
  <2> HIDE DEF c, e
  <2>5. TypeOK'
    BY <1>2, <2>1, <2>4 DEF PageInv, TypeOK, pageVars, writerVars
  <2>6. rpc'[r] = "seekFrame" /\ rcur'[r] = e /\ rseq'[r] = rseq[r] + 1
    BY <2>1 DEF PageInv, TypeOK
  <2>7. OnFrame(r)'
    BY <1>1, <1>2, <2>4, <2>6 DEF OnFrame, pageVars
  <2>8. e = tail[p] => cell[p][tail[p]].nano >= rnano[r]
    <3>1. last[p] \in Nat
      BY DEF PageInv, TypeOK
    <3> QED
      BY <1>2, <1>4, <2>2, <2>4, <3>1 DEF PageInv, LastInv, Offsets
  <2>9. ReaderAt(r)'
    BY <1>1, <1>2, <2>6, <2>7, <2>8 DEF ReaderAt, pageVars
  <2> QED
    BY <1>2, <2>1, <2>5, <2>9, ReaderStep DEF PageInv, TypeOK
<1> QED
  BY <1>3, <1>4

LEMMA RReloadStep ==
  ASSUME NEW r \in Readers, PageInv, RReload(r)
  PROVE  PageInv'
<1>1. PICK p \in Pages : p = rpage[r] /\ p = rpage'[r]
  BY DEF RReload, Loadable
<1>2. /\ rpc[r] = "idle" /\ rpc' = rpc /\ ~rfd[r]
      /\ rgot[r] # -1 => rgot[r] = rseq[r] - 1
      /\ version[p] = "ok" /\ rseq[r] = Base(p) /\ HeadLen \in Offsets
      /\ rfd' = [rfd EXCEPT ![r] = TRUE]
      /\ rcur' = [rcur EXCEPT ![r] = HeadLen]
      /\ UNCHANGED <<pageVars, writerVars, rpage, rstat, rnano, rgot, nseq,
                     cnt, rseq>>
  BY <1>1, ReaderFacts DEF ReaderAt, RReload, Loadable, CheckPageHead, Dead
<1>3. TypeOK'
  BY <1>2 DEF PageInv, TypeOK, pageVars, writerVars
<1>4. rfd'[r] = TRUE /\ rcur'[r] = HeadLen
  BY <1>2 DEF PageInv, TypeOK
<1>5. OnFrame(r)'
  BY <1>1, <1>2, <1>4, AtHead DEF OnFrame, pageVars
<1>6. ReaderAt(r)'
  BY <1>1, <1>2, <1>4, <1>5 DEF ReaderAt, pageVars
<1> QED
  BY <1>2, <1>3, <1>6, ReaderStep DEF PageInv, TypeOK

LEMMA RStatusStep ==
  ASSUME NEW r \in Readers, PageInv, RStatus(r)
  PROVE  PageInv'
<1>1. PICK p \in Pages : p = rpage[r] /\ p = rpage'[r]
  BY ReaderFacts DEF RStatus
<1>2. /\ rpc[r] = "idle" /\ rfd[r] /\ OnFrame(r) /\ version[p] = "ok"
      /\ rgot[r] # -1 => rgot[r] = rseq[r] - 1
      /\ rstat' = [rstat EXCEPT ![r] = status[p]]
      /\ rpc' = [rpc EXCEPT ![r] = "tail"]
      /\ UNCHANGED <<pageVars, writerVars, rpage, rfd, rcur, rnano, rgot, nseq,
                     cnt, rseq>>
  BY <1>1, ReaderFacts DEF ReaderAt, RStatus
<1>3. TypeOK'
  BY <1>2 DEF PageInv, TypeOK, pageVars, writerVars
<1>4. rpc'[r] = "tail" /\ rstat'[r] = status[p]
  BY <1>2 DEF PageInv, TypeOK
<1>5. OnFrame(r)'
  BY <1>1, <1>2 DEF OnFrame, pageVars
<1>6. ReaderAt(r)'
  BY <1>1, <1>2, <1>4, <1>5 DEF ReaderAt, pageVars
<1> QED
  BY <1>2, <1>3, <1>6, ReaderStep DEF PageInv, TypeOK

LEMMA RTailStep ==
  ASSUME NEW r \in Readers, PageInv, RTail(r)
  PROVE  PageInv'
<1>1. PICK p \in Pages : p = rpage[r]
  BY ReaderFacts DEF ReaderAt, RTail
<1>2. /\ rpc[r] = "tail" /\ rfd[r] /\ OnFrame(r) /\ version[p] = "ok"
      /\ rgot[r] # -1 => rgot[r] = rseq[r] - 1
      /\ rstat[r] = "finish" => status[p] = "finish"
      /\ rcur[r] \in Offsets /\ tail[p] \in Offsets /\ HeadLen \in Offsets
      /\ UNCHANGED <<pageVars, writerVars, rstat, rnano, rgot, nseq, cnt, rseq>>
  BY <1>1, ReaderFacts DEF ReaderAt, RTail
<1>3. CASE rcur[r] < tail[p] \/ rstat[r] # "finish"
  <2>1. /\ rpc' = [rpc EXCEPT ![r] = IF rcur[r] < tail[p] THEN "frame" ELSE "idle"]
        /\ UNCHANGED <<rpage, rfd, rcur>>
    BY <1>1, <1>3 DEF RTail, PageInv, TypeOK
  <2>2. TypeOK'
    BY <1>2, <2>1 DEF PageInv, TypeOK, pageVars, writerVars
  <2>3. rpc'[r] = IF rcur[r] < tail[p] THEN "frame" ELSE "idle"
    BY <2>1 DEF PageInv, TypeOK
  <2>4. OnFrame(r)'
    BY <1>1, <1>2, <2>1 DEF OnFrame, pageVars
  <2>5. ReaderAt(r)'
    BY <1>1, <1>2, <2>1, <2>3, <2>4 DEF ReaderAt, pageVars
  <2> QED
    BY <1>2, <2>1, <2>2, <2>5, ReaderStep DEF PageInv, TypeOK
<1>4. CASE ~(rcur[r] < tail[p]) /\ rstat[r] = "finish"
  <2>1. /\ rpage' = [rpage EXCEPT ![r] = p + 1]
        /\ rfd' = [rfd EXCEPT ![r] = Loadable(p + 1)]
        /\ rcur' = [rcur EXCEPT ![r] = IF Loadable(p + 1) THEN HeadLen ELSE @]
        /\ rpc' = [rpc EXCEPT ![r] = "idle"]
    BY <1>1, <1>4 DEF RTail
  <2>2. Loadable(p + 1) \in BOOLEAN /\ p + 1 \in 0 .. MaxPage + 1
    BY DEF Loadable, CheckPageHead, Pages
  <2>3. TypeOK'
    BY <1>2, <2>1, <2>2 DEF PageInv, TypeOK, pageVars, writerVars
  <2>4. /\ rpage'[r] = p + 1 /\ rfd'[r] = Loadable(p + 1) /\ rpc'[r] = "idle"
        /\ rcur'[r] = IF Loadable(p + 1) THEN HeadLen ELSE rcur[r]
    BY <2>1 DEF PageInv, TypeOK
  <2>5. rseq[r] = cnt[p]
    BY <1>1, <1>2, <1>4 DEF OnFrame
  <2>6. ReaderAt(r)'
    <3>1. CASE Loadable(p + 1)
      <4>1. PICK q \in Pages : q = p + 1 /\ version[q] = "ok"
        BY <3>1 DEF Loadable, CheckPageHead
      <4>2. Base(q) = cnt[p]
        BY <4>1 DEF Base, Pages
      <4>3. OnFrame(r)'
        BY <1>2, <2>4, <2>5, <3>1, <4>1, <4>2, AtHead DEF OnFrame, pageVars
      <4> QED
        BY <1>2, <2>4, <3>1, <4>1, <4>3 DEF ReaderAt, pageVars
    <3>2. CASE ~Loadable(p + 1)
      BY <1>2, <1>4, <2>2, <2>4, <2>5, <3>2, Waiting
    <3> QED
      BY <3>1, <3>2
  <2> QED
    BY <1>2, <2>1, <2>3, <2>6, ReaderStep DEF PageInv, TypeOK
<1> QED
  BY <1>3, <1>4

LEMMA RFrameStep ==
  ASSUME NEW r \in Readers, PageInv, RFrame(r)
  PROVE  PageInv'
<1>1. PICK p \in Pages : p = rpage[r] /\ p = rpage'[r]
  BY ReaderFacts DEF ReaderAt, RFrame
<1> DEFINE c == cell[p][rcur[r]]
           e == rcur[r] + FrameLen + c.len
<1>2. /\ rpc[r] = "frame" /\ rfd[r] /\ OnFrame(r) /\ version[p] = "ok"
      /\ rcur[r] < tail[p] /\ rseq[r] \in Nat
      /\ UNCHANGED <<pageVars, writerVars, rpage, rfd, rstat, rnano, nseq, cnt>>
  BY <1>1, ReaderFacts DEF ReaderAt, RFrame
<1>3. /\ c.magic /\ c.body = rseq[r] /\ e \in Offsets
      /\ \/ e = tail[p] /\ rseq[r] + 1 = cnt[p]
         \/ /\ e < tail[p]
            /\ cell[p][e].magic
            /\ cell[p][e].body = rseq[r] + 1
  BY <1>1, <1>2, NextFrame
<1>4. /\ rpc' = [rpc EXCEPT ![r] = "idle"]
      /\ rcur' = [rcur EXCEPT ![r] = e]
      /\ rgot' = [rgot EXCEPT ![r] = rseq[r]]
      /\ rseq' = [rseq EXCEPT ![r] = rseq[r] + 1]
  BY <1>1, <1>3 DEF RFrame
<1> HIDE DEF c, e
<1>5. TypeOK'
  BY <1>2, <1>3, <1>4 DEF PageInv, TypeOK, pageVars, writerVars
<1>6. /\ rpc'[r] = "idle" /\ rcur'[r] = e /\ rgot'[r] = rseq[r]
      /\ rseq'[r] = rseq[r] + 1
  BY <1>4 DEF PageInv, TypeOK
<1>7. OnFrame(r)'
  BY <1>1, <1>2, <1>3, <1>6 DEF OnFrame, pageVars
<1>8. ReaderAt(r)'
  BY <1>1, <1>2, <1>6, <1>7 DEF ReaderAt, pageVars
<1> QED
  BY <1>2, <1>4, <1>5, <1>8, ReaderStep DEF PageInv, TypeOK

LEMMA RExitStep ==
  ASSUME NEW r \in Readers, PageInv, RExit(r)
  PROVE  PageInv'
<1>1. TypeOK'
  BY DEF PageInv, TypeOK, RExit, pageVars, writerVars, Offsets
<1>2. ReaderAt(r)'
  BY DEF ReaderAt, RExit, PageInv, TypeOK
<1> QED
  BY <1>1, <1>2, ReaderStep DEF RExit, PageInv, TypeOK

-----------------------------------------------------------------------------
(* PageInv is inductive. *)
LEMMA StepInv == PageInv /\ [Next]_vars => PageInv'
<1> SUFFICES ASSUME PageInv, [Next]_vars PROVE PageInv'
  OBVIOUS
<1>1. CASE Writer
  BY <1>1, InitScanStep, InitLoadStep, OpenStep, TruncateStep, FillHeadStep,
     SetVersionStep, CallStep, ReserveStep, FinishStep, BodyStep,
     FrameHeadStep, LastNanoStep, TailStep DEF Writer
<1>2. CASE WCrash
  BY <1>2, CrashStep
<1>3. ASSUME NEW r \in Readers, Reader(r) PROVE PageInv'
  <2>1. CASE ReadStep(r)
    BY <2>1, RInitLoadStep, RSeekTailStep, RSeekPageStep, RPassPageStep,
       RSeekFrameStep, RReloadStep, RStatusStep, RTailStep, RFrameStep
       DEF ReadStep
  <2>2. CASE RExit(r)
    BY <2>2, RExitStep
  <2>3. ASSUME NEW nano \in {0} \cup Nanos, RInit(r, nano) PROVE PageInv'
    BY <2>3, RInitStep
  <2> QED
    BY <1>3, <2>1, <2>2, <2>3 DEF Reader
<1>4. CASE UNCHANGED vars
  <2> USE <1>4 DEF vars
  <2>1. \A p \in Pages \cup {-1} :
          /\ Base(p)' = Base(p)
          /\ InCreation(p)' <=> InCreation(p)
          /\ IsTop(p)' <=> IsTop(p)
    BY DEF Base, InCreation, IsTop
  <2>2. TypeOK'
    BY DEF PageInv, TypeOK
  <2>3. CASE Readers = {}
    BY <2>3 DEF PageInv, TypeOK, TopInv, FreshInv, ChainInv, LastInv, WriterInv,
       ReaderInv, IsTop, InCreation, Base, FirstFrame, Linked, Fits
  <2>4. CASE Readers # {}
    <3>1. PICK r \in Readers : TRUE
      BY <2>4
    <3>2. ReaderAt(r)'
      BY ReaderFacts DEF ReaderAt, OnFrame, Base, Dead, InCreation
    <3> QED
      BY <2>2, <3>2, ReaderStep DEF pageVars, writerVars
  <2> QED
    BY <2>3, <2>4
<1> QED
  BY <1>1, <1>2, <1>3, <1>4 DEF Next

(* The state of the pages, the writer and the readers is always consistent: *)
(* CRawIOWriter stores and CRawIOReader loads keep PageInv, whatever the    *)
(* interleaving and wherever the writer process dies.                      *)
THEOREM PageInvHolds == Spec => []PageInv
<1>1. Init => PageInv
  BY InitInv
<1>2. PageInv /\ [Next]_vars => PageInv'
  BY StepInv
<1> QED
  BY <1>1, <1>2, PTL DEF Spec

(* Every variable of the page model keeps its type, for all constants. *)
THEOREM TypeCorrect == Spec => []TypeOK
<1>1. PageInv => TypeOK
  BY DEF PageInv
<1> QED
  BY <1>1, PageInvHolds, PTL

(* CRawIOReader::read returns the frames CRawIOWriter published in their    *)
(* order, without loss or repetition, for any number of readers, pages and *)
(* crashes of the writer.                                                  *)
THEOREM FramesInOrder == Spec => []ReadsInOrder
<1>1. PageInv => ReadsInOrder
  BY DEF PageInv, ReaderInv, ReaderAt, ReadsInOrder
<1> QED
  BY <1>1, PageInvHolds, PTL

(* CRawIOReader::read never meets a torn frame. *)
THEOREM NoTornFrame == Spec => []CursorOnFrame
<1>1. PageInv => CursorOnFrame
  BY DEF PageInv, ReaderInv, ReaderAt, CursorOnFrame
<1> QED
  BY <1>1, PageInvHolds, PTL

(* What was published stays: in every step the tail of a readable page only *)
(* grows, a finished page stays as it is, and CRawIOWriter stores nothing   *)
(* below the tail.                                                         *)
THEOREM StoresKeepPublished == Spec => PublishedImmutable
<1> DEFINE Keep ==
      \A p \in Pages : version[p] = "ok" =>
        /\ version'[p] = "ok"
        /\ tail'[p] >= tail[p]
        /\ status[p] = "finish" => status'[p] = "finish" /\ tail'[p] = tail[p]
        /\ \A o \in Offsets : o < tail[p] => cell'[p][o] = cell[p][o]
<1>1. PageInv /\ [Next]_vars => [Keep]_vars
  <2> SUFFICES ASSUME PageInv, Next, NEW p \in Pages, version[p] = "ok"
               PROVE  /\ version'[p] = "ok"
                      /\ tail'[p] >= tail[p]
                      /\ status[p] = "finish" =>
                           status'[p] = "finish" /\ tail'[p] = tail[p]
                      /\ \A o \in Offsets : o < tail[p] => cell'[p][o] = cell[p][o]
    OBVIOUS
  <2>1. /\ tail[p] \in Nat /\ HeadLen <= tail[p] /\ tail \in [Pages -> Offsets]
        /\ cell \in [Pages -> [Offsets -> Cell]] /\ wlen \in Nat
        /\ version \in [Pages -> {"zero", "ok", "bad"}]
        /\ status \in [Pages -> {"writting", "finish"}]
    BY DEF PageInv, TypeOK, Offsets, ChainInv
  <2>2. CASE UNCHANGED <<version, status, tail, cell>>
    BY <2>1, <2>2
  <2>3. CASE WFillHead \/ WSetVersion
    <3>1. version[wpage] # "ok" /\ wpage \in Pages
      BY <2>3, CreatedPage DEF WFillHead, WSetVersion, Creating
    <3> QED
      BY <2>1, <2>3, <3>1 DEF WFillHead, WSetVersion
  <2>4. CASE WReserve \/ WBody \/ WFrameHead \/ WFinish \/ WTail
    <3>1. wpage \in Pages /\ status[wpage] = "writting"
      BY <2>4, AboveTop DEF WReserve, WBody, WFrameHead, WFinish, WTail, PageInv,
         WriterInv
    <3>2. CASE WReserve
      BY <2>1, <3>1, <3>2 DEF WReserve
    <3>3. CASE WBody
      BY <2>1, <3>1, <3>3 DEF WBody
    <3>4. CASE WFrameHead
      BY <2>1, <3>1, <3>4 DEF WFrameHead
    <3>5. CASE WFinish
      BY <2>1, <3>1, <3>5 DEF WFinish
    <3>6. CASE WTail
      BY <2>1, <3>1, <3>6 DEF WTail
    <3> QED
      BY <2>4, <3>2, <3>3, <3>4, <3>5, <3>6
  <2>5. CASE \E r \in Readers : Reader(r)
    <3>1. UNCHANGED pageVars
      BY <2>5 DEF Reader, ReadStep, RInit, RInitLoad, RSeekTail, RSeekPage,
         RPassPage, RSeekFrame, RReload, RStatus, RTail, RFrame, RExit
    <3> QED
      BY <2>2, <3>1 DEF pageVars
  <2>6. CASE WCrash
    BY <2>2, <2>6 DEF WCrash, pageVars
  <2>7. CASE \/ WInitScan \/ WInitLoad \/ WOpen \/ WTruncate \/ WTooBig
             \/ WDiscard \/ WLastNano
             \/ \E op \in {"write", "prefetch"}, len \in Lens : WCall(op, len)
    BY <2>2, <2>7 DEF WInitScan, WInitLoad, WOpen, WTruncate, WTooBig,
       WDiscard, WLastNano, WCall, pageVars
  <2> QED
    BY <2>3, <2>4, <2>5, <2>6, <2>7 DEF Next, Writer
<1> QED
  BY <1>1, PageInvHolds, PTL DEF Spec, PublishedImmutable

-----------------------------------------------------------------------------
(***************************************************************************)
(* The pages implement the message log.                                    *)
(***************************************************************************)

(* A reader in place is owed a published frame or the next to come. *)
LEMMA OwedBound ==
  ASSUME PageInv, NEW r \in Readers, rfd[r], OnFrame(r)
  PROVE  /\ rseq[r] \in 0 .. nseq
         /\ rcur[r] < tail[rpage[r]] => rseq[r] < nseq
<1>1. /\ rpage[r] \in Pages /\ rseq[r] \in Nat /\ cnt[rpage[r]] \in Nat
      /\ cnt[rpage[r]] <= nseq /\ nseq \in Nat
      /\ rcur[r] \in Offsets /\ tail[rpage[r]] \in Offsets
  BY ReaderFacts DEF PageInv, TopInv, TypeOK
<1>2. CASE rcur[r] < tail[rpage[r]]
  <2>1. cell[rpage[r]][rcur[r]].magic /\ cell[rpage[r]][rcur[r]].body = rseq[r]
        /\ version[rpage[r]] = "ok"
    BY <1>1, <1>2, NextFrame
  <2>2. Linked(rpage[r], rcur[r])
    BY <1>1, <1>2, <2>1 DEF PageInv, ChainInv
  <2> QED
    BY <1>1, <2>1, <2>2 DEF Linked
<1>3. CASE ~(rcur[r] < tail[rpage[r]])
  BY <1>1, <1>3 DEF OnFrame
<1> QED
  BY <1>2, <1>3

(* A step that leaves the readers' positions alone is a stutter of the log. *)
LEMMA LogStutter ==
  ASSUME UNCHANGED <<rpc, rseq, rgot, nseq>>
  PROVE  UNCHANGED Log!logVars
BY DEF Log!logVars, Attached

(* One reader joins the log. *)
LEMMA LogAttach ==
  ASSUME PageInv, NEW r \in Readers, NEW n \in 0 .. nseq,
         rpc[r] \notin {"idle", "tail", "frame"},
         rpc' = [rpc EXCEPT ![r] = "idle"], rseq'[r] = n,
         \A s \in Readers : s # r => rseq'[s] = rseq[s],
         UNCHANGED <<rgot, nseq>>
  PROVE  Log!Attach(r)
<1>1. \A s \in Readers : rpc'[s] = IF s = r THEN "idle" ELSE rpc[s]
  BY DEF PageInv, TypeOK
<1>2. Attached' = Attached \cup {r} /\ r \notin Attached
  BY <1>1 DEF Attached
<1> DEFINE nx == [s \in Readers |-> IF s \in Attached THEN rseq[s] ELSE 0]
<1>3. nx' = [nx EXCEPT ![r] = n]
  <2>1. \A s \in Readers :
          (IF s \in Attached' THEN rseq'[s] ELSE 0)
            = IF s = r THEN n ELSE IF s \in Attached THEN rseq[s] ELSE 0
    BY <1>2
  <2> QED
    BY <2>1
<1> HIDE DEF nx
<1> QED
  BY <1>2, <1>3 DEF Log!Attach, nx

(* A step inside read() or init() that keeps the reader's position in the   *)
(* log is a stutter.                                                       *)
LEMMA LogStay ==
  ASSUME PageInv, NEW r \in Readers, NEW pc,
         rpc' = [rpc EXCEPT ![r] = pc],
         (pc \in {"idle", "tail", "frame"})
           <=> (rpc[r] \in {"idle", "tail", "frame"}),
         \A s \in Readers : rpc[s] \in {"idle", "tail", "frame"} =>
           rseq'[s] = rseq[s],
         UNCHANGED <<rgot, nseq>>
  PROVE  UNCHANGED Log!logVars
<1>1. \A s \in Readers : rpc'[s] = IF s = r THEN pc ELSE rpc[s]
  BY DEF PageInv, TypeOK
<1>2. Attached' = Attached
  BY <1>1 DEF Attached
<1> DEFINE nx == [s \in Readers |-> IF s \in Attached THEN rseq[s] ELSE 0]
<1>3. nx' = nx
  BY <1>2 DEF Attached
<1> HIDE DEF nx
<1> QED
  BY <1>2, <1>3 DEF Log!logVars, nx

LEMMA LogReader ==
  ASSUME PageInv, NEW r \in Readers, Reader(r)
  PROVE  Log!LogNext \/ UNCHANGED Log!logVars
<1>0. /\ rpc \in [Readers -> {"off", "load", "seekTail", "seekPage", "passPage",
                               "seekFrame", "idle", "tail", "frame"}]
      /\ rseq \in [Readers -> Nat] /\ nseq \in Nat
  BY DEF PageInv, TypeOK
<1>1. ASSUME NEW nano \in {0} \cup Nanos, RInit(r, nano)
      PROVE  UNCHANGED Log!logVars
  BY <1>0, <1>1, LogStay DEF RInit
<1>2. CASE RInitLoad(r)
  <2>1. CASE Loadable(rpage[r])
    <3>1. rpc' = [rpc EXCEPT ![r] = IF rnano[r] = 0 THEN "seekTail" ELSE "seekPage"]
          /\ rpc[r] = "load"
      BY <1>2, <2>1 DEF RInitLoad
    <3>2. \A s \in Readers : s # r => rseq'[s] = rseq[s]
      BY <1>0, <1>2 DEF RInitLoad
    <3> QED
      BY <1>2, <3>1, <3>2, LogStay DEF RInitLoad
  <2>2. CASE ~Loadable(rpage[r])
    <3>1. rpc' = [rpc EXCEPT ![r] = "idle"] /\ rseq' = [rseq EXCEPT ![r] = nseq]
          /\ rpc[r] = "load" /\ UNCHANGED <<rgot, nseq>>
      BY <1>2, <2>2 DEF RInitLoad
    <3>2. nseq \in 0 .. nseq /\ rseq'[r] = nseq
          /\ \A s \in Readers : s # r => rseq'[s] = rseq[s]
      BY <1>0, <3>1
    <3>3. Log!Attach(r)
      BY <3>1, <3>2, LogAttach
    <3> QED
      BY <3>3 DEF Log!LogNext
  <2> QED
    BY <2>1, <2>2
<1>3. CASE RSeekTail(r)
  <2>1. cnt[rpage[r]] \in 0 .. nseq
    BY <1>3, ReaderFacts DEF RSeekTail, ReaderAt, PageInv, TopInv, TypeOK
  <2>2. rseq'[r] = cnt[rpage[r]] /\ \A s \in Readers : s # r => rseq'[s] = rseq[s]
    BY <1>0, <1>3 DEF RSeekTail
  <2> QED
    BY <1>3, <2>1, <2>2, LogAttach DEF Log!LogNext, RSeekTail
<1>4. CASE RSeekPage(r)
  BY <1>0, <1>4, LogStay DEF RSeekPage
<1>5. CASE RPassPage(r)
  <2>1. CASE rpc' = [rpc EXCEPT ![r] = "seekTail"] /\ rseq' = rseq
    BY <1>5, <2>1, LogStay DEF RPassPage
  <2>2. CASE /\ rpc' = [rpc EXCEPT ![r] = IF Loadable(rpage[r] + 1)
                                          THEN "seekPage" ELSE "idle"]
             /\ rseq' = [rseq EXCEPT ![r] = cnt[rpage[r]]]
    <3>1. cnt[rpage[r]] \in 0 .. nseq
      BY SMTT(30), <1>5, ReaderFacts DEF RPassPage, ReaderAt, PageInv, TopInv, TypeOK
    <3>2. rseq'[r] = cnt[rpage[r]] /\ \A s \in Readers : s # r => rseq'[s] = rseq[s]
      BY <1>0, <2>2
    <3>3. rpc[r] = "passPage" /\ UNCHANGED <<rgot, nseq>>
      BY <1>5 DEF RPassPage
    <3>4. CASE Loadable(rpage[r] + 1)
      BY <2>2, <3>2, <3>3, <3>4, LogStay
    <3>5. CASE ~Loadable(rpage[r] + 1)
      BY <2>2, <3>1, <3>2, <3>3, <3>5, LogAttach DEF Log!LogNext
    <3> QED
      BY <3>4, <3>5
  <2> QED
    BY <1>5, <2>1, <2>2 DEF RPassPage
<1>6. CASE RSeekFrame(r)
  <2>1. rpc[r] = "seekFrame" /\ UNCHANGED <<rgot, nseq>>
    BY <1>6 DEF RSeekFrame
  <2>2. rfd[r] /\ OnFrame(r)
    BY <2>1, ReaderFacts DEF ReaderAt
  <2>3. rseq[r] \in 0 .. nseq
    BY <2>2, OwedBound
  <2>4. CASE rpc' = [rpc EXCEPT ![r] = "seekFrame"]
             /\ rseq' = [rseq EXCEPT ![r] = @ + 1]
    BY <1>0, <2>1, <2>4, LogStay
  <2>5. CASE rpc' = [rpc EXCEPT ![r] = "idle"] /\ rseq' = [rseq EXCEPT ![r] = @]
    BY <1>0, <2>1, <2>3, <2>5, LogAttach DEF Log!LogNext
  <2> QED
    BY <1>6, <2>4, <2>5 DEF RSeekFrame
<1>7. CASE RReload(r)
  BY <1>7, LogStutter DEF RReload
<1>8. CASE RStatus(r)
  BY <1>8, LogStay DEF RStatus
<1>9. CASE RTail(r)
  BY <1>9, LogStay DEF RTail
<1>10. CASE RFrame(r)
  <2>1. rfd[r] /\ OnFrame(r) /\ rcur[r] < tail[rpage[r]]
    BY <1>10, ReaderFacts DEF ReaderAt, RFrame
  <2>2. rseq[r] < nseq
    BY SMTT(30), <2>1, OwedBound
  <2>3. rgot' = [rgot EXCEPT ![r] = rseq[r]]
    BY <1>10, <2>1, NextFrame DEF RFrame
  <2>4. \A s \in Readers : rpc'[s] = IF s = r THEN "idle" ELSE rpc[s]
    BY <1>0, <1>10 DEF RFrame
  <2>5. Attached' = Attached /\ r \in Attached
    BY <1>10, <2>4 DEF Attached, RFrame
  <2> DEFINE nx == [s \in Readers |-> IF s \in Attached THEN rseq[s] ELSE 0]
  <2>6. nx' = [nx EXCEPT ![r] = @ + 1] /\ nx[r] = rseq[r]
    <3>1. \A s \in Readers : rseq'[s] = IF s = r THEN rseq[s] + 1 ELSE rseq[s]
      BY <1>0, <1>10 DEF RFrame
    <3> QED
      BY <2>5, <3>1
  <2>7. nseq' = nseq
    BY <1>10 DEF RFrame
  <2> HIDE DEF nx
  <2>8. Log!Deliver(r)
    BY <2>2, <2>3, <2>5, <2>6, <2>7 DEF Log!Deliver, nx
  <2> QED
    BY <2>8 DEF Log!LogNext
<1>11. CASE RExit(r)
  <2>1. \A s \in Readers : rpc'[s] = IF s = r THEN "off" ELSE rpc[s]
    BY <1>0, <1>11 DEF RExit
  <2>2. Attached' = Attached \ {r} /\ r \in Attached
    BY <1>11, <2>1 DEF Attached, RExit
  <2> DEFINE nx == [s \in Readers |-> IF s \in Attached THEN rseq[s] ELSE 0]
  <2>3. nx' = [nx EXCEPT ![r] = 0]
    <3>1. \A s \in Readers : rseq'[s] = IF s = r THEN 0 ELSE rseq[s]
      BY <1>0, <1>11 DEF RExit
    <3> QED
      BY <2>2, <3>1
  <2>4. rgot' = [rgot EXCEPT ![r] = -1] /\ nseq' = nseq
    BY <1>11 DEF RExit
  <2> HIDE DEF nx
  <2>5. Log!Detach(r)
    BY <2>2, <2>3, <2>4 DEF Log!Detach, nx
  <2> QED
    BY <2>5 DEF Log!LogNext
<1> QED
  BY <1>1, <1>2, <1>3, <1>4, <1>5, <1>6, <1>7, <1>8, <1>9, <1>10, <1>11
     DEF Reader, ReadStep

(* The page files implement MessageLog: every step of writer and readers is *)
(* a publication, a delivery of the next message, the coming or going of a  *)
(* reader, or not visible in the log.                                      *)
THEOREM PagesImplementLog == Spec => ImplementsLog
<1>1. Init => Log!LogInit
  BY DEF Init, Log!LogInit, Attached
<1>2. PageInv /\ [Next]_vars => [Log!LogNext]_(Log!logVars)
  <2> SUFFICES ASSUME PageInv, [Next]_vars
               PROVE  Log!LogNext \/ UNCHANGED Log!logVars
    OBVIOUS
  <2>1. CASE WTail
    <3>1. nseq' = nseq + 1 /\ UNCHANGED <<rpc, rseq, rgot>>
      BY <2>1 DEF WTail, readerVars
    <3>2. Log!Publish
      BY <3>1 DEF Log!Publish, Attached
    <3> QED
      BY <3>2 DEF Log!LogNext
  <2>2. CASE \/ WInitScan \/ WInitLoad \/ WOpen \/ WTruncate \/ WFillHead
             \/ WSetVersion \/ WReserve \/ WFinish \/ WTooBig \/ WBody
             \/ WFrameHead \/ WDiscard \/ WLastNano \/ WCrash
             \/ \E op \in {"write", "prefetch"}, len \in Lens : WCall(op, len)
             \/ UNCHANGED vars
    <3>1. UNCHANGED <<rpc, rseq, rgot, nseq>>
      BY <2>2 DEF WInitScan, WInitLoad, WOpen, WTruncate, WFillHead,
         WSetVersion, WReserve, WFinish, WTooBig, WBody, WFrameHead, WDiscard,
         WLastNano, WCrash, WCall, vars, readerVars
    <3> QED
      BY <3>1, LogStutter
  <2>3. CASE \E r \in Readers : Reader(r)
    BY <2>3, LogReader
  <2> QED
    BY <2>1, <2>2, <2>3 DEF Next, Writer
<1> QED
  BY <1>1, <1>2, PageInvHolds, PTL DEF Spec, ImplementsLog, Log!LogSpec

-----------------------------------------------------------------------------
(***************************************************************************)
(* What was acknowledged can be read, when the process does not die while  *)
(* it creates a page.                                                      *)
(***************************************************************************)

(* Every page is readable, or being created, or has no frame. *)
NoDeadPage ==
  \A p \in Pages :
    /\ file[p] = "absent" => cnt[p] = 0
    /\ file[p] # "absent" /\ ~InCreation(p) => version[p] = "ok"

(* At each step of the writer, ... *)
LEMMA NoDeadWriter ==
  ASSUME PageInv, NoDeadPage, Writer \/ WCrash, ~CrashInCreate
  PROVE  NoDeadPage'
<1>1. /\ file \in [Pages -> {"absent", "empty", "sized"}]
      /\ version \in [Pages -> {"zero", "ok", "bad"}]
      /\ cnt \in [Pages -> Nat] /\ nseq \in Nat /\ wpage \in Pages \cup {-1}
      /\ MaxPage \in Nat
  BY DEF PageInv, TypeOK
<1>2. wpc \notin {"down", "open", "truncate"} => wpage \in Pages /\ file[wpage] # "absent"
  BY AboveTop DEF PageInv, TopInv, IsTop, Pages
<1>3. CASE UNCHANGED <<file, version, cnt>> /\ \A p \in Pages : InCreation(p)' <=> InCreation(p)
  BY <1>3 DEF NoDeadPage
<1>4. CASE WInitLoad
  <2>1. wpc = "load" /\ wpc' \in {"down", "idle", "open"}
        /\ file' = [file EXCEPT ![wpage] = "sized"] /\ UNCHANGED <<version, cnt>>
    BY <1>4 DEF WInitLoad, Return
  <2>2. \A p \in Pages : ~InCreation(p) /\ ~InCreation(p)'
    BY <2>1 DEF InCreation
  <2>3. \A p \in Pages : file'[p] = "absent" => file[p] = "absent"
    BY <1>1, <2>1
  <2>4. \A p \in Pages : file[p] = "absent" => p # wpage
    BY <1>2, <2>1
  <2>5. \A p \in Pages : file'[p] # "absent" => file[p] # "absent"
    BY <1>1, <1>2, <2>1
  <2> QED
    BY <2>1, <2>2, <2>3, <2>5 DEF NoDeadPage
<1>5. CASE WOpen
  <2>1. /\ wpc = "open" /\ wpc' = "truncate" /\ wpage' = wpage
        /\ file' = [file EXCEPT ![wpage + 1] = "empty"]
        /\ cnt' = [cnt EXCEPT ![wpage + 1] = nseq] /\ version' = version
    BY <1>5 DEF WOpen
  <2>2. \A p \in Pages : ~InCreation(p)
    BY <2>1 DEF InCreation
  <2>3. InCreation(wpage + 1)'
    BY <2>1 DEF InCreation
  <2>4. \A p \in Pages : p # wpage + 1 => file'[p] = file[p] /\ cnt'[p] = cnt[p]
    BY <1>1, <2>1
  <2>5. wpage + 1 \in Pages => file'[wpage + 1] = "empty"
    BY <1>1, <2>1
  <2>6. ASSUME NEW p \in Pages
        PROVE  /\ file'[p] = "absent" => cnt'[p] = 0
               /\ file'[p] # "absent" /\ ~InCreation(p)' => version'[p] = "ok"
    <3>1. CASE p = wpage + 1
      <4>1. InCreation(p)'
        BY <2>1, <3>1 DEF InCreation
      <4> QED
        BY <2>5, <3>1, <4>1
    <3>2. CASE p # wpage + 1
      BY <2>1, <2>2, <2>4, <3>2 DEF NoDeadPage
    <3> QED
      BY <3>1, <3>2
  <2> QED
    BY <2>6 DEF NoDeadPage
<1>6. CASE WTruncate
  <2>1. /\ wpc = "truncate" /\ wpc' = "head" /\ wpage' = wpage + 1
        /\ file' = [file EXCEPT ![wpage + 1] = "sized"] /\ UNCHANGED <<version, cnt>>
    BY <1>6 DEF WTruncate
  <2>2. \A p \in Pages : InCreation(p)' <=> InCreation(p)
    BY <2>1 DEF InCreation
  <2>3. \A p \in Pages : p # wpage + 1 => file'[p] = file[p] /\ ~InCreation(p)
    BY <1>1, <2>1 DEF InCreation
  <2>4. \A p \in Pages : p = wpage + 1 => file'[p] = "sized" /\ InCreation(p)
    BY <1>1, <2>1 DEF InCreation
  <2> QED
    BY <2>1, <2>2, <2>3, <2>4 DEF NoDeadPage
<1>7. CASE WSetVersion
  <2>1. /\ wpc = "version" /\ wpc' \in {"idle", "again"}
        /\ version' = [version EXCEPT ![wpage] = "ok"] /\ UNCHANGED <<file, cnt>>
    BY <1>7 DEF WSetVersion, Return
  <2>2. \A p \in Pages : InCreation(p) <=> p = wpage
    BY <2>1 DEF InCreation
  <2>3. \A p \in Pages : version'[p] = IF p = wpage THEN "ok" ELSE version[p]
    BY <1>1, <2>1
  <2> QED
    BY <2>1, <2>2, <2>3 DEF NoDeadPage
<1>8. CASE WBody
  <2>1. wpc = "body" /\ wpc' = "fhead" /\ UNCHANGED <<file, cnt, wpage>>
    BY <1>8 DEF WBody
  <2>2. \A p \in Pages : ~InCreation(p) /\ ~InCreation(p)'
    BY <2>1 DEF InCreation
  <2>3. version[wpage] = "ok"
    BY <1>2, <2>1, <2>2 DEF NoDeadPage
  <2>4. HeadLen <= tail[wpage]
    BY <1>2, <2>1, <2>3 DEF PageInv, ChainInv
  <2>5. tail[wpage] \in Nat
    BY <1>2, <2>1 DEF PageInv, TypeOK, Offsets
  <2>6. version' = version
    BY <1>8, <2>4, <2>5 DEF WBody
  <2> QED
    BY <2>1, <2>2, <2>6 DEF NoDeadPage
<1>9. CASE WTail
  <2>1. /\ wpc = "tail" /\ wpc' = "idle" /\ UNCHANGED <<file, version, wpage>>
        /\ cnt' = [cnt EXCEPT ![wpage] = nseq + 1]
    BY <1>9 DEF WTail, Return
  <2>2. \A p \in Pages : ~InCreation(p) /\ ~InCreation(p)'
    BY <2>1 DEF InCreation
  <2>3. \A p \in Pages : p # wpage => cnt'[p] = cnt[p]
    BY <1>1, <2>1
  <2> QED
    BY <1>2, <2>1, <2>2, <2>3 DEF NoDeadPage
<1>10. CASE WCrash
  <2>1. /\ wpc \notin Creating /\ wpc' = "down" /\ UNCHANGED <<file, version, cnt>>
    BY <1>10 DEF WCrash, Return, pageVars
  <2>2. \A p \in Pages : ~InCreation(p) /\ ~InCreation(p)'
    BY <2>1 DEF InCreation, Creating
  <2> QED
    BY <2>1, <2>2 DEF NoDeadPage
<1>11. CASE WFillHead
  <2>1. wpc = "head" /\ wpc' = "version" /\ UNCHANGED <<file, version, cnt, wpage>>
    BY <1>11 DEF WFillHead
  <2> QED
    BY <1>3, <2>1 DEF InCreation
<1>12. CASE \/ WInitScan \/ WReserve \/ WFinish \/ WTooBig \/ WFrameHead \/ WDiscard
            \/ WLastNano \/ \E op \in {"write", "prefetch"}, len \in Lens : WCall(op, len)
  <2>1. UNCHANGED <<file, version, cnt>>
    BY <1>12 DEF WInitScan, WReserve, WFinish, WTooBig, WFrameHead, WDiscard,
         WLastNano, WCall, pageVars
  <2>2. wpc \notin {"truncate", "head", "version"}
        /\ wpc' \notin {"truncate", "head", "version"}
    BY <1>12 DEF WInitScan, WReserve, WFinish, WTooBig, WFrameHead, WDiscard,
         WLastNano, WCall, Return
  <2> QED
    BY <1>3, <2>1, <2>2 DEF InCreation
<1> QED
  BY <1>4, <1>5, <1>6, <1>7, <1>8, <1>9, <1>10, <1>11, <1>12 DEF Writer

(* ... and at each step of a reader, which stores nothing in the pages. *)
LEMMA NoDeadStep ==
  ASSUME PageInv, NoDeadPage, [Next]_vars, ~CrashInCreate
  PROVE  NoDeadPage'
<1>1. CASE (\E r \in Readers : Reader(r)) \/ UNCHANGED vars
  <2>1. UNCHANGED <<file, version, cnt, wpc, wpage>>
    <3>1. ASSUME NEW r \in Readers, Reader(r)
          PROVE  UNCHANGED <<pageVars, writerVars, cnt>>
      BY <3>1 DEF Reader, ReadStep, RInit, RInitLoad, RSeekTail, RSeekPage,
         RPassPage, RSeekFrame, RReload, RStatus, RTail, RFrame, RExit
    <3> QED
      BY <1>1, <3>1 DEF vars, pageVars, writerVars
  <2> QED
    BY <2>1 DEF NoDeadPage, InCreation
<1> QED
  BY <1>1, NoDeadWriter DEF Next

(* A frame for which write returned true is in a page that readers can     *)
(* load, in every state, when the process does not die between the calls   *)
(* of createNextPage (CRawIOWriter::write, commit, createNextPage, init).  *)
THEOREM AcknowledgedStaysReadable ==
  ASSUME CrashInCreate = FALSE
  PROVE  Spec => []AcknowledgedReadable
<1>1. Init => NoDeadPage
  BY DEF Init, NoDeadPage, Pages
<1>2. PageInv /\ NoDeadPage /\ [Next]_vars => NoDeadPage'
  BY NoDeadStep
<1>3. PageInv /\ NoDeadPage => AcknowledgedReadable
  <2> SUFFICES ASSUME PageInv, NoDeadPage, NEW p \in Pages,
                      cnt[p] > (IF p = 0 THEN 0 ELSE cnt[p - 1])
               PROVE  Loadable(p)
    BY DEF AcknowledgedReadable
  <2>1. cnt \in [Pages -> Nat] /\ Base(p) \in Nat /\ cnt[p] > Base(p)
    BY DEF PageInv, TypeOK, Base, Pages
  <2>2. file[p] # "absent"
    BY <2>1 DEF NoDeadPage
  <2>3. ~InCreation(p)
    <3>1. PICK n \in Pages \cup {-1} :
            /\ n >= 0 => cnt[n] = nseq
            /\ InCreation(n) => Base(n) = nseq
            /\ wpc \notin {"down", "truncate"} => wpage = n
            /\ wpc = "truncate" => wpage = n - 1
      BY DEF PageInv, TopInv
    <3>2. ASSUME InCreation(p)
          PROVE  p = n
      BY <3>1, <3>2 DEF InCreation, Pages
    <3> QED
      BY <2>1, <3>1, <3>2 DEF PageInv, TypeOK, Pages
  <2>4. version[p] = "ok"
    BY <2>2, <2>3 DEF NoDeadPage
  <2> QED
    BY <2>4 DEF PageInv, ChainInv, Loadable, CheckPageHead
<1> QED
  BY <1>1, <1>2, <1>3, PageInvHolds, PTL DEF Spec
=============================================================================
