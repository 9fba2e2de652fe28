---------------------------- MODULE ClientProofs ----------------------------
(***************************************************************************)
(* Theorems about the clients of a Header plus Data Unit (Client): every   *)
(* file that dada_dbdisk stores holds the bytes that its header names, and *)
(* the files of an observation follow on each other, for any observations, *)
(* any sizes of blocks, chunks and files, and any sequence of clients.     *)
(***************************************************************************)
EXTENDS Client, SequenceTheorems, TLAPS

-----------------------------------------------------------------------------
(* Types.                                                                  *)

Byte == Nat \X Int
Xfer == [s : Int, e : Int]
Hdr  == [utc : Nat, off : Int, fsize : Int]
RingT(B) == [blocks : Seq(B), xs : Seq(Xfer),
             w : {"DISCON", "WCHANGE", "WRITING", "WRITER"}, full : Int, clear : Int,
             r : Int, rx : Int, h : {"VIEWER", "READER", "READING", "RSTOP"}]
WrPcs == {"none", "write", "failed", "loop", "close", "stop"}
WrT == [pc : WrPcs, job : Int, app : {"", "diskdb", "junkdb"}, zc : BOOLEAN,
        files : Seq(FileRec), cont : Seq(BOOLEAN), sizes : Seq(Int), cur : Int, pos : Int,
        want : Int, done : Int, buf : Seq(Byte), blk : Seq(Byte), open : BOOLEAN]
RdPcs == {"none", "read", "transfer", "loop", "unlock"}
RdT == [pc : RdPcs, app : {"", "dbdisk", "dbnull"}, zc : BOOLEAN, hdr : Hdr, off : Int,
        utc_start : Int, obs_offset : Int, number : Int, want : Int, got : Int, ask : Int,
        buf : Seq(Byte), file : Seq(Byte), blk : Seq(Byte), open : BOOLEAN]
FileT == [utc : Nat, off : Int, number : Int, fsize : Int, zc : BOOLEAN, bytes : Seq(Byte)]
Run == [job : Jobs, done : BOOLEAN, bytes : Seq(Byte)]

ClientType ==
    /\ hb \in RingT(Hdr) /\ db \in RingT(Seq(Byte))
    /\ wr \in WrT /\ rd \in RdT /\ disk \in Seq(FileT) /\ ended \in Seq(Run)

-----------------------------------------------------------------------------
(* A ring.                                                                 *)

\* The first and last blocks of the transfers; -1 for one that is under way.
Starts(q) == [x \in 1..Len(q.xs) |-> q.xs[x].s]
Ends(q) == [x \in 1..Len(q.xs) |-> q.xs[x].e]

\* The m transfers lie one after the other on the len blocks ever filled.
Layout(len, m, w, S, E) ==
    /\ \A x \in 1..m :
          /\ S[x] >= 0 /\ S[x] = IF x = 1 THEN 0 ELSE E[x - 1] + 1
          /\ IF x = m /\ w = "WRITING" THEN E[x] = -1 /\ S[x] <= len
                                       ELSE S[x] <= E[x] /\ E[x] < len
    /\ IF w = "WRITING" THEN m > 0 ELSE len = IF m = 0 THEN 0 ELSE E[m] + 1

\* The blocks are filled, held open by the reader (o of them), or cleared.
Balance(len, full, clear, r, n, o) ==
    /\ r = clear /\ clear >= 0 /\ full >= 0
    /\ full + clear + o = len /\ len - clear <= n

\* The reader is in transfer rx + 1, or between two.
Position(m, S, E, clear, rx, h) ==
    /\ rx \in 0..m
    /\ IF h = "READING"
       THEN rx < m /\ S[rx + 1] <= clear /\ (E[rx + 1] = -1 \/ clear <= E[rx + 1])
       ELSE /\ clear = IF rx = 0 THEN 0 ELSE E[rx] + 1
            /\ rx > 0 => E[rx] >= 0

RingOk(q, n, o) ==
    /\ Layout(Len(q.blocks), Len(q.xs), q.w, Starts(q), Ends(q))
    /\ Balance(Len(q.blocks), q.full, q.clear, q.r, n, o)
    /\ Position(Len(q.xs), Starts(q), Ends(q), q.clear, q.rx, q.h)

-----------------------------------------------------------------------------
(* What the bytes are.                                                     *)

\* Run x of a write client is for the bytes from Start(x) on of Utc(x).
Utc(x) == ended[x].job.files[1].utc
Start(x) == IF ended[x].job.app = "diskdb" THEN ended[x].job.files[1].off ELSE 0

\* The bytes of observation u from p on.
From(seq, u, p) == \A n \in 1..Len(seq) : seq[n] = <<u, p + n - 1>>

\* Block k of transfer x, counted from 0.
InTransfer(q, x, k) == Starts(q)[x] <= k /\ (Ends(q)[x] = -1 \/ k <= Ends(q)[x])
DataOf(q) ==
    \A x \in 1..Len(q.xs), k \in 0..(Len(q.blocks) - 1) : InTransfer(q, x, k) =>
        /\ From(q.blocks[k + 1], Utc(x), Start(x) + (k - Starts(q)[x]) * BUFSZ)
        /\ k # Ends(q)[x] => Len(q.blocks[k + 1]) = BUFSZ
Data == DataOf(db)

Headers ==
    /\ Len(hb.xs) = Len(hb.blocks) /\ hb.w # "WRITING" /\ hb.h # "READING"
    /\ \A x \in 1..Len(hb.blocks) :
          /\ Starts(hb)[x] = x - 1 /\ Ends(hb)[x] = x - 1
          /\ hb.blocks[x].utc = Utc(x) /\ hb.blocks[x].off = Start(x)

-----------------------------------------------------------------------------
(* The write client.                                                       *)

Waiting(q) == IF q.w = "WCHANGE" THEN 1 ELSE 0
Active == wr.pc \in {"loop", "close", "stop"}

Counts ==
    /\ wr.job = Len(ended)
    /\ Len(hb.blocks) = Len(ended) - Waiting(hb) /\ Len(db.xs) = Len(ended) - Waiting(db)
    /\ wr.pc = "none" <=> hb.w = "DISCON"
    /\ wr.pc = "none" <=> db.w = "DISCON"
    /\ Active => hb.w = "WRITER"
    /\ wr.pc # "none" => wr.job > 0
    /\ hb.w = "WCHANGE" => db.w = "WCHANGE" /\ wr.cur = 1

HasJob ==
    wr.pc # "none" =>
        /\ wr.app = ended[wr.job].job.app /\ wr.files = ended[wr.job].job.files
        /\ wr.files # <<>> /\ wr.app # "" /\ Len(wr.sizes) > 0
        /\ wr.app = "diskdb" =>
              wr.cont = [k \in 1..Len(wr.files) |-> Continues(wr.files, k)]

\* Where the write client is in its files after done bytes.
At(cur, pos, done) ==
    /\ wr.app = "junkdb" => pos = done
    /\ wr.app = "diskdb" =>
          /\ cur \in 1..Len(wr.files) /\ pos \in 0..wr.files[cur].size
          /\ wr.files[cur].utc = Utc(wr.job)
          /\ wr.files[cur].off + pos = Start(wr.job) + done
Place == wr.pc = "loop" => wr.done >= 0 /\ At(wr.cur, wr.pos, wr.done)

\* The bytes of the transfer that are in blocks of the ring.
Base(q) == IF q.w = "WRITING" THEN Starts(q)[Len(q.xs)] ELSE Len(q.blocks)
Put(q) == (Len(q.blocks) - Base(q)) * BUFSZ

\* What the write client holds follows on what is in the ring.
Holding ==
    /\ Len(wr.blk) <= BUFSZ
    /\ ~wr.open => wr.blk = <<>>
    /\ wr.pc # "loop" => wr.buf = <<>>
    /\ wr.open => Active \/ wr.pc \in {"write", "failed"}
    /\ wr.open => db.w = "WRITING" /\ Room(db, NBUFS)
    /\ Active =>
         /\ wr.zc => ~wr.open /\ wr.buf = <<>>
         /\ ~wr.zc \/ wr.pc = "loop" => db.w # "WRITER"
         /\ db.w # "WRITER" =>
              /\ From(wr.blk, Utc(wr.job), Start(wr.job) + Put(db))
              /\ From(wr.buf, Utc(wr.job), Start(wr.job) + Put(db) + Len(wr.blk))
              /\ wr.pc = "loop" => wr.done = Put(db) + Len(wr.blk) + Len(wr.buf)

-----------------------------------------------------------------------------
(* The read client.                                                        *)

Reading == rd.pc \in {"transfer", "loop"}
X == hb.rx
Got == IF rd.pc = "loop" THEN rd.got ELSE 0
Open == IF rd.open THEN 1 ELSE 0
NextByte == rd.off + Got + Len(rd.buf)

\* The roles of the read client: header and data in step.
InStep ==
    /\ rd.open => Reading /\ db.h = "READING"
    /\ rd.pc \in {"none", "unlock"} => db.h # "READING"
    /\ rd.pc = "read" => db.h = "READER" /\ hb.h # "VIEWER"
    /\ Reading => hb.h = "RSTOP" /\ db.h # "VIEWER" /\ X >= 1
    /\ hb.rx = db.rx + IF Reading /\ db.h # "RSTOP" THEN 1 ELSE 0

\* The bytes that the read client has taken from the blocks of the transfer.
Taken ==
    IF db.h = "READER" THEN 0
    ELSE (db.r - Starts(db)[X]) * BUFSZ
         + IF rd.open THEN Len(db.blocks[db.r + 1]) - Len(rd.blk) ELSE 0

\* What the read client holds follows on what it has stored.
Carrying ==
    /\ rd.open <=> rd.blk # <<>>
    /\ rd.pc # "loop" => rd.buf = <<>> /\ rd.file = <<>>
    /\ rd.zc => ~rd.open /\ rd.buf = <<>>
    /\ Reading =>
         /\ rd.hdr.utc = Utc(X)
         /\ db.h # "RSTOP" => NextByte = Start(X) + Taken
         /\ From(rd.buf, Utc(X), rd.off + Got)
         /\ From(rd.blk, Utc(X), NextByte)
    /\ rd.pc = "loop" =>
         /\ rd.hdr.off = rd.off /\ rd.got >= 0 /\ From(rd.file, Utc(X), rd.off)
         /\ rd.app = "dbdisk" => Len(rd.file) = rd.got

Match == \A k \in 1..Len(disk) : From(disk[k].bytes, disk[k].utc, disk[k].off)

WriterSide == Data /\ Headers /\ Counts /\ HasJob /\ Place /\ Holding
ReaderSide == InStep /\ Carrying /\ Match
DataInv == ClientType /\ RingOk(hb, NHDR, 0) /\ RingOk(db, NBUFS, Open) /\ WriterSide /\ ReaderSide

-----------------------------------------------------------------------------
(* How the files follow on each other.                                     *)

Distinct == \A a, b \in 1..Len(ended) : ended[a].job = ended[b].job => a = b
Known == \A k \in 1..Len(disk) : \E x \in 1..hb.rx : disk[k].utc = Utc(x)

\* What a file is cut at.
Limit ==
    rd.pc = "loop" /\ rd.app = "dbdisk" =>
        /\ rd.want >= 0 /\ rd.hdr.fsize = rd.want
        /\ rd.want > 0 => (rd.off + rd.want) % RES = 0
        /\ rd.want > 0 /\ ~rd.zc => rd.got + Len(rd.buf) <= rd.want

\* The next file of the observation follows on the last one.
Follows ==
    rd.pc = "loop" \/ (rd.pc = "transfer" /\ ~Eod(db)) =>
        (Len(disk) > 0 /\ disk[Len(disk)].utc = Utc(X) =>
            LET f == disk[Len(disk)] IN
            /\ rd.app = "dbdisk" /\ f.zc = rd.zc
            /\ ~f.zc => rd.off = f.off + f.fsize /\ rd.off % RES = 0)

ChainInv == Distinct /\ Known /\ Limit /\ Follows /\ FilesChain
-----------------------------------------------------------------------------
(* What the calls of the ring do to its transfers, in numbers.             *)

\* A transfer is added to m others.
OneMore(len, m, w, S, E, S2, E2) ==
    /\ len \in Nat /\ m \in Nat /\ w # "WRITING"
    /\ S \in [1..m -> Int] /\ E \in [1..m -> Int] /\ Layout(len, m, w, S, E)
    /\ S2 \in [1..(m + 1) -> Int] /\ E2 \in [1..(m + 1) -> Int]
    /\ \A x \in 1..m : S2[x] = S[x] /\ E2[x] = E[x]
    /\ S2[m + 1] = len /\ E2[m + 1] = -1

LEMMA LayoutStarted ==
  ASSUME NEW len, NEW m, NEW w, NEW S, NEW E, NEW S2, NEW E2, OneMore(len, m, w, S, E, S2, E2)
  PROVE  Layout(len, m + 1, "WRITING", S2, E2)
  <1> USE DEF OneMore
  <1>1. ASSUME NEW x \in 1..m
        PROVE  /\ S2[x] >= 0 /\ S2[x] = IF x = 1 THEN 0 ELSE E2[x - 1] + 1
               /\ S2[x] <= E2[x] /\ E2[x] < len
    BY DEF Layout
  <1>2. len = IF m = 0 THEN 0 ELSE E[m] + 1
    BY DEF Layout
  <1>3. S2[m + 1] = IF m + 1 = 1 THEN 0 ELSE E2[(m + 1) - 1] + 1
    BY <1>2
  <1>4. ASSUME NEW x \in 1..(m + 1)
        PROVE  /\ S2[x] >= 0 /\ S2[x] = IF x = 1 THEN 0 ELSE E2[x - 1] + 1
               /\ IF x = m + 1 THEN E2[x] = -1 /\ S2[x] <= len
                               ELSE S2[x] <= E2[x] /\ E2[x] < len
    <2>1. CASE x = m + 1
      BY <1>3, <2>1
    <2>2. CASE x # m + 1
      <3>1. x \in 1..m
        BY <2>2
      <3> QED BY <1>1, <2>2, <3>1
    <2> QED BY <2>1, <2>2
  <1> QED BY <1>4 DEF Layout

\* A block is added to the last of m transfers.
OneBlock(len, m, w2, S, E, E2) ==
    /\ len \in Nat /\ m \in Nat
    /\ S \in [1..m -> Int] /\ E \in [1..m -> Int] /\ Layout(len, m, "WRITING", S, E)
    /\ E2 \in [1..m -> Int] /\ \A x \in 1..m : x # m => E2[x] = E[x]
    /\ IF w2 = "WRITING" THEN E2[m] = -1 ELSE E2[m] = len

LEMMA LayoutFilled ==
  ASSUME NEW len, NEW m, NEW w2, NEW S, NEW E, NEW E2, OneBlock(len, m, w2, S, E, E2)
  PROVE  Layout(len + 1, m, w2, S, E2)
  <1> USE DEF OneBlock
  <1>1. m > 0 /\ E[m] = -1 /\ S[m] <= len /\ S[m] >= 0
    BY DEF Layout
  <1>2. ASSUME NEW x \in 1..m
        PROVE  /\ S[x] >= 0 /\ S[x] = IF x = 1 THEN 0 ELSE E2[x - 1] + 1
               /\ x # m => S[x] <= E2[x] /\ E2[x] < len + 1
    <2>1. /\ S[x] >= 0 /\ S[x] = IF x = 1 THEN 0 ELSE E[x - 1] + 1
          /\ x # m => S[x] <= E[x] /\ E[x] < len
      BY DEF Layout
    <2>2. x # 1 => x - 1 \in 1..m /\ x - 1 # m
      OBVIOUS
    <2>3. (x # 1 => E2[x - 1] = E[x - 1]) /\ (x # m => E2[x] = E[x])
      BY <2>2
    <2>4. E[x] \in Int
      OBVIOUS
    <2> QED BY <2>1, <2>3, <2>4
  <1>3. CASE w2 = "WRITING"
    BY <1>1, <1>2, <1>3 DEF Layout
  <1>4. CASE w2 # "WRITING"
    <2>1. \A x \in 1..m : S[x] <= E2[x] /\ E2[x] < len + 1
      BY <1>1, <1>2, <1>4
    <2>2. len + 1 = IF m = 0 THEN 0 ELSE E2[m] + 1
      BY <1>1, <1>4
    <2> QED BY <1>2, <1>4, <2>1, <2>2 DEF Layout
  <1> QED BY <1>3, <1>4

LEMMA PositionStarted ==
  ASSUME NEW m \in Nat, NEW S \in [1..m -> Int], NEW E \in [1..m -> Int],
         NEW clear \in Int, NEW rx \in Int, NEW h, Position(m, S, E, clear, rx, h),
         NEW S2 \in [1..(m + 1) -> Int], NEW E2 \in [1..(m + 1) -> Int],
         \A x \in 1..m : S2[x] = S[x] /\ E2[x] = E[x]
  PROVE  Position(m + 1, S2, E2, clear, rx, h)
  <1>1. rx \in 0..m
    BY DEF Position
  <1>2. CASE h = "READING"
    BY <1>1, <1>2 DEF Position
  <1>3. CASE h # "READING"
    BY <1>1, <1>3 DEF Position
  <1> QED BY <1>2, <1>3

LEMMA PositionFilled ==
  ASSUME NEW len, NEW m, NEW w2, NEW S, NEW E, NEW E2, OneBlock(len, m, w2, S, E, E2),
         NEW clear \in Int, clear <= len, NEW rx \in Int, NEW h,
         Position(m, S, E, clear, rx, h)
  PROVE  Position(m, S, E2, clear, rx, h)
  <1> USE DEF OneBlock
  <1>1. m > 0 /\ E[m] = -1
    BY DEF Layout
  <1>2. rx \in 0..m
    BY DEF Position
  <1>3. CASE h = "READING"
    BY <1>1, <1>2, <1>3 DEF Position
  <1>4. CASE h # "READING"
    <2>1. rx # m
      BY <1>1, <1>2, <1>4 DEF Position
    <2> QED BY <1>1, <1>2, <1>4, <2>1 DEF Position
  <1> QED BY <1>3, <1>4

LEMMA BalanceFilled ==
  ASSUME NEW len \in Nat, NEW full \in Int, NEW clear \in Int, NEW r \in Int, NEW n \in Int,
         NEW o \in Int, o >= 0, Balance(len, full, clear, r, n, o), len - clear < n
  PROVE  Balance(len + 1, full + 1, clear, r, n, o)
  BY DEF Balance

LEMMA BalanceOpened ==
  ASSUME NEW len \in Nat, NEW full \in Int, NEW clear \in Int, NEW r \in Int, NEW n \in Int,
         Balance(len, full, clear, r, n, 0), full > 0
  PROVE  Balance(len, full - 1, clear, r, n, 1)
  BY DEF Balance

LEMMA BalanceCleared ==
  ASSUME NEW len \in Nat, NEW full \in Int, NEW clear \in Int, NEW r \in Int, NEW n \in Int,
         Balance(len, full, clear, r, n, 1)
  PROVE  Balance(len, full, clear + 1, r + 1, n, 0)
  BY DEF Balance

\* A block that is filled and not cleared belongs to transfer rx + 1.
LEMMA PositionOpened ==
  ASSUME NEW len \in Nat, NEW m \in Nat, NEW w,
         NEW S \in [1..m -> Int], NEW E \in [1..m -> Int], Layout(len, m, w, S, E),
         NEW clear \in Int, clear < len, NEW rx \in Int, NEW h,
         Position(m, S, E, clear, rx, h)
  PROVE  /\ Position(m, S, E, clear, rx, "READING") /\ rx + 1 \in 1..m
         /\ h # "READING" => clear = S[rx + 1]
         /\ S[rx + 1] <= clear /\ (E[rx + 1] = -1 \/ clear <= E[rx + 1])
  <1>1. rx \in 0..m
    BY DEF Position
  <1>2. CASE h = "READING"
    BY <1>1, <1>2 DEF Position
  <1>3. CASE h # "READING"
    <2>1. clear = IF rx = 0 THEN 0 ELSE E[rx] + 1
      BY <1>3 DEF Position
    <2>2. rx > 0 => E[rx] >= 0
      BY <1>3 DEF Position
    <2>3. rx # m
      <3>1. CASE w = "WRITING" /\ rx = m
        <4>1. m > 0 /\ E[m] = -1
          BY <3>1 DEF Layout
        <4> QED BY <2>2, <3>1, <4>1
      <3>2. CASE w # "WRITING" /\ rx = m
        <4>1. len = IF m = 0 THEN 0 ELSE E[m] + 1
          BY <3>2 DEF Layout
        <4> QED BY <2>1, <3>2, <4>1
      <3> QED BY <3>1, <3>2
    <2>4. rx + 1 \in 1..m /\ (rx + 1) - 1 = rx /\ (rx + 1 = 1 <=> rx = 0)
      BY <1>1, <2>3
    <2>5. S[rx + 1] = IF rx = 0 THEN 0 ELSE E[rx] + 1
      BY <2>4 DEF Layout
    <2>6. E[rx + 1] = -1 \/ S[rx + 1] <= E[rx + 1]
      BY <2>4 DEF Layout
    <2> QED BY <1>1, <2>1, <2>4, <2>5, <2>6 DEF Position
  <1> QED BY <1>2, <1>3

LEMMA PositionCleared ==
  ASSUME NEW m \in Nat, NEW S \in [1..m -> Int], NEW E \in [1..m -> Int],
         NEW clear \in Int, clear >= 0, NEW rx \in Int,
         Position(m, S, E, clear, rx, "READING"),
         NEW rx2 \in Int, NEW h2,
         IF E[rx + 1] = clear THEN rx2 = rx + 1 /\ h2 # "READING"
                              ELSE rx2 = rx /\ h2 = "READING"
  PROVE  Position(m, S, E, clear + 1, rx2, h2)
  <1>1. rx \in 0..m /\ rx + 1 \in 1..m
    BY DEF Position
  <1>2. CASE E[rx + 1] = clear
    BY <1>1, <1>2 DEF Position
  <1>3. CASE E[rx + 1] # clear
    BY <1>1, <1>3 DEF Position
  <1> QED BY <1>2, <1>3

-----------------------------------------------------------------------------
(* What the calls of the ring do to it.                                    *)

WStates == {"DISCON", "WCHANGE", "WRITING", "WRITER"}
HStates == {"VIEWER", "READER", "READING", "RSTOP"}

LEMMA XferIs ==
  ASSUME NEW xs \in Seq(Xfer)
  PROVE  Len(xs) \in Nat /\ \A x \in 1..Len(xs) : xs[x] \in Xfer /\ xs[x].s \in Int /\ xs[x].e \in Int
  <1>1. Len(xs) \in Nat /\ \A x \in 1..Len(xs) : xs[x] \in Xfer
    OBVIOUS
  <1> QED BY <1>1 DEF Xfer

LEMMA XferEnds ==
  ASSUME NEW x \in Xfer, NEW e \in Int
  PROVE  [x EXCEPT !.e = e] \in Xfer /\ [x EXCEPT !.e = e].s = x.s /\ [x EXCEPT !.e = e].e = e
  BY DEF Xfer

LEMMA RingIs ==
  ASSUME NEW B, NEW q \in RingT(B)
  PROVE  /\ q.blocks \in Seq(B) /\ Len(q.blocks) \in Nat
         /\ q.xs \in Seq(Xfer) /\ Len(q.xs) \in Nat
         /\ q.w \in WStates /\ q.h \in HStates
         /\ q.full \in Int /\ q.clear \in Int /\ q.r \in Int /\ q.rx \in Int
         /\ Starts(q) \in [1..Len(q.xs) -> Int] /\ Ends(q) \in [1..Len(q.xs) -> Int]
         /\ q = [blocks |-> q.blocks, xs |-> q.xs, w |-> q.w, full |-> q.full,
                 clear |-> q.clear, r |-> q.r, rx |-> q.rx, h |-> q.h]
  <1>1. /\ q.blocks \in Seq(B) /\ q.xs \in Seq(Xfer)
        /\ q.w \in WStates /\ q.h \in HStates
        /\ q.full \in Int /\ q.clear \in Int /\ q.r \in Int /\ q.rx \in Int
        /\ q = [blocks |-> q.blocks, xs |-> q.xs, w |-> q.w, full |-> q.full,
                clear |-> q.clear, r |-> q.r, rx |-> q.rx, h |-> q.h]
    BY DEF RingT, WStates, HStates
  <1>2. /\ Len(q.blocks) \in Nat /\ Len(q.xs) \in Nat
        /\ \A x \in 1..Len(q.xs) : q.xs[x].s \in Int /\ q.xs[x].e \in Int
    BY <1>1, XferIs
  <1> QED BY <1>1, <1>2 DEF Starts, Ends

\* The first block of a transfer.
LEMMA StartedIs ==
  ASSUME NEW B, NEW q \in RingT(B), NEW n, NEW o, RingOk(q, n, o),
         q.w \in {"WCHANGE", "WRITING"}
  PROVE  LET z == Started(q) IN
         /\ z \in RingT(B) /\ RingOk(z, n, o) /\ z.w = "WRITING"
         /\ z.blocks = q.blocks /\ z.full = q.full /\ z.clear = q.clear /\ z.r = q.r
         /\ z.rx = q.rx /\ z.h = q.h
         /\ q.w = "WRITING" => z = q
         /\ q.w = "WCHANGE" => /\ Len(z.xs) = Len(q.xs) + 1
                               /\ Starts(z)[Len(z.xs)] = Len(q.blocks)
                               /\ Ends(z)[Len(z.xs)] = -1
         /\ \A x \in 1..Len(q.xs) : Starts(z)[x] = Starts(q)[x] /\ Ends(z)[x] = Ends(q)[x]
  <1>1. CASE q.w = "WRITING"
    BY <1>1 DEF Started
  <1>2. CASE q.w = "WCHANGE"
    <2> DEFINE t == [s |-> Len(q.blocks), e |-> -1]
               xs == Append(q.xs, t)
               z == [q EXCEPT !.w = "WRITING", !.xs = xs]
    <2>1. Started(q) = z
      BY <1>2, Zenon DEF Started
    <2>2. q.xs \in Seq(Xfer) /\ Len(q.blocks) \in Nat /\ t \in Xfer /\ Len(q.xs) \in Nat
          /\ t.s = Len(q.blocks) /\ t.e = -1
      BY RingIs DEF Xfer
    <2>3. /\ xs \in Seq(Xfer) /\ Len(xs) = Len(q.xs) + 1 /\ xs[Len(q.xs) + 1] = t
          /\ \A x \in 1..Len(q.xs) : xs[x] = q.xs[x]
      BY <2>2
    <2> HIDE DEF xs
    <2>4. /\ z \in RingT(B)
          /\ z.w = "WRITING" /\ z.xs = xs
          /\ z.blocks = q.blocks /\ z.full = q.full /\ z.clear = q.clear /\ z.r = q.r
          /\ z.rx = q.rx /\ z.h = q.h
      BY <2>3 DEF RingT
    <2> HIDE DEF z
    <2>5. /\ Starts(z)[Len(q.xs) + 1] = Len(q.blocks) /\ Ends(z)[Len(q.xs) + 1] = -1
          /\ \A x \in 1..Len(q.xs) : Starts(z)[x] = Starts(q)[x] /\ Ends(z)[x] = Ends(q)[x]
      <3> HIDE DEF t
      <3> QED BY <2>2, <2>3, <2>4 DEF Starts, Ends
    <2>6. /\ Starts(z) \in [1..(Len(q.xs) + 1) -> Int] /\ Ends(z) \in [1..(Len(q.xs) + 1) -> Int]
          /\ Starts(q) \in [1..Len(q.xs) -> Int] /\ Ends(q) \in [1..Len(q.xs) -> Int]
          /\ q.clear \in Int /\ q.rx \in Int
      BY <2>3, <2>4, RingIs
    <2>7. Layout(Len(q.blocks), Len(q.xs) + 1, "WRITING", Starts(z), Ends(z))
      <3>1. Layout(Len(q.blocks), Len(q.xs), q.w, Starts(q), Ends(q))
        BY DEF RingOk
      <3> DEFINE len == Len(q.blocks)
                 m == Len(q.xs)
                 S == Starts(q)
                 E == Ends(q)
                 S2 == Starts(z)
                 E2 == Ends(z)
      <3>2. len \in Nat /\ m \in Nat /\ q.w # "WRITING" /\ Layout(len, m, q.w, S, E)
        BY <1>2, <2>2, <3>1
      <3>3. /\ S2 \in [1..(m + 1) -> Int] /\ E2 \in [1..(m + 1) -> Int]
            /\ S \in [1..m -> Int] /\ E \in [1..m -> Int]
            /\ S2[m + 1] = len /\ E2[m + 1] = -1
            /\ \A x \in 1..m : S2[x] = S[x] /\ E2[x] = E[x]
        BY <2>5, <2>6
      <3> HIDE DEF len, m, S, E, S2, E2
      <3>4. Layout(len, m + 1, "WRITING", S2, E2)
        <4>1. OneMore(len, m, q.w, S, E, S2, E2)
          BY <3>2, <3>3 DEF OneMore
        <4> QED BY <4>1, LayoutStarted
      <3> QED BY <3>4 DEF len, m, S2, E2
    <2>8. Position(Len(q.xs) + 1, Starts(z), Ends(z), q.clear, q.rx, q.h)
      BY <2>2, <2>5, <2>6, PositionStarted DEF RingOk
    <2>9. RingOk(z, n, o)
      BY <2>3, <2>4, <2>7, <2>8 DEF RingOk
    <2> QED BY <1>2, <2>1, <2>3, <2>4, <2>5, <2>9
  <1> QED BY <1>1, <1>2

\* Quotient and remainder.
LEMMA Division ==
    ASSUME NEW n \in Nat, n > 0, NEW a \in Int
    PROVE  a = n * (a \div n) + (a % n) /\ a \div n \in Int /\ a % n \in 0..(n - 1)
  OBVIOUS

\* A window of n successive numbers has every remainder once.
LEMMA ModDistinct ==
    ASSUME NEW n \in Nat, n > 0, NEW a \in Int, NEW b \in Int, a < b, b < a + n
    PROVE  a % n # b % n
  <1> DEFINE c == a \div n
             d == b \div n
             r == a % n
  <1> SUFFICES ASSUME r = b % n PROVE FALSE
    OBVIOUS
  <1>1. c \in Int /\ d \in Int /\ r \in Int /\ a = n * c + r /\ b = n * d + r
    BY Division
  <1> HIDE DEF c, d, r
  <1>2. n * d - n * c = b - a
    BY <1>1
  <1>3. CASE d <= c
    <2>1. n * d <= n * c
      BY <1>1, <1>3
    <2> QED BY <1>1, <1>2, <2>1
  <1>4. CASE d >= c + 1
    <2>1. n * d >= n * c + n
      BY <1>1, <1>4
    <2> QED BY <1>1, <1>2, <2>1
  <1> QED BY <1>1, <1>3, <1>4

\* A block is filled, the last one of its transfer or not.
LEMMA FilledIs ==
  ASSUME NEW B, NEW q \in RingT(B), NEW n \in Int, NEW o \in Int, o >= 0, RingOk(q, n, o),
         q.w = "WRITING", Len(q.blocks) - q.clear < n, NEW b \in B, NEW eod \in BOOLEAN
  PROVE  LET z == Filled(q, b, eod) IN
         /\ z \in RingT(B) /\ RingOk(z, n, o)
         /\ z.w = (IF eod THEN "WRITER" ELSE "WRITING")
         /\ z.blocks = Append(q.blocks, b) /\ z.full = q.full + 1 /\ z.clear = q.clear
         /\ z.r = q.r /\ z.rx = q.rx /\ z.h = q.h
         /\ Len(z.xs) = Len(q.xs) /\ Len(q.xs) > 0
         /\ \A x \in 1..Len(q.xs) : Starts(z)[x] = Starts(q)[x]
         /\ \A x \in 1..Len(q.xs) : x # Len(q.xs) => Ends(z)[x] = Ends(q)[x]
         /\ Ends(q)[Len(q.xs)] = -1
         /\ Ends(z)[Len(q.xs)] = (IF eod THEN Len(q.blocks) ELSE -1)
  <1> DEFINE m == Len(q.xs)
             len == Len(q.blocks)
             t == [q.xs[m] EXCEPT !.e = len]
             xs == IF eod THEN [q.xs EXCEPT ![m].e = len] ELSE q.xs
             bs == Append(q.blocks, b)
             f == q.full + 1
             w2 == IF eod THEN "WRITER" ELSE q.w
             z == [q EXCEPT !.blocks = bs, !.full = f, !.w = w2, !.xs = xs]
  <1>1. Filled(q, b, eod) = z
    BY Zenon DEF Filled
  <1>2. /\ q.xs \in Seq(Xfer) /\ m \in Nat /\ q.blocks \in Seq(B) /\ len \in Nat
        /\ q.full \in Int /\ q.clear \in Int /\ q.rx \in Int /\ q.r \in Int
        /\ Starts(q) \in [1..m -> Int] /\ Ends(q) \in [1..m -> Int]
    BY RingIs
  <1>3. /\ Layout(len, m, "WRITING", Starts(q), Ends(q)) /\ Position(m, Starts(q), Ends(q), q.clear, q.rx, q.h)
        /\ Balance(len, q.full, q.clear, q.r, n, o)
    BY DEF RingOk
  <1>4. m \in 1..m /\ Ends(q)[m] = -1
    <2>1. m > 0
      BY <1>3 DEF Layout
    <2>2. Layout(len, m, "WRITING", Starts(q), Ends(q))
      BY <1>3
    <2> HIDE DEF len, m
    <2>3. m \in 1..m
      BY <1>2, <2>1
    <2>4. Ends(q)[m] = -1
      BY <2>2, <2>3 DEF Layout
    <2> QED BY <2>3, <2>4
  <1>5. /\ xs \in Seq(Xfer) /\ Len(xs) = m
        /\ \A x \in 1..m : xs[x].s = q.xs[x].s
        /\ \A x \in 1..m : xs[x].e = IF eod /\ x = m THEN len ELSE q.xs[x].e
    <2>1. CASE eod
      <3>1. xs = [q.xs EXCEPT ![m] = t]
        BY <2>1, Zenon
      <3>2. q.xs[m] \in Xfer
        BY <1>2, <1>4, XferIs
      <3>3. t \in Xfer /\ t.s = q.xs[m].s /\ t.e = len
        BY <1>2, <3>2, XferEnds
      <3> HIDE DEF t, xs
      <3>4. xs \in Seq(Xfer) /\ Len(xs) = m /\ \A x \in 1..m : xs[x] = IF x = m THEN t ELSE q.xs[x]
        BY <1>2, <1>4, <3>1, <3>3, ExceptSeq
      <3> QED BY <2>1, <3>3, <3>4
    <2>2. CASE ~eod
      BY <1>2, <2>2
    <2> QED BY <2>1, <2>2
  <1> HIDE DEF xs
  <1>6. bs \in Seq(B) /\ Len(bs) = len + 1 /\ f \in Int /\ w2 \in {"WRITER", "WRITING"}
    BY <1>2
  <1> HIDE DEF bs, f
  <1>7. /\ z \in RingT(B) /\ z.w = w2 /\ z.blocks = bs /\ z.full = f /\ z.xs = xs
        /\ z.clear = q.clear /\ z.r = q.r /\ z.rx = q.rx /\ z.h = q.h
    BY <1>5, <1>6 DEF RingT
  <1> HIDE DEF z
  <1>8. /\ Starts(z) \in [1..m -> Int] /\ Ends(z) \in [1..m -> Int]
    BY <1>5, <1>7, RingIs
  <1>9. /\ \A x \in 1..m : Starts(z)[x] = Starts(q)[x]
        /\ \A x \in 1..m : x # m => Ends(z)[x] = Ends(q)[x]
        /\ Ends(z)[m] = IF eod THEN len ELSE Ends(q)[m]
    <2>1. \A x \in 1..m : Starts(z)[x] = xs[x].s /\ Ends(z)[x] = xs[x].e
      BY <1>5, <1>7 DEF Starts, Ends
    <2>2. \A x \in 1..m : Starts(q)[x] = q.xs[x].s /\ Ends(q)[x] = q.xs[x].e
      BY DEF Starts, Ends
    <2> QED BY <1>4, <1>5, <2>1, <2>2
  <1>10. Starts(z) = Starts(q)
    <2>1. Starts(z) = [x \in 1..m |-> xs[x].s]
      BY <1>5, <1>7, Zenon DEF Starts
    <2>2. Starts(q) = [x \in 1..m |-> q.xs[x].s]
      BY Zenon DEF Starts
    <2> QED BY <1>5, <2>1, <2>2, Zenon
  <1>11. OneBlock(len, m, w2, Starts(q), Ends(q), Ends(z))
    <2> DEFINE S == Starts(q)
               E == Ends(q)
               E2 == Ends(z)
    <2>1. /\ len \in Nat /\ m \in Nat /\ S \in [1..m -> Int] /\ E \in [1..m -> Int]
          /\ Layout(len, m, "WRITING", S, E) /\ E2 \in [1..m -> Int]
      BY <1>2, <1>3, <1>8
    <2>2. \A x \in 1..m : x # m => E2[x] = E[x]
      BY <1>9
    <2>3. IF w2 = "WRITING" THEN E2[m] = -1 ELSE E2[m] = len
      BY <1>4, <1>9
    <2> HIDE DEF len, m, S, E, E2, w2
    <2>4. OneBlock(len, m, w2, S, E, E2)
      BY <2>1, <2>2, <2>3 DEF OneBlock
    <2> QED BY <2>4 DEF S, E, E2
  <1>12. Layout(len + 1, m, w2, Starts(q), Ends(z))
    BY <1>11, LayoutFilled
  <1>13. Position(m, Starts(q), Ends(z), q.clear, q.rx, q.h)
    <2>1. q.clear <= len
      BY <1>2, <1>3 DEF Balance
    <2> QED BY <1>2, <1>3, <1>11, <2>1, PositionFilled
  <1>14. Balance(len + 1, f, q.clear, q.r, n, o)
    <2>1. len - q.clear < n
      OBVIOUS
    <2> HIDE DEF len
    <2> QED BY <1>2, <1>3, <2>1, BalanceFilled DEF f
  <1>15. RingOk(z, n, o)
    BY <1>5, <1>6, <1>7, <1>10, <1>12, <1>13, <1>14 DEF RingOk
  <1> QED BY <1>1, <1>4, <1>5, <1>7, <1>9, <1>15 DEF bs, f

\* The block that ends a transfer, and one that does not.
LastFilled(B, q, n, o, b, z) ==
    /\ z \in RingT(B) /\ RingOk(z, n, o) /\ z.w = "WRITER"
    /\ z.blocks = Append(q.blocks, b) /\ z.full = q.full + 1 /\ z.clear = q.clear
    /\ z.r = q.r /\ z.rx = q.rx /\ z.h = q.h
    /\ Len(z.xs) = Len(q.xs) /\ Len(q.xs) > 0
    /\ \A x \in 1..Len(q.xs) : Starts(z)[x] = Starts(q)[x]
    /\ \A x \in 1..Len(q.xs) : x # Len(q.xs) => Ends(z)[x] = Ends(q)[x]
    /\ Ends(z)[Len(q.xs)] = Len(q.blocks)

LEMMA LastFilledIs ==
  ASSUME NEW B, NEW q \in RingT(B), NEW n \in Int, NEW o \in Int, o >= 0, RingOk(q, n, o),
         q.w = "WRITING", Len(q.blocks) - q.clear < n, NEW b \in B
  PROVE  LastFilled(B, q, n, o, b, Filled(q, b, TRUE))
  <1> DEFINE eod == TRUE
             y == Filled(q, b, eod)
  <1>1. eod \in BOOLEAN
    OBVIOUS
  <1>2. eod = TRUE /\ Filled(q, b, TRUE) = y
    OBVIOUS
  <1> HIDE DEF eod
  <1>3. /\ y \in RingT(B) /\ RingOk(y, n, o)
        /\ y.w = (IF eod THEN "WRITER" ELSE "WRITING")
        /\ y.blocks = Append(q.blocks, b) /\ y.full = q.full + 1 /\ y.clear = q.clear
        /\ y.r = q.r /\ y.rx = q.rx /\ y.h = q.h
        /\ Len(y.xs) = Len(q.xs) /\ Len(q.xs) > 0
        /\ \A x \in 1..Len(q.xs) : Starts(y)[x] = Starts(q)[x]
        /\ \A x \in 1..Len(q.xs) : x # Len(q.xs) => Ends(y)[x] = Ends(q)[x]
        /\ Ends(y)[Len(q.xs)] = (IF eod THEN Len(q.blocks) ELSE -1)
    BY <1>1, FilledIs
  <1> HIDE DEF y
  <1>4. LastFilled(B, q, n, o, b, y)
    BY <1>2, <1>3 DEF LastFilled
  <1> QED BY <1>2, <1>4

NextFilled(B, q, n, o, b, z) ==
    /\ z \in RingT(B) /\ RingOk(z, n, o) /\ z.w = "WRITING"
    /\ z.blocks = Append(q.blocks, b) /\ z.full = q.full + 1 /\ z.clear = q.clear
    /\ z.r = q.r /\ z.rx = q.rx /\ z.h = q.h
    /\ Len(z.xs) = Len(q.xs) /\ Len(q.xs) > 0
    /\ \A x \in 1..Len(q.xs) : Starts(z)[x] = Starts(q)[x]
    /\ \A x \in 1..Len(q.xs) : x # Len(q.xs) => Ends(z)[x] = Ends(q)[x]
    /\ Ends(z)[Len(q.xs)] = -1

LEMMA NextFilledIs ==
  ASSUME NEW B, NEW q \in RingT(B), NEW n \in Int, NEW o \in Int, o >= 0, RingOk(q, n, o),
         q.w = "WRITING", Len(q.blocks) - q.clear < n, NEW b \in B
  PROVE  NextFilled(B, q, n, o, b, Filled(q, b, FALSE))
  <1> DEFINE eod == FALSE
             y == Filled(q, b, eod)
  <1>1. eod \in BOOLEAN
    OBVIOUS
  <1>2. eod = FALSE /\ Filled(q, b, FALSE) = y
    OBVIOUS
  <1> HIDE DEF eod
  <1>3. /\ y \in RingT(B) /\ RingOk(y, n, o)
        /\ y.w = (IF eod THEN "WRITER" ELSE "WRITING")
        /\ y.blocks = Append(q.blocks, b) /\ y.full = q.full + 1 /\ y.clear = q.clear
        /\ y.r = q.r /\ y.rx = q.rx /\ y.h = q.h
        /\ Len(y.xs) = Len(q.xs) /\ Len(q.xs) > 0
        /\ \A x \in 1..Len(q.xs) : Starts(y)[x] = Starts(q)[x]
        /\ \A x \in 1..Len(q.xs) : x # Len(q.xs) => Ends(y)[x] = Ends(q)[x]
        /\ Ends(y)[Len(q.xs)] = (IF eod THEN Len(q.blocks) ELSE -1)
    BY <1>1, FilledIs
  <1> HIDE DEF y
  <1>4. NextFilled(B, q, n, o, b, y)
    BY <1>2, <1>3 DEF NextFilled
  <1> QED BY <1>2, <1>4

\* The buffer at the reader's position holds the block it is at.
LEMMA BlockIs ==
  ASSUME NEW B, NEW q \in RingT(B), NEW n \in Nat \ {0}, NEW o, RingOk(q, n, o),
         q.clear < Len(q.blocks)
  PROVE  /\ Block(q, n) = q.blocks[q.r + 1] /\ q.r \in 0..(Len(q.blocks) - 1)
         /\ Block(q, n) \in B
  <1> DEFINE len == Len(q.blocks)
             Is(k) == k % n = q.r % n /\ k + n >= len
  <1>1. len \in Nat /\ q.r \in Int /\ q.r = q.clear /\ q.r >= 0 /\ q.r < len /\ len - q.r <= n
        /\ q.blocks \in Seq(B)
    BY RingIs DEF RingOk, Balance
  <1>2. Is(q.r) /\ q.r \in 0..(len - 1)
    BY <1>1
  <1>3. ASSUME NEW k \in 0..(len - 1), Is(k) PROVE k = q.r
    <2> DEFINE r == q.r
    <2>1. k \in Int /\ r \in Int /\ n \in Nat /\ n > 0 /\ k < r + n /\ r < k + n
      BY <1>1, <1>3, SMTT(30)
    <2>2. k % n = r % n
      BY <1>3
    <2> HIDE DEF r
    <2>3. ~(k < r) /\ ~(r < k)
      BY <2>1, <2>2, ModDistinct
    <2>4. k = r
      BY <2>1, <2>3
    <2> QED BY <2>4 DEF r
  <1> DEFINE c == CHOOSE k \in 0..(len - 1) : Is(k)
  <1>4. Block(q, n) = q.blocks[c + 1]
    BY Zenon DEF Block
  <1> HIDE DEF Is
  <1>5. c = q.r
    BY <1>2, <1>3
  <1> HIDE DEF c
  <1>6. q.r + 1 \in 1..len /\ Block(q, n) = q.blocks[q.r + 1]
    <2> HIDE DEF len
    <2> QED BY <1>1, <1>4, <1>5
  <1>7. q.blocks[q.r + 1] \in B
    BY <1>1, <1>6, ElementOfSeq
  <1> QED BY <1>1, <1>2, <1>6, <1>7

\* A reader gets a block.
LEMMA OpenedIs ==
  ASSUME NEW B, NEW q \in RingT(B), NEW n \in Int, RingOk(q, n, 0), q.full > 0,
         q.h \in {"READER", "READING"}
  PROVE  LET z == Opened(q) IN
         /\ z \in RingT(B) /\ RingOk(z, n, 1) /\ z.h = "READING"
         /\ z.w = q.w /\ z.blocks = q.blocks /\ z.xs = q.xs
         /\ z.clear = q.clear /\ z.r = q.r /\ z.rx = q.rx
         /\ q.clear < Len(q.blocks) /\ q.rx + 1 \in 1..Len(q.xs)
         /\ q.h = "READER" => q.r = Starts(q)[q.rx + 1]
         /\ Starts(q)[q.rx + 1] <= q.r
         /\ Ends(q)[q.rx + 1] = -1 \/ q.r <= Ends(q)[q.rx + 1]
  <1> DEFINE m == Len(q.xs)
             len == Len(q.blocks)
             f == q.full - 1
             r2 == IF q.h = "READER" THEN q.xs[q.rx + 1].s ELSE q.r
             z == [q EXCEPT !.full = f, !.h = "READING", !.r = r2]
  <1>1. Opened(q) = z
    BY Zenon DEF Opened
  <1>2. /\ m \in Nat /\ len \in Nat /\ q.full \in Int /\ q.clear \in Int /\ q.rx \in Int /\ q.r \in Int
        /\ Starts(q) \in [1..m -> Int] /\ Ends(q) \in [1..m -> Int] /\ f \in Int
    BY RingIs
  <1>3. /\ Layout(len, m, q.w, Starts(q), Ends(q)) /\ Position(m, Starts(q), Ends(q), q.clear, q.rx, q.h)
        /\ Balance(len, q.full, q.clear, q.r, n, 0)
    BY DEF RingOk
  <1>4. q.clear < len /\ q.clear = q.r
    BY <1>2, <1>3 DEF Balance
  <1>5. /\ Position(m, Starts(q), Ends(q), q.clear, q.rx, "READING") /\ q.rx + 1 \in 1..m
        /\ q.h # "READING" => q.clear = Starts(q)[q.rx + 1]
        /\ Starts(q)[q.rx + 1] <= q.clear /\ (Ends(q)[q.rx + 1] = -1 \/ q.clear <= Ends(q)[q.rx + 1])
    BY <1>2, <1>3, <1>4, PositionOpened
  <1>6. r2 = q.r
    BY <1>4, <1>5 DEF Starts
  <1> HIDE DEF r2, f
  <1>7. /\ z \in RingT(B) /\ z.h = "READING" /\ z.full = f
        /\ z.w = q.w /\ z.blocks = q.blocks /\ z.xs = q.xs
        /\ z.clear = q.clear /\ z.r = q.r /\ z.rx = q.rx
    BY <1>2, <1>6 DEF RingT
  <1> HIDE DEF z
  <1>8. Starts(z) = Starts(q) /\ Ends(z) = Ends(q)
    BY <1>7 DEF Starts, Ends
  <1>9. Balance(len, f, q.clear, q.r, n, 1)
    <2> HIDE DEF len
    <2> QED BY <1>2, <1>3, BalanceOpened DEF f
  <1>10. RingOk(z, n, 1)
    BY <1>3, <1>5, <1>7, <1>8, <1>9 DEF RingOk
  <1> QED BY <1>1, <1>4, <1>5, <1>7, <1>10

\* A reader gives a block back.
LEMMA ClearedIs ==
  ASSUME NEW B, NEW q \in RingT(B), NEW n \in Int, RingOk(q, n, 1), q.h = "READING"
  PROVE  LET z == Cleared(q) IN
         /\ z \in RingT(B) /\ RingOk(z, n, 0)
         /\ z.w = q.w /\ z.blocks = q.blocks /\ z.xs = q.xs
         /\ z.clear = q.clear + 1 /\ z.r = q.r + 1 /\ z.full = q.full
         /\ q.rx + 1 \in 1..Len(q.xs)
         /\ Ends(q)[q.rx + 1] = q.r => z.h = "RSTOP" /\ z.rx = q.rx + 1
         /\ Ends(q)[q.rx + 1] # q.r => z.h = "READING" /\ z.rx = q.rx
  <1> DEFINE m == Len(q.xs)
             len == Len(q.blocks)
             c == q.clear + 1
             r2 == q.r + 1
             last == q.xs[q.rx + 1].e = q.r
             rx2 == IF last THEN q.rx + 1 ELSE q.rx
             h2 == IF last THEN "RSTOP" ELSE q.h
             z == [q EXCEPT !.clear = c, !.r = r2, !.rx = rx2, !.h = h2]
  <1>1. Cleared(q) = z
    BY Zenon DEF Cleared
  <1>2. /\ m \in Nat /\ len \in Nat /\ q.full \in Int /\ q.clear \in Int /\ q.rx \in Int /\ q.r \in Int
        /\ Starts(q) \in [1..m -> Int] /\ Ends(q) \in [1..m -> Int] /\ c \in Int /\ r2 \in Int
    BY RingIs
  <1>3. /\ Layout(len, m, q.w, Starts(q), Ends(q)) /\ Position(m, Starts(q), Ends(q), q.clear, q.rx, "READING")
        /\ Balance(len, q.full, q.clear, q.r, n, 1)
    BY DEF RingOk
  <1>4. q.rx + 1 \in 1..m /\ q.clear = q.r /\ q.clear >= 0
    BY <1>2, <1>3, SMTT(30) DEF Balance, Position
  <1>5. last <=> Ends(q)[q.rx + 1] = q.r
    BY <1>4 DEF Ends
  <1>6. rx2 \in Int /\ h2 \in {"RSTOP", "READING"}
        /\ IF Ends(q)[q.rx + 1] = q.r THEN rx2 = q.rx + 1 /\ h2 = "RSTOP" ELSE rx2 = q.rx /\ h2 = "READING"
    BY <1>2, <1>5
  <1> HIDE DEF last, rx2, h2, c, r2
  <1>7. /\ z \in RingT(B) /\ z.h = h2 /\ z.rx = rx2 /\ z.full = q.full
        /\ z.w = q.w /\ z.blocks = q.blocks /\ z.xs = q.xs /\ z.clear = c /\ z.r = r2
    BY <1>2, <1>6 DEF RingT
  <1> HIDE DEF z
  <1>8. Starts(z) = Starts(q) /\ Ends(z) = Ends(q)
    BY <1>7 DEF Starts, Ends
  <1>9. Balance(len, q.full, c, r2, n, 0)
    <2> HIDE DEF len
    <2> QED BY <1>2, <1>3, BalanceCleared DEF c, r2
  <1>10. Position(m, Starts(q), Ends(q), q.clear + 1, rx2, h2)
    BY <1>2, <1>3, <1>4, <1>6, PositionCleared
  <1>11. RingOk(z, n, 0)
    BY <1>3, <1>7, <1>8, <1>9, <1>10 DEF RingOk, c
  <1> QED BY <1>1, <1>4, <1>6, <1>7, <1>11 DEF c, r2

\* Other changes of state, of the writer and of the reader.
LEMMA RoleIs ==
  ASSUME NEW B, NEW q \in RingT(B), NEW n, NEW o, RingOk(q, n, o),
         NEW w \in WStates, w # "WRITING", q.w # "WRITING",
         NEW z, z = [q EXCEPT !.w = w]
  PROVE  /\ z \in RingT(B) /\ RingOk(z, n, o) /\ z.w = w
         /\ z.blocks = q.blocks /\ z.xs = q.xs /\ z.full = q.full /\ z.clear = q.clear
         /\ z.r = q.r /\ z.rx = q.rx /\ z.h = q.h
  <1>1. /\ z \in RingT(B) /\ z.w = w
        /\ z.blocks = q.blocks /\ z.xs = q.xs /\ z.full = q.full /\ z.clear = q.clear
        /\ z.r = q.r /\ z.rx = q.rx /\ z.h = q.h
    BY DEF RingT, WStates
  <1>2. Starts(z) = Starts(q) /\ Ends(z) = Ends(q)
    BY <1>1 DEF Starts, Ends
  <1>3. Layout(Len(q.blocks), Len(q.xs), w, Starts(q), Ends(q))
    BY DEF RingOk, Layout
  <1> QED BY <1>1, <1>2, <1>3 DEF RingOk

LEMMA ReaderRoleIs ==
  ASSUME NEW B, NEW q \in RingT(B), NEW n, NEW o, RingOk(q, n, o),
         NEW h \in HStates, h # "READING", q.h # "READING",
         NEW z, z = [q EXCEPT !.h = h]
  PROVE  /\ z \in RingT(B) /\ RingOk(z, n, o) /\ z.h = h
         /\ z.blocks = q.blocks /\ z.xs = q.xs /\ z.full = q.full /\ z.clear = q.clear
         /\ z.r = q.r /\ z.rx = q.rx /\ z.w = q.w
  <1>1. /\ z \in RingT(B) /\ z.h = h
        /\ z.blocks = q.blocks /\ z.xs = q.xs /\ z.full = q.full /\ z.clear = q.clear
        /\ z.r = q.r /\ z.rx = q.rx /\ z.w = q.w
    BY DEF RingT, HStates
  <1>2. Starts(z) = Starts(q) /\ Ends(z) = Ends(q)
    BY <1>1 DEF Starts, Ends
  <1>3. Position(Len(q.xs), Starts(q), Ends(q), q.clear, q.rx, h)
    BY DEF RingOk, Position
  <1> QED BY <1>1, <1>2, <1>3 DEF RingOk

-----------------------------------------------------------------------------
(* Bytes that follow on each other.                                        *)

LEMMA FromEmpty ==
  ASSUME NEW u, NEW p
  PROVE  From(<<>>, u, p)
  BY DEF From

LEMMA FromConcat ==
  ASSUME NEW B, NEW a \in Seq(B), NEW b \in Seq(B), NEW u, NEW p \in Int,
         From(a, u, p), From(b, u, p + Len(a))
  PROVE  From(a \o b, u, p) /\ a \o b \in Seq(B) /\ Len(a \o b) = Len(a) + Len(b)
  <1>1. /\ a \o b \in Seq(B) /\ Len(a \o b) = Len(a) + Len(b) /\ Len(a) \in Nat /\ Len(b) \in Nat
        /\ \A i \in 1..(Len(a) + Len(b)) :
              (a \o b)[i] = IF i <= Len(a) THEN a[i] ELSE b[i - Len(a)]
    BY ConcatProperties
  <1>2. ASSUME NEW i \in 1..(Len(a) + Len(b)) PROVE (a \o b)[i] = <<u, p + i - 1>>
    <2>1. CASE i <= Len(a)
      <3>1. i \in 1..Len(a) /\ (a \o b)[i] = a[i]
        BY <1>1, <2>1
      <3> QED BY <3>1 DEF From
    <2>2. CASE i > Len(a)
      <3>1. i - Len(a) \in 1..Len(b) /\ (a \o b)[i] = b[i - Len(a)]
            /\ p + Len(a) + (i - Len(a)) - 1 = p + i - 1
        BY <1>1, <2>2
      <3>2. b[i - Len(a)] = <<u, p + Len(a) + (i - Len(a)) - 1>>
        BY <3>1, Zenon DEF From
      <3> QED BY <3>1, <3>2
    <2> QED BY <1>1, <2>1, <2>2
  <1> QED BY <1>1, <1>2 DEF From

LEMMA FromParts ==
  ASSUME NEW B, NEW a \in Seq(B), NEW u, NEW p \in Int, From(a, u, p), NEW n \in 0..Len(a)
  PROVE  LET head == SubSeq(a, 1, n)
             tail == SubSeq(a, n + 1, Len(a))
         IN  /\ head \in Seq(B) /\ Len(head) = n /\ From(head, u, p)
             /\ tail \in Seq(B) /\ Len(tail) = Len(a) - n /\ From(tail, u, p + n)
  <1> DEFINE len == Len(a)
             head == SubSeq(a, 1, n)
             tail == SubSeq(a, n + 1, len)
  <1>1. len \in Nat /\ n \in 0..len
    OBVIOUS
  <1>2. head \in Seq(B) /\ Len(head) = n /\ \A i \in 1..n : head[i] = a[i]
    BY <1>1
  <1>3. tail \in Seq(B) /\ Len(tail) = len - n /\ \A i \in 1..(len - n) : tail[i] = a[n + i]
    BY <1>1
  <1>4. \A i \in 1..len : a[i] = <<u, p + i - 1>>
    BY DEF From
  <1> HIDE DEF head, tail, len
  <1>5. \A i \in 1..n : i \in 1..len
    BY <1>1
  <1>6. \A i \in 1..(len - n) : n + i \in 1..len /\ p + (n + i) - 1 = p + n + i - 1
    BY <1>1
  <1>7. From(head, u, p)
    BY <1>2, <1>4, <1>5 DEF From
  <1>8. From(tail, u, p + n)
    BY <1>3, <1>4, <1>6 DEF From
  <1> QED BY <1>2, <1>3, <1>7, <1>8 DEF head, tail, len

\* One more block.
LEMMA Times ==
  ASSUME NEW a \in Int, NEW b \in Int
  PROVE  (a + 1) * b = a * b + b /\ a * b \in Int
  OBVIOUS

-----------------------------------------------------------------------------
(* What write clients read.                                                *)

LEMMA FileBytesIs ==
  ASSUME wr.files \in Seq(FileRec), NEW k \in 1..Len(wr.files), NEW n \in Nat,
         NEW pos \in 0..wr.files[k].size
  PROVE  LET f == wr.files[k]
             bytes == FileBytes(k, pos, n)
         IN  /\ f.utc \in Nat /\ f.off \in Nat /\ f.size \in Nat /\ f.fsize \in Nat
             /\ bytes \in Seq(Byte) /\ Len(bytes) <= n /\ From(bytes, f.utc, f.off + pos)
             /\ pos + Len(bytes) <= f.size
             /\ Len(bytes) < n => pos + Len(bytes) = f.size
  <1> DEFINE f == wr.files[k]
             u == f.utc
             off == f.off
             size == f.size
             m == IF n < size - pos THEN n ELSE size - pos
             bytes == [b \in 1..m |-> <<u, off + pos + b - 1>>]
  <1>1. f \in FileRec
    BY ElementOfSeq
  <1>2. u \in Nat /\ off \in Nat /\ size \in Nat /\ f.fsize \in Nat
    BY <1>1 DEF FileRec
  <1>3. FileBytes(k, pos, n) = bytes
    BY Zenon DEF FileBytes
  <1>4. pos \in 0..size
    OBVIOUS
  <1> HIDE DEF u, off, size
  <1>5. m \in Nat /\ m <= n /\ pos + m <= size /\ (m < n => pos + m = size)
    BY <1>2, <1>4
  <1> HIDE DEF m
  <1>6. bytes \in Seq(Byte) /\ Len(bytes) = m
    <2>1. \A b \in 1..m : <<u, off + pos + b - 1>> \in Byte
      BY <1>2, <1>4, <1>5 DEF Byte
    <2> QED BY <1>5, <2>1
  <1>7. From(bytes, u, off + pos)
    BY <1>5, <1>6 DEF From
  <1> HIDE DEF bytes
  <1>8. /\ Len(bytes) <= n /\ pos + Len(bytes) <= size
        /\ Len(bytes) < n => pos + Len(bytes) = size
    BY <1>5, <1>6
  <1> QED BY <1>2, <1>3, <1>6, <1>7, <1>8 DEF u, off, size

LEMMA JobIs ==
  ASSUME Fits, ended \in Seq(Run), NEW x \in 1..Len(ended)
  PROVE  /\ ended[x] \in Run /\ ended[x].job \in Jobs
         /\ ended[x].job.app \in {"diskdb", "junkdb"} /\ ended[x].job.zc \in BOOLEAN
         /\ ended[x].job.files \in Seq(FileRec) /\ Len(ended[x].job.files) > 0
         /\ Utc(x) \in Nat /\ Start(x) \in Nat
         /\ \A k \in 1..Len(ended[x].job.files) :
               /\ JoinedSize(ended[x].job.files, k) \in Int
               /\ Continues(ended[x].job.files, k)
                     => ended[x].job.files[k].size = ended[x].job.files[k].fsize
  <1> DEFINE job == ended[x].job
  <1>1. ended[x] \in Run /\ job \in Jobs
    <2> DEFINE run == ended[x]
    <2>1. run \in Run
      BY ElementOfSeq
    <2> HIDE DEF run
    <2>2. run.job \in Jobs
      BY <2>1 DEF Run
    <2> QED BY <2>1, <2>2 DEF run
  <1> HIDE DEF job
  <1>2. /\ job.app \in {"diskdb", "junkdb"} /\ job.zc \in BOOLEAN
        /\ job.files \in Seq(FileRec) /\ job.files # <<>>
        /\ \A k \in 1..Len(job.files) :
               /\ JoinedSize(job.files, k) \in Int
               /\ Continues(job.files, k) => job.files[k].size = job.files[k].fsize
    BY <1>1 DEF Fits
  <1>3. Len(job.files) > 0 /\ 1 \in 1..Len(job.files)
    BY <1>2
  <1>4. job.files[1] \in FileRec
    BY <1>2, <1>3, ElementOfSeq
  <1>5. job.files[1].utc \in Nat /\ job.files[1].off \in Nat
    BY <1>4 DEF FileRec
  <1>6. Utc(x) \in Nat /\ Start(x) \in Nat
    BY <1>5 DEF Utc, Start, job
  <1> QED BY <1>1, <1>2, <1>3, <1>6 DEF job

\* file_read_function: the bytes that follow on what was read before.
LEMMA FileReadIs ==
  ASSUME Fits, ended \in Seq(Run), wr.job \in 1..Len(ended), wr.files = ended[wr.job].job.files,
         wr.cont = [k \in 1..Len(wr.files) |-> Continues(wr.files, k)],
         NEW n \in Nat, wr.cur \in 1..Len(wr.files), wr.pos \in 0..wr.files[wr.cur].size
  PROVE  LET s == FileRead(n)
             f == wr.files[wr.cur]
             g == wr.files[s.cur]
         IN  /\ s.bytes \in Seq(Byte) /\ Len(s.bytes) <= n /\ From(s.bytes, f.utc, f.off + wr.pos)
             /\ s.cur \in 1..Len(wr.files) /\ s.pos \in 0..g.size
             /\ g.utc = f.utc /\ g.off + s.pos = f.off + wr.pos + Len(s.bytes)
  <1> DEFINE head == FileBytes(wr.cur, wr.pos, n)
             rest == n - Len(head)
             next == Len(head) < n /\ wr.cont[wr.cur]
             more == FileBytes(wr.cur + 1, 0, rest)
             tail == IF next THEN more ELSE <<>>
             s == FileRead(n)
             f == wr.files[wr.cur]
             h == wr.files[wr.cur + 1]
  <1>1. s = [bytes |-> head \o tail, cur |-> IF next THEN wr.cur + 1 ELSE wr.cur,
             pos |-> IF next THEN Len(tail) ELSE wr.pos + Len(head)]
    BY Zenon DEF FileRead
  <1> HIDE DEF s, tail
  <1>2. /\ s.bytes = head \o tail /\ s.cur = (IF next THEN wr.cur + 1 ELSE wr.cur)
        /\ s.pos = IF next THEN Len(tail) ELSE wr.pos + Len(head)
    BY <1>1, Zenon
  <1>3. /\ wr.files \in Seq(FileRec) /\ Len(wr.files) \in Nat
        /\ \A k \in 1..Len(wr.files) :
              Continues(wr.files, k) => wr.files[k].size = wr.files[k].fsize
    <2> DEFINE files == ended[wr.job].job.files
    <2>1. /\ files \in Seq(FileRec) /\ Len(files) > 0
          /\ \A k \in 1..Len(files) :
                Continues(files, k) => files[k].size = files[k].fsize
      BY JobIs, Zenon
    <2>2. wr.files = files
      BY Zenon
    <2> HIDE DEF files
    <2> QED BY <2>1, <2>2
  <1>4. /\ f.utc \in Nat /\ f.off \in Nat /\ f.size \in Nat /\ f.fsize \in Nat
        /\ head \in Seq(Byte) /\ Len(head) <= n /\ From(head, f.utc, f.off + wr.pos)
        /\ wr.pos + Len(head) <= f.size
        /\ Len(head) < n => wr.pos + Len(head) = f.size
    BY <1>3, FileBytesIs
  <1> DEFINE l == Len(head)
             fu == f.utc
             fo == f.off
             fs == f.size
             p == wr.pos
             c == wr.cur
             nf == Len(wr.files)
  <1>5. l \in Nat /\ p \in 0..fs /\ c \in 1..nf /\ nf \in Nat /\ fs \in Nat /\ fu \in Nat /\ fo \in Nat
    <2>1. p \in 0..fs /\ c \in 1..nf
      BY Zenon
    <2>2. l \in Nat
      <3>1. head \in Seq(Byte)
        BY <1>4
      <3> HIDE DEF head
      <3> QED BY <3>1
    <2> QED BY <1>3, <1>4, <2>1, <2>2, Zenon
  <1>6. CASE next
    <2>1. wr.cont[wr.cur] = Continues(wr.files, wr.cur)
      OBVIOUS
    <2>2. Continues(wr.files, wr.cur) /\ l < n
      BY <1>6, <2>1
    <2>3. c < nf /\ h.utc = fu /\ h.off = fo + fs
      <3>1. wr.files[wr.cur].size = wr.files[wr.cur].fsize
        BY <1>3, <2>2
      <3>2. wr.cur < Len(wr.files) /\ h.utc = f.utc /\ h.off = f.off + f.fsize
        BY <2>2, Zenon DEF Continues
      <3> QED BY <3>1, <3>2, Zenon
    <2> HIDE DEF h
    <2>4. l < n /\ l <= n /\ (l < n => p + l = fs) /\ From(head, fu, fo + p)
      BY <1>4, <2>2, Zenon
    <2> HIDE DEF f, head, l, fu, fo, fs, p, c, nf, rest
    <2>5. c + 1 \in 1..nf /\ rest \in Nat /\ rest = n - l
      BY <1>5, <2>3, <2>4 DEF rest, l
    <2>6. /\ h.size \in Nat /\ more \in Seq(Byte) /\ Len(more) <= rest /\ From(more, h.utc, h.off + 0)
          /\ 0 + Len(more) <= h.size
      <3> DEFINE k == c + 1
      <3>1. h = wr.files[k] /\ k \in 1..Len(wr.files) /\ more = FileBytes(k, 0, rest)
        BY <2>5 DEF h, c, nf
      <3> HIDE DEF k, more
      <3>2. h.size \in Nat /\ 0 \in 0..h.size
        <4>1. h \in FileRec
          BY <1>3, <3>1, ElementOfSeq
        <4>2. h.size \in Nat
          BY <4>1 DEF FileRec
        <4> QED BY <4>2
      <3> QED BY <1>3, <2>5, <3>1, <3>2, FileBytesIs
    <2>7. tail = more
      BY <1>6 DEF tail
    <2> HIDE DEF more, tail, next
    <2> DEFINE t == Len(tail)
               hs == h.size
               ho == h.off
    <2>8. t \in Nat /\ t <= rest /\ t <= hs /\ hs \in Nat /\ ho = fo + fs
      BY <2>3, <2>5, <2>6, <2>7
    <2>9. From(tail, fu, ho + 0)
      BY <2>3, <2>6, <2>7
    <2> HIDE DEF t, hs, ho
    <2>10. ho + 0 = fo + p + l /\ fo + p \in Int
      BY <1>5, <2>4, <2>8
    <2>11. From(tail, fu, fo + p + l)
      BY <2>9, <2>10
    <2>12. /\ From(head \o tail, fu, fo + p) /\ head \o tail \in Seq(Byte)
           /\ Len(head \o tail) = l + t
      BY <1>4, <2>4, <2>6, <2>7, <2>10, <2>11, FromConcat DEF l, t
    <2>13. s.bytes = head \o tail /\ s.cur = c + 1 /\ s.pos = t
      BY <1>2, <1>6, Zenon DEF c, t
    <2>14. l + t <= n /\ t \in 0..hs /\ ho + t = fo + p + (l + t)
      BY <1>5, <2>4, <2>5, <2>8
    <2>15. /\ Len(s.bytes) <= n /\ s.pos \in 0..hs /\ ho + s.pos = fo + p + Len(s.bytes)
           /\ s.bytes \in Seq(Byte) /\ From(s.bytes, fu, fo + p) /\ s.cur \in 1..Len(wr.files)
           /\ h.utc = fu
      BY <2>3, <2>5, <2>12, <2>13, <2>14 DEF nf
    <2>16. h = wr.files[s.cur]
      BY <2>13 DEF h, c
    <2> QED BY <2>15, <2>16, Zenon DEF hs, ho, fu, fo, p, f, s
  <1>7. CASE ~next
    <2>1. tail = <<>> /\ s.cur = c /\ s.pos = p + l
      BY <1>2, <1>7 DEF tail
    <2>2. s.bytes = head
      BY <1>2, <1>4, <2>1, ConcatEmptySeq
    <2>3. p + l <= fs /\ l <= n
      BY <1>4
    <2> HIDE DEF f, head, l, fu, fo, fs, p, c, nf
    <2>4. p + l \in 0..fs /\ fo + (p + l) = fo + p + l
      BY <1>5, <2>3
    <2>5. /\ Len(s.bytes) <= n /\ s.pos \in 0..fs /\ fo + s.pos = fo + p + Len(s.bytes)
          /\ s.bytes \in Seq(Byte) /\ From(s.bytes, fu, fo + p) /\ s.cur \in 1..Len(wr.files)
      BY <1>4, <1>5, <2>1, <2>2, <2>3, <2>4 DEF fu, fo, p, l, c, nf
    <2>6. f = wr.files[s.cur] /\ fu = f.utc /\ fs = f.size /\ fo = f.off
      BY <2>1 DEF f, c, fu, fs, fo
    <2> QED BY <2>5, <2>6, Zenon DEF p, f, s, fu, fo
  <1> QED BY <1>6, <1>7

\* transfer_data of dada_junkdb
LEMMA JunkReadIs ==
  ASSUME Fits, ended \in Seq(Run), wr.job \in 1..Len(ended), wr.files = ended[wr.job].job.files,
         NEW n \in Nat, wr.pos \in Int
  PROVE  LET s == JunkRead(n)
         IN  /\ s.bytes \in Seq(Byte) /\ Len(s.bytes) = n /\ From(s.bytes, Utc(wr.job), wr.pos)
             /\ s.cur = wr.cur /\ s.pos = wr.pos + n
  <1> DEFINE u == wr.files[1].utc
             p == wr.pos
             bytes == [b \in 1..n |-> <<u, p + b - 1>>]
             s == JunkRead(n)
  <1>1. s = [bytes |-> bytes, cur |-> wr.cur, pos |-> wr.pos + n]
    BY Zenon DEF JunkRead
  <1> HIDE DEF s
  <1>2. s.bytes = bytes /\ s.cur = wr.cur /\ s.pos = wr.pos + n
    BY <1>1, Zenon
  <1>3. u \in Nat /\ u = Utc(wr.job) /\ p \in Int
    BY JobIs DEF Utc
  <1> HIDE DEF u, p
  <1>4. bytes \in Seq(Byte) /\ Len(bytes) = n
    <2>1. \A b \in 1..n : <<u, p + b - 1>> \in Byte
      BY <1>3 DEF Byte
    <2> QED BY <2>1
  <1>5. From(bytes, u, p)
    BY <1>4 DEF From
  <1> HIDE DEF bytes
  <1> QED BY <1>2, <1>3, <1>4, <1>5 DEF s, p

LEMMA LenIs == \A B : \A s \in Seq(B) : Len(s) \in Nat
  OBVIOUS

LEMMA WrIs ==
  ASSUME wr \in WrT
  PROVE  /\ wr.pc \in WrPcs /\ wr.job \in Int /\ wr.app \in {"", "diskdb", "junkdb"}
         /\ wr.zc \in BOOLEAN /\ wr.open \in BOOLEAN
         /\ wr.files \in Seq(FileRec) /\ wr.cont \in Seq(BOOLEAN) /\ wr.sizes \in Seq(Int)
         /\ wr.cur \in Int /\ wr.pos \in Int /\ wr.want \in Int /\ wr.done \in Int
         /\ wr.buf \in Seq(Byte) /\ wr.blk \in Seq(Byte)
         /\ Len(wr.buf) \in Nat /\ Len(wr.blk) \in Nat
  <1>1. /\ wr.pc \in WrPcs /\ wr.job \in Int /\ wr.app \in {"", "diskdb", "junkdb"}
        /\ wr.zc \in BOOLEAN /\ wr.open \in BOOLEAN
        /\ wr.files \in Seq(FileRec) /\ wr.cont \in Seq(BOOLEAN) /\ wr.sizes \in Seq(Int)
        /\ wr.cur \in Int /\ wr.pos \in Int /\ wr.want \in Int /\ wr.done \in Int
        /\ wr.buf \in Seq(Byte) /\ wr.blk \in Seq(Byte)
    BY DEF WrT
  <1> QED BY <1>1, LenIs, Zenon

LEMMA RdIs ==
  ASSUME rd \in RdT
  PROVE  /\ rd.pc \in RdPcs /\ rd.app \in {"", "dbdisk", "dbnull"}
         /\ rd.zc \in BOOLEAN /\ rd.open \in BOOLEAN /\ rd.hdr \in Hdr
         /\ rd.off \in Int /\ rd.utc_start \in Int /\ rd.obs_offset \in Int /\ rd.number \in Int
         /\ rd.want \in Int /\ rd.got \in Int
         /\ rd.buf \in Seq(Byte) /\ rd.file \in Seq(Byte) /\ rd.blk \in Seq(Byte)
         /\ Len(rd.buf) \in Nat /\ Len(rd.file) \in Nat /\ Len(rd.blk) \in Nat
  <1>1. /\ rd.pc \in RdPcs /\ rd.app \in {"", "dbdisk", "dbnull"}
        /\ rd.zc \in BOOLEAN /\ rd.open \in BOOLEAN /\ rd.hdr \in Hdr
        /\ rd.off \in Int /\ rd.utc_start \in Int /\ rd.obs_offset \in Int /\ rd.number \in Int
        /\ rd.want \in Int /\ rd.got \in Int
        /\ rd.buf \in Seq(Byte) /\ rd.file \in Seq(Byte) /\ rd.blk \in Seq(Byte)
    BY DEF RdT
  <1> QED BY <1>1, LenIs, Zenon

\* The run of a write client.
LEMMA RunOf ==
  ASSUME ClientType, Counts, HasJob, wr.pc # "none"
  PROVE  /\ ended \in Seq(Run) /\ wr.job \in 1..Len(ended) /\ wr.job = Len(ended)
         /\ wr.files = ended[wr.job].job.files /\ wr.app = ended[wr.job].job.app
         /\ wr.app \in {"diskdb", "junkdb"}
  <1>1. wr \in WrT /\ ended \in Seq(Run)
    BY DEF ClientType
  <1>2. wr.app \in {"", "diskdb", "junkdb"}
    BY <1>1, WrIs
  <1>3. /\ wr.job = Len(ended) /\ wr.job > 0
        /\ wr.files = ended[wr.job].job.files /\ wr.app = ended[wr.job].job.app /\ wr.app # ""
    BY DEF Counts, HasJob
  <1>4. Len(ended) \in Nat
    BY <1>1
  <1> DEFINE j == wr.job
  <1>5. j \in 1..Len(ended)
    <2>1. j = Len(ended) /\ j > 0
      BY <1>3
    <2> HIDE DEF j
    <2> QED BY <1>4, <2>1
  <1> QED BY <1>1, <1>2, <1>3, <1>5

\* io_function and io_block_function go on where they were.
LEMMA SourceIs ==
  ASSUME Fits, ClientType, Counts, HasJob, Place, wr.pc = "loop", NEW n \in Nat
  PROVE  LET s == Source(n)
         IN  /\ s.bytes \in Seq(Byte) /\ Len(s.bytes) \in Nat /\ Len(s.bytes) <= n
             /\ From(s.bytes, Utc(wr.job), Start(wr.job) + wr.done)
             /\ s.cur \in Int /\ s.pos \in Int /\ At(s.cur, s.pos, wr.done + Len(s.bytes))
  <1>1. /\ ended \in Seq(Run) /\ wr.job \in 1..Len(ended)
        /\ wr.files = ended[wr.job].job.files /\ wr.app = ended[wr.job].job.app
        /\ wr.app \in {"diskdb", "junkdb"}
    BY RunOf
  <1>2. At(wr.cur, wr.pos, wr.done)
    BY DEF Place
  <1>3. wr.pos \in Int /\ wr.cur \in Int /\ wr.done \in Int /\ wr.files \in Seq(FileRec)
    BY WrIs DEF ClientType
  <1> DEFINE s == Source(n)
  <1>4. CASE wr.app = "diskdb"
    <2> DEFINE f == wr.files[wr.cur]
               g == wr.files[s.cur]
    <2>1. s = FileRead(n)
      BY <1>4 DEF Source
    <2>2. /\ wr.cur \in 1..Len(wr.files) /\ wr.pos \in 0..wr.files[wr.cur].size
          /\ f.utc = Utc(wr.job) /\ f.off + wr.pos = Start(wr.job) + wr.done
      BY <1>2, <1>4 DEF At
    <2>3. wr.cont = [k \in 1..Len(wr.files) |-> Continues(wr.files, k)]
      BY <1>4 DEF HasJob
    <2> HIDE DEF s
    <2>4. /\ s.bytes \in Seq(Byte) /\ Len(s.bytes) <= n /\ From(s.bytes, f.utc, f.off + wr.pos)
          /\ s.cur \in 1..Len(wr.files) /\ s.pos \in 0..g.size
          /\ g.utc = f.utc /\ g.off + s.pos = f.off + wr.pos + Len(s.bytes)
      BY <1>1, <2>1, <2>2, <2>3, FileReadIs, Zenon
    <2>5. g.size \in Nat
      <3>1. g \in FileRec
        BY <1>3, <2>4, ElementOfSeq
      <3> QED BY <3>1 DEF FileRec
    <2>6. Len(s.bytes) \in Nat /\ Start(wr.job) \in Nat
      BY <1>1, <2>4, JobIs, LenIs, Zenon
    <2> HIDE DEF f, g
    <2>7. g.off + s.pos = Start(wr.job) + (wr.done + Len(s.bytes))
      BY <1>3, <2>2, <2>4, <2>6
    <2>8. s.pos \in Int /\ s.cur \in Int
      BY <2>4, <2>5
    <2>9. At(s.cur, s.pos, wr.done + Len(s.bytes))
      BY <1>4, <2>2, <2>4, <2>7 DEF At, g
    <2>10. From(s.bytes, Utc(wr.job), Start(wr.job) + wr.done)
      BY <2>2, <2>4
    <2> QED BY <2>4, <2>6, <2>8, <2>9, <2>10 DEF s
  <1>5. CASE wr.app = "junkdb"
    <2>1. s = JunkRead(n)
      BY <1>5 DEF Source
    <2> HIDE DEF s
    <2>2. /\ s.bytes \in Seq(Byte) /\ Len(s.bytes) = n /\ From(s.bytes, Utc(wr.job), wr.pos)
          /\ s.cur = wr.cur /\ s.pos = wr.pos + n
      BY <1>1, <1>3, <2>1, JunkReadIs, Zenon
    <2>3. wr.pos = wr.done
      BY <1>2, <1>5 DEF At
    <2>4. Start(wr.job) = 0
      BY <1>1, <1>5 DEF Start
    <2>5. At(s.cur, s.pos, wr.done + Len(s.bytes))
      BY <1>3, <1>5, <2>2, <2>3 DEF At
    <2>6. From(s.bytes, Utc(wr.job), Start(wr.job) + wr.done)
      <3>1. Start(wr.job) + wr.done = wr.pos
        BY <1>3, <2>3, <2>4
      <3> QED BY <2>2, <3>1
    <2> QED BY <1>3, <2>2, <2>5, <2>6 DEF s
  <1> QED BY <1>1, <1>4, <1>5

-----------------------------------------------------------------------------
(* What the writer's calls do to the data.                                 *)

LEMMA DataStartedIs ==
  ASSUME NEW q \in RingT(Seq(Byte)), NEW n, NEW o, RingOk(q, n, o),
         q.w \in {"WCHANGE", "WRITING"}, DataOf(q)
  PROVE  DataOf(Started(q)) /\ Put(Started(q)) = Put(q)
  <1> DEFINE z == Started(q)
             m == Len(q.xs)
             len == Len(q.blocks)
  <1>1. CASE q.w = "WRITING"
    BY <1>1 DEF Started
  <1>2. CASE q.w = "WCHANGE"
    <2>1. /\ z.w = "WRITING" /\ z.blocks = q.blocks /\ Len(z.xs) = m + 1
          /\ Starts(z)[m + 1] = len /\ Ends(z)[m + 1] = -1
          /\ \A x \in 1..m : Starts(z)[x] = Starts(q)[x] /\ Ends(z)[x] = Ends(q)[x]
      BY <1>2, StartedIs
    <2>2. m \in Nat /\ len \in Nat
      BY RingIs
    <2> HIDE DEF z, m, len
    <2>3. ASSUME NEW x \in 1..(m + 1), NEW k \in 0..(len - 1), InTransfer(z, x, k)
          PROVE  x \in 1..m /\ InTransfer(q, x, k)
      <3>1. x # m + 1
        BY <2>1, <2>2, <2>3 DEF InTransfer
      <3>2. x \in 1..m
        BY <2>2, <3>1
      <3> QED BY <2>1, <2>3, <3>2 DEF InTransfer
    <2>4. ASSUME NEW x \in 1..(m + 1), NEW k \in 0..(len - 1), InTransfer(z, x, k)
          PROVE  /\ From(z.blocks[k + 1], Utc(x), Start(x) + (k - Starts(z)[x]) * BUFSZ)
                 /\ k # Ends(z)[x] => Len(z.blocks[k + 1]) = BUFSZ
      <3>1. x \in 1..m /\ InTransfer(q, x, k)
        BY <2>3, <2>4
      <3>2. /\ From(q.blocks[k + 1], Utc(x), Start(x) + (k - Starts(q)[x]) * BUFSZ)
            /\ k # Ends(q)[x] => Len(q.blocks[k + 1]) = BUFSZ
        BY <3>1, Zenon DEF DataOf, m, len
      <3> QED BY <2>1, <3>1, <3>2
    <2>5. DataOf(z)
      BY <2>1, <2>4 DEF DataOf, len
    <2>6. Base(z) = len /\ Base(q) = len /\ Len(z.blocks) = len
      BY <1>2, <2>1 DEF Base, len
    <2> QED BY <2>5, <2>6 DEF Put, z, len
  <1>3. q.w = "WCHANGE" \/ q.w = "WRITING"
    OBVIOUS
  <1> QED BY <1>1, <1>2, <1>3

\* A block of a transfer under way is filled with the bytes that follow.
LEMMA DataFilledIs ==
  ASSUME BUFSZ \in Nat, NEW q \in RingT(Seq(Byte)), NEW n \in Int, NEW o \in Int, o >= 0,
         RingOk(q, n, o),
         q.w = "WRITING", Len(q.blocks) - q.clear < n, DataOf(q),
         NEW b \in Seq(Byte), NEW eod \in BOOLEAN,
         From(b, Utc(Len(q.xs)), Start(Len(q.xs)) + Put(q)), eod \/ Len(b) = BUFSZ
  PROVE  DataOf(Filled(q, b, eod)) /\ (~eod => Put(Filled(q, b, eod)) = Put(q) + BUFSZ)
         /\ Put(q) \in Int
  <1> DEFINE z == Filled(q, b, eod)
             m == Len(q.xs)
             len == Len(q.blocks)
             S == Starts(q)
             E == Ends(z)
  <1>1. /\ z.w = (IF eod THEN "WRITER" ELSE "WRITING")
        /\ z.blocks = Append(q.blocks, b) /\ Len(z.xs) = m /\ m > 0
        /\ \A x \in 1..m : Starts(z)[x] = S[x]
        /\ \A x \in 1..m : x # m => E[x] = Ends(q)[x]
        /\ Ends(q)[m] = -1 /\ E[m] = (IF eod THEN len ELSE -1)
    BY FilledIs
  <1>2. /\ m \in Nat /\ len \in Nat /\ S \in [1..m -> Int] /\ Ends(q) \in [1..m -> Int]
        /\ q.blocks \in Seq(Seq(Byte))
    BY RingIs
  <1>3. Layout(len, m, "WRITING", S, Ends(q))
    BY DEF RingOk
  <1>4. Put(q) = (len - S[m]) * BUFSZ
    BY Zenon DEF Put, Base
  <1>5. /\ Len(z.blocks) = len + 1 /\ z.blocks[len + 1] = b
        /\ \A k \in 1..len : z.blocks[k] = q.blocks[k]
    BY <1>1, <1>2
  <1> HIDE DEF z, m, len, S, E
  <1>6. m \in 1..m /\ S[m] \in Int
    BY <1>1, <1>2
  <1>7. ASSUME NEW x \in 1..m, NEW k \in 0..len, InTransfer(z, x, k)
        PROVE  /\ From(z.blocks[k + 1], Utc(x), Start(x) + (k - Starts(z)[x]) * BUFSZ)
               /\ k # E[x] => Len(z.blocks[k + 1]) = BUFSZ
    <2>1. S[x] <= k /\ (E[x] = -1 \/ k <= E[x])
      BY <1>1, <1>7 DEF InTransfer, E
    <2>2. CASE k = len
      <3>1. x = m
        <4>1. x # m => S[x] >= 0 /\ S[x] <= Ends(q)[x] /\ Ends(q)[x] < len
          BY <1>3, Zenon DEF Layout
        <4>2. S[x] \in Int /\ Ends(q)[x] \in Int
          BY <1>2
        <4> DEFINE e == Ends(q)[x]
                   y == E[x]
                   s == S[x]
        <4>3. /\ x # m => s >= 0 /\ s <= e /\ e < len /\ y = e
              /\ s \in Int /\ e \in Int /\ len \in Int /\ (y = -1 \/ len <= y)
          BY <1>1, <1>2, <2>1, <2>2, <4>1, <4>2
        <4> HIDE DEF e, y, s
        <4> QED BY <4>3
      <3>2. From(b, Utc(m), Start(m) + (len - S[m]) * BUFSZ) /\ (eod \/ Len(b) = BUFSZ)
        BY <1>4 DEF m
      <3>3. k # E[x] => ~eod
        BY <1>1, <2>2, <3>1
      <3> QED BY <1>1, <1>5, <2>2, <3>1, <3>2, <3>3
    <2>3. CASE k # len
      <3>1. k \in 0..(len - 1) /\ k + 1 \in 1..len
        BY <1>2, <2>3
      <3>2. InTransfer(q, x, k) /\ (k # E[x] => k # Ends(q)[x])
        <4>1. CASE x = m
          BY <1>1, <1>2, <2>1, <3>1, <4>1 DEF InTransfer, S
        <4>2. CASE x # m
          BY <1>1, <2>1, <4>2 DEF InTransfer, S
        <4> QED BY <4>1, <4>2
      <3>3. /\ From(q.blocks[k + 1], Utc(x), Start(x) + (k - S[x]) * BUFSZ)
            /\ k # Ends(q)[x] => Len(q.blocks[k + 1]) = BUFSZ
        BY <3>1, <3>2, Zenon DEF DataOf, m, len, S
      <3> QED BY <1>1, <1>5, <3>1, <3>2, <3>3
    <2> QED BY <2>2, <2>3
  <1>8. DataOf(z)
    <2>1. \A k : k \in 0..(Len(z.blocks) - 1) => k \in 0..len
      BY <1>2, <1>5
    <2> QED BY <1>1, <1>7, <2>1 DEF DataOf, E
  <1>9. ASSUME ~eod PROVE Put(z) = Put(q) + BUFSZ
    <2>1. Base(z) = S[m]
      BY <1>1, <1>6, <1>9 DEF Base
    <2> DEFINE d == len - S[m]
               e == Len(z.blocks) - Base(z)
    <2>2. Put(z) = e * BUFSZ /\ Put(q) = d * BUFSZ
      BY <1>4, Zenon DEF Put
    <2>3. e = d + 1 /\ d \in Int
      <3> DEFINE s == S[m]
                 l == Len(z.blocks)
                 bz == Base(z)
      <3>1. s \in Int /\ len \in Nat /\ l = len + 1 /\ bz = s
        BY <1>2, <1>5, <1>6, <2>1, Zenon
      <3> HIDE DEF s, l, bz
      <3>2. l - bz = (len - s) + 1 /\ len - s \in Int
        BY <3>1
      <3> QED BY <3>2 DEF s, l, bz
    <2> HIDE DEF d, e
    <2> QED BY <2>2, <2>3, Times
  <1>10. Put(q) \in Int
    BY <1>2, <1>4, <1>6
  <1> QED BY <1>8, <1>9, <1>10 DEF z

-----------------------------------------------------------------------------
(* A step of one client leaves what is said of the other.                  *)

SameData(q, z) == z.blocks = q.blocks /\ z.xs = q.xs /\ z.w = q.w

LEMMA ReaderSteps ==
  ASSUME NBUFS \in Nat, WriterSide, wr' = wr, ended' = ended, SameData(hb, hb'), SameData(db, db'),
         hb'.h # "READING", ClientType, ClientType', db'.clear >= db.clear
  PROVE  WriterSide'
  <1>1. /\ Starts(hb') = Starts(hb) /\ Ends(hb') = Ends(hb)
        /\ Starts(db') = Starts(db) /\ Ends(db') = Ends(db)
    BY DEF SameData, Starts, Ends
  <1>2. /\ hb'.blocks = hb.blocks /\ hb'.xs = hb.xs /\ hb'.w = hb.w
        /\ db'.blocks = db.blocks /\ db'.xs = db.xs /\ db'.w = db.w
    BY DEF SameData
  <1>3. \A x : Utc(x)' = Utc(x) /\ Start(x)' = Start(x)
    BY DEF Utc, Start
  <1>4. Data'
    <2>1. Data
      BY DEF WriterSide
    <2> QED BY <1>1, <1>2, <1>3, <2>1, Zenon DEF Data, DataOf, InTransfer
  <1>5. Headers'
    <2>1. Headers
      BY DEF WriterSide
    <2> QED BY <1>1, <1>2, <1>3, <2>1, Zenon DEF Headers
  <1>6. Counts'
    <2>1. Counts
      BY DEF WriterSide
    <2> QED BY <1>2, <2>1, Zenon DEF Counts, Waiting, Active
  <1>7. HasJob' /\ Place'
    <2>1. HasJob /\ Place
      BY DEF WriterSide
    <2> QED BY <1>3, <2>1, Zenon DEF HasJob, Place, At
  <1>8. Holding'
    <2>1. Holding
      BY DEF WriterSide
    <2>2. Put(db)' = Put(db)
      BY <1>1, <1>2, Zenon DEF Put, Base
    <2>3. Room(db, NBUFS) => Room(db', NBUFS)
      <3>1. db \in RingT(Seq(Byte)) /\ db' \in RingT(Seq(Byte))
        BY DEF ClientType
      <3>2. Len(db.blocks) \in Nat /\ db.clear \in Int /\ db'.clear \in Int
        BY <3>1, RingIs
      <3> DEFINE l == Len(db.blocks)
                 c == db.clear
                 d == db'.clear
      <3>3. l \in Int /\ c \in Int /\ d \in Int /\ d >= c
        BY <3>2
      <3>4. (Room(db, NBUFS) <=> l - c < NBUFS) /\ (Room(db', NBUFS) <=> l - d < NBUFS)
        BY <1>2, Zenon DEF Room
      <3> HIDE DEF l, c, d
      <3> QED BY <3>3, <3>4
    <2> QED BY <1>2, <1>3, <2>1, <2>2, <2>3, Zenon DEF Holding, Active
  <1> QED BY <1>4, <1>5, <1>6, <1>7, <1>8 DEF WriterSide

LEMMA WriterSteps ==
  ASSUME ReaderSide, Headers, Counts, ClientType, RingOk(db, NBUFS, Open), RingOk(hb, NHDR, 0),
         rd' = rd, disk' = disk, hb'.h = hb.h, hb'.rx = hb.rx,
         db'.h = db.h, db'.r = db.r, db'.rx = db.rx,
         \A x \in 1..Len(ended) : Utc(x)' = Utc(x) /\ Start(x)' = Start(x),
         \A x \in 1..Len(db.xs) : Starts(db')[x] = Starts(db)[x],
         \A k \in 1..Len(db.blocks) : db'.blocks[k] = db.blocks[k]
  PROVE  ReaderSide'
  <1>1. InStep /\ Carrying /\ Match
    BY DEF ReaderSide
  <1>2. InStep'
    BY <1>1, Zenon DEF InStep, Reading, X
  <1>3. Match'
    BY <1>1, Zenon DEF Match
  <1>4. Carrying'
    <2>1. CASE ~Reading
      BY <1>1, <2>1, Zenon DEF Carrying, Reading, NextByte, Got
    <2>2. CASE Reading
      <3> DEFINE x == hb.rx
      <3>1. x \in 1..Len(ended)
        <4>1. x >= 1 /\ x \in Int
          BY <1>1, <2>2, RingIs DEF InStep, X, ClientType
        <4>2. x <= Len(hb.xs)
          BY DEF RingOk, Position
        <4>3. Len(hb.blocks) = Len(hb.xs) /\ Len(hb.blocks) = Len(ended) - Waiting(hb)
              /\ Waiting(hb) \in {0, 1}
          BY DEF Headers, Counts, Waiting
        <4>4. Len(ended) \in Nat /\ Len(hb.xs) \in Nat
          BY RingIs DEF ClientType
        <4> HIDE DEF x
        <4> QED BY <4>1, <4>2, <4>3, <4>4
      <3>2. Utc(x)' = Utc(x) /\ Start(x)' = Start(x)
        BY <3>1
      <3>3. Utc(X)' = Utc(X) /\ Start(X)' = Start(X)
        BY <3>2 DEF X, Utc, Start
      <3>4. db.h # "RSTOP" => Taken' = Taken
        <4>1. CASE db.h = "READER"
          BY <4>1 DEF Taken
        <4>2. CASE db.h = "READING"
          <5>1. hb.rx = db.rx + 1
            BY <1>1, <2>2, <4>2 DEF InStep, X
          <5>2. /\ Position(Len(db.xs), Starts(db), Ends(db), db.clear, db.rx, "READING")
                /\ Balance(Len(db.blocks), db.full, db.clear, db.r, NBUFS, Open)
            BY <4>2 DEF RingOk
          <5>3. /\ Len(db.xs) \in Nat /\ db.rx \in Int /\ db.r \in Int /\ Len(db.blocks) \in Nat
                /\ db.full \in Int /\ db.clear \in Int
            BY RingIs DEF ClientType
          <5>4. hb.rx \in 1..Len(db.xs)
            BY <5>1, <5>2, <5>3 DEF Position
          <5>5. Starts(db')[X'] = Starts(db)[X]
            BY <5>4 DEF X
          <5>6. ASSUME rd.open PROVE db.r + 1 \in 1..Len(db.blocks)
            <6>1. Open = 1
              BY <5>6 DEF Open
            <6> QED BY <5>2, <5>3, <6>1 DEF Balance
          <5>7. rd.open => db'.blocks[db.r + 1] = db.blocks[db.r + 1]
            BY <5>6
          <5> QED BY <5>5, <5>7, Zenon DEF Taken
        <4>3. db.h \in HStates /\ db.h # "VIEWER"
          BY <1>1, <2>2, RingIs DEF InStep, ClientType
        <4> QED BY <4>1, <4>2, <4>3 DEF HStates
      <3> QED BY <1>1, <3>3, <3>4, Zenon DEF Carrying, Reading, NextByte, Got
    <2> QED BY <2>1, <2>2
  <1> QED BY <1>2, <1>3, <1>4 DEF ReaderSide


\* What is said of the data and the headers stays true with the same blocks.
LEMMA DataStays ==
  ASSUME NEW q, NEW z, DataOf(q), z.blocks = q.blocks, z.xs = q.xs
  PROVE  DataOf(z) /\ Starts(z) = Starts(q) /\ Ends(z) = Ends(q)
  <1>1. Starts(z) = Starts(q) /\ Ends(z) = Ends(q)
    BY DEF Starts, Ends
  <1> QED BY <1>1, Zenon DEF DataOf, InTransfer

LEMMA DataPrimed ==
  ASSUME DataOf(db'), Len(db'.xs) \in Nat, Len(ended) \in Nat, Len(db'.xs) <= Len(ended),
         \A x \in 1..Len(ended) : Utc(x)' = Utc(x) /\ Start(x)' = Start(x)
  PROVE  Data'
  <1>1. \A x \in 1..Len(db'.xs) : Utc(x)' = Utc(x) /\ Start(x)' = Start(x)
    OBVIOUS
  <1> QED BY <1>1, Zenon DEF Data, DataOf, InTransfer

LEMMA HeadersStay ==
  ASSUME Headers, hb'.blocks = hb.blocks, hb'.xs = hb.xs, hb'.w # "WRITING", hb'.h # "READING",
         Len(hb.blocks) \in Nat, Len(ended) \in Nat, Len(hb.blocks) <= Len(ended),
         \A x \in 1..Len(ended) : Utc(x)' = Utc(x) /\ Start(x)' = Start(x)
  PROVE  Headers'
  <1>1. \A x \in 1..Len(hb.blocks) : Utc(x)' = Utc(x) /\ Start(x)' = Start(x)
    OBVIOUS
  <1>2. Starts(hb') = Starts(hb) /\ Ends(hb') = Ends(hb)
    BY DEF Starts, Ends
  <1> QED BY <1>1, <1>2, Zenon DEF Headers

-----------------------------------------------------------------------------
(* The steps of a write client.                                            *)

\* dada_hdu_lock_write and dada_hdu_connect, by either program.
LEMMA StartsWriter ==
  ASSUME Fits, DataInv, NEW job \in Jobs, StartWriter(job),
         wr' \in WrT, wr'.pc = "write", wr'.job = wr.job + 1, wr'.app = job.app,
         wr'.files = job.files, wr'.cur = 1, wr'.buf = <<>>, wr'.blk = <<>>, wr'.open = FALSE,
         Len(wr'.sizes) > 0,
         job.app = "diskdb" =>
            wr'.cont = [k \in 1..Len(job.files) |-> Continues(job.files, k)]
  PROVE  DataInv'
  <1>1. /\ ClientType /\ RingOk(hb, NHDR, 0) /\ RingOk(db, NBUFS, Open)
        /\ Data /\ Headers /\ Counts /\ Holding /\ ReaderSide
    BY DEF DataInv, WriterSide
  <1>2. hb \in RingT(Hdr) /\ db \in RingT(Seq(Byte)) /\ ended \in Seq(Run) /\ wr.job \in Int
    BY <1>1, WrIs DEF ClientType
  <1>3. /\ wr.pc = "none" /\ hb.w = "DISCON" /\ db.w = "DISCON"
        /\ hb' = [hb EXCEPT !.w = "WCHANGE"] /\ db' = [db EXCEPT !.w = "WCHANGE"]
        /\ ended' = Append(ended, [job |-> job, done |-> FALSE, bytes |-> <<>>])
        /\ rd' = rd /\ disk' = disk
    BY DEF StartWriter, HduLockWrite
  <1>4. "WCHANGE" \in WStates /\ "WCHANGE" # "WRITING"
    BY DEF WStates
  <1>5. /\ hb' \in RingT(Hdr) /\ RingOk(hb', NHDR, 0) /\ hb'.w = "WCHANGE"
        /\ hb'.blocks = hb.blocks /\ hb'.xs = hb.xs /\ hb'.h = hb.h /\ hb'.rx = hb.rx
    <2>1. /\ hb \in RingT(Hdr) /\ RingOk(hb, NHDR, 0) /\ hb.w # "WRITING"
          /\ hb' = [hb EXCEPT !.w = "WCHANGE"]
      BY <1>1, <1>2, <1>3
    <2> QED BY <1>4, <2>1, RoleIs
  <1>6. /\ db' \in RingT(Seq(Byte)) /\ RingOk(db', NBUFS, Open) /\ db'.w = "WCHANGE"
        /\ db'.blocks = db.blocks /\ db'.xs = db.xs /\ db'.h = db.h /\ db'.rx = db.rx
        /\ db'.r = db.r
    <2>1. /\ db \in RingT(Seq(Byte)) /\ RingOk(db, NBUFS, Open) /\ db.w # "WRITING"
          /\ db' = [db EXCEPT !.w = "WCHANGE"]
      BY <1>1, <1>2, <1>3
    <2> QED BY <1>4, <2>1, RoleIs
  <1>7. /\ Starts(hb') = Starts(hb) /\ Ends(hb') = Ends(hb)
        /\ Starts(db') = Starts(db) /\ Ends(db') = Ends(db)
    BY <1>5, <1>6 DEF Starts, Ends
  <1> DEFINE n == Len(ended)
             run == [job |-> job, done |-> FALSE, bytes |-> <<>>]
  <1>8. /\ ended' \in Seq(Run) /\ Len(ended') = n + 1 /\ n \in Nat
        /\ \A x \in 1..n : ended'[x] = ended[x]
        /\ ended'[n + 1].job = job
    <2>1. run \in Run /\ run.job = job
      <3>1. <<>> \in Seq(Byte)
        OBVIOUS
      <3> QED BY <3>1 DEF Run
    <2> HIDE DEF run
    <2>2. ended' = Append(ended, run)
      BY <1>3 DEF run
    <2> QED BY <1>2, <2>1, <2>2
  <1> HIDE DEF run
  <1>9. \A x \in 1..n : Utc(x)' = Utc(x) /\ Start(x)' = Start(x)
    BY <1>8 DEF Utc, Start
  <1>10. Len(hb.blocks) = n /\ Len(db.xs) = n /\ wr.job = n /\ Len(hb.xs) = n
    <2>1. Waiting(hb) = 0 /\ Waiting(db) = 0
      BY <1>3 DEF Waiting
    <2> QED BY <1>1, <1>8, <2>1 DEF Counts, Headers
  <1>11. ClientType'
    BY <1>1, <1>3, <1>5, <1>6, <1>8 DEF ClientType
  <1>12. Data'
    <2>1. DataOf(db')
      BY <1>1, <1>6, DataStays, Zenon DEF Data
    <2> QED BY <1>6, <1>8, <1>9, <1>10, <2>1, DataPrimed
  <1>13. Headers'
    <2>1. hb'.w # "WRITING" /\ hb'.h # "READING"
      BY <1>1, <1>5 DEF Headers
    <2> QED BY <1>1, <1>5, <1>8, <1>9, <1>10, <2>1, HeadersStay
  <1>14. Counts'
    <2>1. Waiting(hb)' = 1 /\ Waiting(db)' = 1
      BY <1>5, <1>6 DEF Waiting
    <2>2. wr'.job = n + 1 /\ wr'.job > 0
      BY <1>8, <1>10
    <2>3. Len(hb'.blocks) = Len(ended') - 1 /\ Len(db'.xs) = Len(ended') - 1
      BY <1>5, <1>6, <1>8, <1>10
    <2> QED BY <1>5, <1>6, <1>8, <2>1, <2>2, <2>3 DEF Counts, Active
  <1>15. HasJob'
    <2>1. wr'.job = n + 1
      BY <1>10
    <2>2. job.app # "" /\ job.files # <<>>
      BY DEF Fits
    <2> QED BY <1>8, <2>1, <2>2, Zenon DEF HasJob
  <1>16. Place'
    BY DEF Place
  <1>17. Holding'
    <2>1. Len(wr'.blk) <= BUFSZ
      BY DEF Fits
    <2> QED BY <2>1 DEF Holding, Active
  <1>18. ReaderSide'
    BY <1>1, <1>3, <1>5, <1>6, <1>7, <1>9, WriterSteps
  <1>19. RingOk(db, NBUFS, Open)'
    BY <1>3, <1>6 DEF Open
  <1> QED BY <1>5, <1>11, <1>12, <1>13, <1>14, <1>15, <1>16, <1>17, <1>18, <1>19
          DEF DataInv, WriterSide

LEMMA StartDiskdbKeeps ==
  ASSUME Fits, DataInv, NEW job \in Jobs, StartDiskdb(job) PROVE DataInv'
  <1> DEFINE cont == [k \in 1..Len(job.files) |-> Continues(job.files, k)]
             sizes == [k \in 1..Len(job.files) |-> JoinedSize(job.files, k)]
             j == wr.job + 1
  <1>1. /\ job.app = "diskdb" /\ StartWriter(job)
        /\ wr' = [NoWriter EXCEPT !.pc = "write", !.job = j, !.app = job.app,
                                  !.zc = job.zc, !.files = job.files, !.cur = 1,
                                  !.cont = cont, !.sizes = sizes]
    BY Zenon DEF StartDiskdb
  <1>2. /\ job.app \in {"diskdb", "junkdb"} /\ job.zc \in BOOLEAN
        /\ job.files \in Seq(FileRec) /\ job.files # <<>>
        /\ \A k \in 1..Len(job.files) : JoinedSize(job.files, k) \in Int
    BY DEF Fits
  <1>3. Len(job.files) \in Nat /\ Len(job.files) > 0
    BY <1>2
  <1>4. cont \in Seq(BOOLEAN) /\ sizes \in Seq(Int) /\ Len(sizes) > 0
    <2>1. \A k \in 1..Len(job.files) : Continues(job.files, k) \in BOOLEAN
      BY DEF Continues
    <2> QED BY <1>2, <1>3, <2>1
  <1>5. wr.job \in Int
    BY WrIs DEF DataInv, ClientType
  <1>6. j \in Int
    BY <1>5
  <1> HIDE DEF cont, sizes, j
  <1>7. /\ wr' \in WrT /\ wr'.pc = "write" /\ wr'.job = j /\ wr'.app = job.app
        /\ wr'.files = job.files /\ wr'.cur = 1 /\ wr'.buf = <<>> /\ wr'.blk = <<>>
        /\ wr'.open = FALSE /\ wr'.sizes = sizes /\ wr'.cont = cont
    <2>1. NoWriter \in WrT /\ NoWriter.buf = <<>> /\ NoWriter.blk = <<>> /\ NoWriter.open = FALSE
      BY DEF WrT, NoWriter, WrPcs
    <2>2. "write" \in WrPcs /\ 1 \in Int
      BY DEF WrPcs
    <2>3. job.app \in {"", "diskdb", "junkdb"}
      BY <1>1
    <2> QED BY <1>1, <1>2, <1>4, <1>6, <2>1, <2>2, <2>3, Zenon DEF WrT
  <1> QED BY <1>1, <1>4, <1>7, StartsWriter, Zenon DEF cont, j

LEMMA StartJunkdbKeeps ==
  ASSUME Fits, DataInv, NEW job \in Jobs, StartJunkdb(job) PROVE DataInv'
  <1> DEFINE sizes == <<job.files[1].size>>
             j == wr.job + 1
  <1>1. /\ job.app = "junkdb" /\ StartWriter(job)
        /\ wr' = [NoWriter EXCEPT !.pc = "write", !.job = j, !.app = job.app,
                                  !.zc = job.zc, !.files = job.files, !.cur = 1,
                                  !.sizes = sizes]
    BY Zenon DEF StartJunkdb
  <1>2. job.zc \in BOOLEAN /\ job.files \in Seq(FileRec) /\ job.files # <<>>
    BY DEF Fits
  <1>3. sizes \in Seq(Int) /\ Len(sizes) > 0
    <2>1. 1 \in 1..Len(job.files)
      BY <1>2
    <2>2. job.files[1] \in FileRec
      BY <1>2, <2>1, ElementOfSeq
    <2>3. job.files[1].size \in Int
      BY <2>2 DEF FileRec
    <2> QED BY <2>3
  <1>4. j \in Int
    <2>1. wr.job \in Int
      BY WrIs DEF DataInv, ClientType
    <2> QED BY <2>1
  <1> HIDE DEF sizes, j
  <1>5. /\ wr' \in WrT /\ wr'.pc = "write" /\ wr'.job = j /\ wr'.app = job.app
        /\ wr'.files = job.files /\ wr'.cur = 1 /\ wr'.buf = <<>> /\ wr'.blk = <<>>
        /\ wr'.open = FALSE /\ wr'.sizes = sizes
    <2>1. NoWriter \in WrT /\ NoWriter.buf = <<>> /\ NoWriter.blk = <<>> /\ NoWriter.open = FALSE
      BY DEF WrT, NoWriter, WrPcs
    <2>2. "write" \in WrPcs /\ 1 \in Int
      BY DEF WrPcs
    <2>3. job.app \in {"", "diskdb", "junkdb"}
      BY <1>1
    <2> QED BY <1>1, <1>2, <1>3, <1>4, <2>1, <2>2, <2>3, Zenon DEF WrT
  <1>6. job.app # "diskdb"
    BY <1>1
  <1> QED BY <1>1, <1>3, <1>5, <1>6, StartsWriter, Zenon DEF j

\* The header of the next observation.
LEMMA WriteHeaderKeeps ==
  ASSUME Fits, DataInv, WriteHeader PROVE DataInv'
  <1> DEFINE hdr == IF wr.app = "diskdb" THEN FileHeader ELSE JunkHeader
             n == Len(ended)
             z == Started(hb)
  <1>1. /\ ClientType /\ RingOk(hb, NHDR, 0) /\ RingOk(db, NBUFS, Open)
        /\ Data /\ Headers /\ Counts /\ HasJob /\ Place /\ Holding /\ ReaderSide
    BY DEF DataInv, WriterSide
  <1>2. hb \in RingT(Hdr) /\ db \in RingT(Seq(Byte)) /\ ended \in Seq(Run) /\ wr \in WrT
    BY <1>1 DEF ClientType
  <1>3. /\ wr.pc = "write" /\ Room(hb, NHDR) /\ z.w = "WRITING"
        /\ hb' = Filled(z, hdr, TRUE)
        /\ wr' = [wr EXCEPT !.pc = "loop", !.want = hdr.fsize, !.done = 0, !.pos = 0]
        /\ db' = db /\ rd' = rd /\ disk' = disk /\ ended' = ended
    BY Zenon DEF WriteHeader, HeaderSent
  <1> HIDE DEF hdr
  <1>4. hb.w = "WCHANGE"
    <2>1. hb.w # "WRITING"
      BY <1>1 DEF Headers
    <2>2. z = hb \/ hb.w = "WCHANGE"
      BY DEF Started
    <2> QED BY <1>3, <2>1, <2>2
  <1>5. /\ wr.job \in 1..n /\ wr.job = n /\ wr.files = ended[n].job.files
        /\ wr.app = ended[n].job.app /\ wr.app \in {"diskdb", "junkdb"} /\ n \in Nat
    BY <1>1, <1>2, <1>3, RunOf, LenIs
  <1>6. db.w = "WCHANGE" /\ wr.cur = 1 /\ Len(hb.blocks) = n - 1
    BY <1>1, <1>4 DEF Counts, Waiting
  <1>7. hdr \in Hdr /\ hdr.utc = Utc(n) /\ hdr.off = Start(n)
    <2>1. Utc(n) \in Nat /\ Start(n) \in Nat
      BY <1>2, <1>5, JobIs
    <2>2. wr.sizes[1] \in Int
      <3>1. wr.sizes \in Seq(Int) /\ 1 \in 1..Len(wr.sizes)
        <4>1. Len(wr.sizes) > 0
          BY <1>1, <1>3 DEF HasJob
        <4>2. wr.sizes \in Seq(Int)
          BY <1>2, WrIs
        <4> QED BY <4>1, <4>2
      <3> QED BY <3>1, ElementOfSeq
    <2> DEFINE u == wr.files[1].utc
               o == IF wr.app = "diskdb" THEN wr.files[1].off ELSE 0
               s == wr.sizes[1]
    <2>3. u = Utc(n) /\ o = Start(n)
      BY <1>5, Zenon DEF Utc, Start
    <2>4. hdr = [utc |-> u, off |-> o, fsize |-> s]
      <3>1. CASE wr.app = "diskdb"
        <4>1. hdr = FileHeader
          BY <3>1, Zenon DEF hdr
        <4>2. FileHeader = [utc |-> u, off |-> o, fsize |-> s]
          BY <1>6, <3>1, Zenon DEF FileHeader
        <4> QED BY <4>1, <4>2, Zenon
      <3>2. CASE wr.app # "diskdb"
        <4>1. hdr = JunkHeader
          BY <3>2, Zenon DEF hdr
        <4>2. JunkHeader = [utc |-> u, off |-> o, fsize |-> s]
          BY <3>2, Zenon DEF JunkHeader
        <4> QED BY <4>1, <4>2, Zenon
      <3> QED BY <3>1, <3>2, Zenon
    <2> HIDE DEF u, o, s
    <2>5. s \in Int /\ u \in Nat /\ o \in Int
      BY <2>1, <2>2, <2>3 DEF s
    <2> QED BY <2>3, <2>4, <2>5 DEF Hdr
  <1>8. /\ z \in RingT(Hdr) /\ RingOk(z, NHDR, 0) /\ z.blocks = hb.blocks
        /\ z.clear = hb.clear /\ z.h = hb.h /\ z.rx = hb.rx
        /\ Len(z.xs) = Len(hb.xs) + 1
        /\ Starts(z)[Len(z.xs)] = Len(hb.blocks) /\ Ends(z)[Len(z.xs)] = -1
        /\ \A x \in 1..Len(hb.xs) : Starts(z)[x] = Starts(hb)[x] /\ Ends(z)[x] = Ends(hb)[x]
    <2>1. RingOk(hb, NHDR, 0)
      BY <1>1
    <2> QED BY <1>2, <1>4, <2>1, StartedIs
  <1> HIDE DEF z
  <1>9. /\ hb' \in RingT(Hdr) /\ RingOk(hb', NHDR, 0) /\ hb'.w = "WRITER"
        /\ hb'.blocks = Append(z.blocks, hdr) /\ hb'.h = z.h /\ hb'.rx = z.rx
        /\ Len(hb'.xs) = Len(z.xs) /\ Len(z.xs) > 0
        /\ \A x \in 1..Len(z.xs) : Starts(hb')[x] = Starts(z)[x]
        /\ \A x \in 1..Len(z.xs) : x # Len(z.xs) => Ends(hb')[x] = Ends(z)[x]
        /\ Ends(hb')[Len(z.xs)] = Len(z.blocks)
    <2>1. Len(z.blocks) - z.clear < NHDR /\ NHDR \in Int
      BY <1>3, <1>8 DEF Room, Fits
    <2>2. 0 \in Int /\ 0 >= 0
      OBVIOUS
    <2>3. z \in RingT(Hdr) /\ RingOk(z, NHDR, 0) /\ z.w = "WRITING" /\ hdr \in Hdr
          /\ hb' = Filled(z, hdr, TRUE)
      BY <1>3, <1>7, <1>8
    <2>4. LastFilled(Hdr, z, NHDR, 0, hdr, Filled(z, hdr, TRUE))
      BY <2>1, <2>2, <2>3, LastFilledIs, Zenon
    <2>5. LastFilled(Hdr, z, NHDR, 0, hdr, hb')
      BY <2>3, <2>4
    <2> QED BY <2>5 DEF LastFilled
  <1>10. /\ wr' \in WrT /\ wr'.pc = "loop" /\ wr'.done = 0 /\ wr'.pos = 0
         /\ wr'.job = wr.job /\ wr'.app = wr.app /\ wr'.zc = wr.zc /\ wr'.files = wr.files
         /\ wr'.cont = wr.cont /\ wr'.sizes = wr.sizes /\ wr'.cur = wr.cur
         /\ wr'.buf = wr.buf /\ wr'.blk = wr.blk /\ wr'.open = wr.open
    <2>1. "loop" \in WrPcs /\ 0 \in Int /\ hdr.fsize \in Int
      BY <1>7 DEF WrPcs, Hdr
    <2> QED BY <1>2, <1>3, <2>1, Zenon DEF WrT
  <1>11. ClientType'
    BY <1>1, <1>2, <1>3, <1>9, <1>10 DEF ClientType
  <1>12. \A x \in 1..n : Utc(x)' = Utc(x) /\ Start(x)' = Start(x)
    BY <1>3 DEF Utc, Start
  <1>13. Data'
    BY <1>1, <1>3, <1>12, Zenon DEF Data, DataOf, InTransfer, Utc, Start
  <1>14. Headers'
    <2> DEFINE m == Len(hb.blocks)
    <2>1. /\ m \in Nat /\ Len(hb.xs) = m /\ hb.h # "READING" /\ hb.blocks \in Seq(Hdr)
          /\ \A x \in 1..m :
                /\ Starts(hb)[x] = x - 1 /\ Ends(hb)[x] = x - 1
                /\ hb.blocks[x].utc = Utc(x) /\ hb.blocks[x].off = Start(x)
      BY <1>1, <1>2, RingIs DEF Headers
    <2> DEFINE bs == hb'.blocks
    <2>2. Len(bs) = m + 1 /\ bs[m + 1] = hdr /\ \A x \in 1..m : bs[x] = hb.blocks[x]
      BY <1>7, <1>8, <1>9, <2>1
    <2>3. Len(hb'.xs) = m + 1 /\ Len(z.xs) = m + 1
      BY <1>8, <1>9, <2>1
    <2>4. n = m + 1
      BY <1>5, <1>6, <2>1
    <2> HIDE DEF bs, m
    <2>5. ASSUME NEW x \in 1..(m + 1)
          PROVE  /\ Starts(hb')[x] = x - 1 /\ Ends(hb')[x] = x - 1
                 /\ bs[x].utc = Utc(x) /\ bs[x].off = Start(x)
      <3>1. CASE x = m + 1
        <4>1. Starts(hb')[x] = m /\ Ends(hb')[x] = m
          BY <1>8, <1>9, <2>3, <3>1 DEF m
        <4>2. x - 1 = m
          BY <2>1, <3>1
        <4> QED BY <1>7, <2>2, <2>4, <3>1, <4>1, <4>2
      <3>2. CASE x # m + 1
        <4>1. x \in 1..m /\ x \in 1..Len(z.xs) /\ x # Len(z.xs)
          BY <2>1, <2>3, <3>2
        <4>2. Starts(hb')[x] = Starts(hb)[x] /\ Ends(hb')[x] = Ends(hb)[x]
          BY <1>8, <1>9, <2>1, <4>1 
        <4> QED BY <2>1, <2>2, <4>1, <4>2
      <3> QED BY <3>1, <3>2
    <2>6. \A x \in 1..(m + 1) : Utc(x)' = Utc(x) /\ Start(x)' = Start(x)
      BY <1>12, <2>4
    <2>7. hb'.w # "WRITING" /\ hb'.h # "READING"
      BY <1>8, <1>9, <2>1
    <2> QED BY <2>2, <2>3, <2>5, <2>6, <2>7, Zenon DEF Headers, bs
  <1>15. Counts'
    <2>1. Waiting(hb)' = 0 /\ Waiting(db)' = Waiting(db)
      BY <1>3, <1>9 DEF Waiting
    <2>2. Len(hb'.blocks) = n - 0
      <3>1. hb.blocks \in Seq(Hdr)
        BY <1>2, RingIs
      <3> QED BY <1>5, <1>6, <1>7, <1>8, <1>9, <3>1
    <2>3. Counts
      BY <1>1
    <2> QED BY <1>3, <1>6, <1>9, <1>10, <2>1, <2>2, <2>3 DEF Counts, Active
  <1>16. HasJob'
    BY <1>1, <1>3, <1>10, Zenon DEF HasJob
  <1>17. Place'
    <2>1. At(1, 0, 0)
      <3>1. wr.files \in Seq(FileRec) /\ 1 \in 1..Len(wr.files)
        <4>1. wr.files \in Seq(FileRec)
          BY <1>2, WrIs
        <4>2. Len(ended[n].job.files) > 0
          BY <1>2, <1>5, JobIs
        <4>3. Len(wr.files) > 0
          BY <1>5, <4>2
        <4> QED BY <4>1, <4>3
      <3> DEFINE f == wr.files[1]
      <3>2. f \in FileRec
        BY <3>1, ElementOfSeq
      <3>3. f.size \in Nat /\ f.off \in Nat
        BY <3>2 DEF FileRec
      <3>4. f.utc = Utc(n) /\ (wr.app = "diskdb" => f.off = Start(n))
        BY <1>5, Zenon DEF Utc, Start
      <3>5. 0 \in 0..f.size /\ f.off + 0 = f.off + 0
        BY <3>3
      <3> QED BY <1>5, <3>1, <3>4, <3>5, Zenon DEF At
    <2>2. At(wr.cur, wr.pos, wr.done)'
      <3>1. /\ wr'.app = wr.app /\ wr'.files = wr.files /\ wr'.job = wr.job
            /\ wr'.cur = 1 /\ wr'.pos = 0 /\ wr'.done = 0 /\ ended' = ended
        BY <1>3, <1>6, <1>10
      <3>2. Utc(wr.job)' = Utc(wr.job) /\ Start(wr.job)' = Start(wr.job)
        BY <3>1 DEF Utc, Start
      <3> QED BY <2>1, <3>1, <3>2, Zenon DEF At
    <2> QED BY <1>10, <2>2 DEF Place
  <1>18. Holding'
    <2>1. wr.open = FALSE /\ wr.blk = <<>> /\ wr.buf = <<>>
      <3>1. wr.open => db.w = "WRITING"
        BY <1>1 DEF Holding
      <3>2. wr.open \in BOOLEAN
        BY <1>2, WrIs
      <3>3. ~wr.open
        BY <1>6, <3>1
      <3> QED BY <1>1, <1>3, <3>2, <3>3 DEF Holding
    <2>2. Put(db)' = 0 /\ Len(db.blocks) \in Nat
      <3>1. Put(db) = (Len(db.blocks) - Len(db.blocks)) * BUFSZ
        BY <1>6 DEF Put, Base
      <3>2. Len(db.blocks) \in Nat /\ BUFSZ \in Nat
        BY <1>2, RingIs DEF Fits
      <3> QED BY <1>3, <3>1, <3>2
    <2>3. BUFSZ \in Nat
      BY DEF Fits
    <2>4. Len(wr'.blk) = 0 /\ Len(wr'.buf) = 0
      BY <1>10, <2>1
    <2>5. From(wr'.blk, Utc(wr.job), Start(wr.job) + 0) /\ From(wr'.buf, Utc(wr.job), Start(wr.job) + 0 + 0)
      BY <1>10, <2>1, FromEmpty
    <2>6. Utc(wr.job)' = Utc(wr.job) /\ Start(wr.job)' = Start(wr.job) /\ wr'.job = wr.job
      BY <1>3, <1>10 DEF Utc, Start
    <2>7. /\ From(wr.blk, Utc(wr.job), Start(wr.job) + Put(db))'
          /\ From(wr.buf, Utc(wr.job), Start(wr.job) + Put(db) + Len(wr.blk))'
      BY <2>2, <2>4, <2>5, <2>6, Zenon DEF From
    <2>8. wr'.open = FALSE /\ wr'.blk = <<>> /\ wr'.buf = <<>> /\ db'.w = "WCHANGE"
      BY <1>3, <1>6, <1>10, <2>1
    <2>9. wr'.done = Put(db)' + Len(wr'.blk) + Len(wr'.buf)
      BY <1>10, <2>2, <2>4
    <2> QED BY <1>10, <2>3, <2>4, <2>7, <2>8, <2>9 DEF Holding, Active
  <1>19. ReaderSide'
    <2>1. hb'.h = hb.h /\ hb'.rx = hb.rx
      BY <1>8, <1>9
    <2> QED BY <1>1, <1>3, <1>12, <2>1, WriterSteps
  <1>20. RingOk(db, NBUFS, Open)'
    BY <1>1, <1>3 DEF Open
  <1> QED BY <1>9, <1>11, <1>13, <1>14, <1>15, <1>16, <1>17, <1>18, <1>19, <1>20
          DEF DataInv, WriterSide

\* A step that changes nothing but where the write client is in its program.
LEMMA OnlyWr ==
  ASSUME DataInv, wr' \in WrT, hb' = hb, db' = db, rd' = rd, disk' = disk, ended' = ended,
         Counts', HasJob', Place', Holding'
  PROVE  DataInv'
  <1>1. /\ ClientType /\ RingOk(hb, NHDR, 0) /\ RingOk(db, NBUFS, Open)
        /\ Data /\ Headers /\ ReaderSide
    BY DEF DataInv, WriterSide
  <1>2. ClientType'
    BY <1>1 DEF ClientType
  <1>3. \A x : Utc(x)' = Utc(x) /\ Start(x)' = Start(x)
    BY DEF Utc, Start
  <1>4. Data'
    BY <1>1, <1>3, Zenon DEF Data, DataOf, InTransfer
  <1>5. Headers'
    BY <1>1, <1>3, Zenon DEF Headers
  <1>6. ReaderSide'
    BY <1>1, <1>3, Zenon DEF ReaderSide, InStep, Carrying, Match, Reading, X, Got, NextByte, Taken
  <1>7. RingOk(hb, NHDR, 0)' /\ RingOk(db, NBUFS, Open)'
    BY <1>1, Zenon DEF Open
  <1> QED BY <1>2, <1>4, <1>5, <1>6, <1>7, Zenon DEF DataInv, WriterSide

LEMMA Moves ==
  ASSUME DataInv, hb' = hb, db' = db, rd' = rd, disk' = disk, ended' = ended,
         NEW p \in WrPcs, NEW c \in Int, wr' = [wr EXCEPT !.cur = c, !.pc = p],
         \/ wr.pc = "write" /\ p = "failed" /\ c = wr.cur
         \/ wr.pc = "loop" /\ p = "close" /\ wr.buf = <<>> /\ c = wr.cur
         \/ wr.pc = "close" /\ p \in {"stop", "write"}
  PROVE  DataInv'
  <1>1. wr \in WrT /\ Counts /\ HasJob /\ Holding
    BY DEF DataInv, WriterSide, ClientType
  <1>2. /\ wr' \in WrT /\ wr'.pc = p /\ wr'.cur = c /\ wr'.done = wr.done
        /\ wr'.job = wr.job /\ wr'.app = wr.app /\ wr'.zc = wr.zc /\ wr'.files = wr.files
        /\ wr'.cont = wr.cont /\ wr'.sizes = wr.sizes
        /\ wr'.buf = wr.buf /\ wr'.blk = wr.blk /\ wr'.open = wr.open
    BY <1>1, Zenon DEF WrT
  <1>3. Utc(wr.job)' = Utc(wr.job) /\ Start(wr.job)' = Start(wr.job)
    BY <1>2 DEF Utc, Start
  <1>4. wr.pc # "none" /\ p # "none" /\ p # "loop"
    OBVIOUS
  <1>5. Active => hb.w = "WRITER"
    BY <1>1 DEF Counts
  <1>6. Counts'
    <2>1. hb.w = "WCHANGE" => c = 1 /\ db.w = "WCHANGE"
      <3>1. hb.w = "WCHANGE" => db.w = "WCHANGE" /\ wr.cur = 1
        BY <1>1 DEF Counts
      <3>2. Active \/ c = wr.cur
        BY DEF Active
      <3> QED BY <1>5, <3>1, <3>2
    <2>2. Active' => Active
      BY <1>2 DEF Active
    <2> QED BY <1>1, <1>2, <1>4, <1>5, <2>1, <2>2 DEF Counts, Waiting
  <1>7. HasJob'
    BY <1>1, <1>2, <1>4, Zenon DEF HasJob
  <1>8. Place'
    BY <1>2, <1>4 DEF Place
  <1>9. Holding'
    <2>1. Active' => Active
      BY <1>2 DEF Active
    <2>2. wr.buf = <<>>
      BY <1>1 DEF Holding
    <2>3. wr'.pc # "loop" /\ (Active \/ wr.pc = "write")
      BY <1>2, <1>4 DEF Active
    <2>4. (Active \/ wr.pc \in {"write", "failed"})'
      BY <1>2 DEF Active
    <2>5. Put(db)' = Put(db)
      BY DEF Put, Base
    <2>6. Room(db, NBUFS)' = Room(db, NBUFS)
      BY DEF Room
    <2>7. /\ From(wr.blk, Utc(wr.job), Start(wr.job) + Put(db))'
                <=> From(wr.blk, Utc(wr.job), Start(wr.job) + Put(db))
          /\ From(wr.buf, Utc(wr.job), Start(wr.job) + Put(db) + Len(wr.blk))'
                <=> From(wr.buf, Utc(wr.job), Start(wr.job) + Put(db) + Len(wr.blk))
      BY <1>2, <1>3, <2>5, Zenon DEF From
    <2> QED BY <1>1, <1>2, <2>1, <2>2, <2>3, <2>4, <2>6, <2>7, Zenon DEF Holding
  <1> QED BY <1>2, <1>6, <1>7, <1>8, <1>9, OnlyWr

LEMMA WriteHeaderFailsKeeps ==
  ASSUME Fits, DataInv, WriteHeaderFails PROVE DataInv'
  <1>1. wr \in WrT
    BY DEF DataInv, ClientType
  <1>2. "failed" \in WrPcs /\ wr.cur \in Int
    BY <1>1, WrIs DEF WrPcs
  <1>3. wr' = [wr EXCEPT !.cur = wr.cur, !.pc = "failed"] /\ wr.pc = "write"
    BY <1>1, Zenon DEF WriteHeaderFails, WrT
  <1>4. hb' = hb /\ db' = db /\ rd' = rd /\ disk' = disk /\ ended' = ended
    BY DEF WriteHeaderFails
  <1> QED BY <1>2, <1>3, <1>4, Moves

LEMMA LoopDoneKeeps ==
  ASSUME Fits, DataInv, LoopDone PROVE DataInv'
  <1>1. wr \in WrT
    BY DEF DataInv, ClientType
  <1>2. "close" \in WrPcs /\ wr.cur \in Int
    BY <1>1, WrIs DEF WrPcs
  <1>3. wr' = [wr EXCEPT !.cur = wr.cur, !.pc = "close"] /\ wr.pc = "loop" /\ wr.buf = <<>>
    BY <1>1, Zenon DEF LoopDone, WrT
  <1>4. hb' = hb /\ db' = db /\ rd' = rd /\ disk' = disk /\ ended' = ended
    BY DEF LoopDone
  <1> QED BY <1>2, <1>3, <1>4, Moves

LEMMA CloseFileKeeps ==
  ASSUME Fits, DataInv, CloseFile PROVE DataInv'
  <1> DEFINE p == IF wr.cur + 1 > Len(wr.files) THEN "stop" ELSE "write"
             c == wr.cur + 1
  <1>1. wr \in WrT
    BY DEF DataInv, ClientType
  <1>2. p \in WrPcs /\ p \in {"stop", "write"} /\ c \in Int
    <2>1. wr.cur \in Int
      BY <1>1, WrIs
    <2>2. p \in WrPcs /\ p \in {"stop", "write"}
      BY Zenon DEF WrPcs
    <2> QED BY <2>1, <2>2
  <1>3. wr' = [wr EXCEPT !.cur = c, !.pc = p] /\ wr.pc = "close"
    BY Zenon DEF CloseFile
  <1>4. hb' = hb /\ db' = db /\ rd' = rd /\ disk' = disk /\ ended' = ended
    BY DEF CloseFile
  <1> HIDE DEF p, c
  <1> QED BY <1>2, <1>3, <1>4, Moves

LEMMA CloseJunkKeeps ==
  ASSUME Fits, DataInv, CloseJunk PROVE DataInv'
  <1>1. wr \in WrT
    BY DEF DataInv, ClientType
  <1>2. "stop" \in WrPcs /\ wr.cur \in Int
    BY <1>1, WrIs DEF WrPcs
  <1>3. wr' = [wr EXCEPT !.cur = wr.cur, !.pc = "stop"] /\ wr.pc = "close"
    BY <1>1, Zenon DEF CloseJunk, WrT
  <1>4. hb' = hb /\ db' = db /\ rd' = rd /\ disk' = disk /\ ended' = ended
    BY DEF CloseJunk
  <1> QED BY <1>2, <1>3, <1>4, Moves

\* A block that the write client fills.
FilledDb(eod, z) ==
    /\ z \in RingT(Seq(Byte)) /\ RingOk(z, NBUFS, Open)
    /\ z.w = IF eod THEN "WRITER" ELSE "WRITING"
    /\ z.r = db.r /\ z.rx = db.rx /\ z.h = db.h /\ Len(z.xs) = Len(ended)
    /\ \A x \in 1..Len(db.xs) : Starts(z)[x] = Starts(db)[x]
    /\ \A k \in 1..Len(db.blocks) : z.blocks[k] = db.blocks[k]
    /\ DataOf(z)
    /\ ~eod => Put(z) = Put(db) + BUFSZ

LEMMA OpenIs == Open \in Int /\ Open >= 0
  BY DEF Open

LEMMA BlockFilled ==
  ASSUME Fits, DataInv, wr.pc # "none", db.w # "WRITER", Room(db, NBUFS),
         NEW b \in Seq(Byte), NEW eod \in BOOLEAN,
         From(b, Utc(wr.job), Start(wr.job) + Put(db)), eod \/ Len(b) = BUFSZ
  PROVE  FilledDb(eod, Filled(Started(db), b, eod))
  <1> DEFINE y == Started(db)
             z == Filled(y, b, eod)
  <1>1. /\ ClientType /\ RingOk(db, NBUFS, Open) /\ Data /\ Counts
        /\ db \in RingT(Seq(Byte)) /\ ended \in Seq(Run)
    BY DEF DataInv, WriterSide, ClientType
  <1>2. BUFSZ \in Nat /\ NBUFS \in Int
    BY DEF Fits
  <1>3. db.w \in {"WCHANGE", "WRITING"}
    <2>1. db.w # "DISCON"
      BY <1>1 DEF Counts
    <2>2. db.w \in WStates
      BY <1>1, RingIs
    <2> QED BY <2>1, <2>2 DEF WStates
  <1>4. Len(db.xs) = Len(ended) - Waiting(db) /\ wr.job = Len(ended)
        /\ Len(ended) \in Nat /\ Len(db.xs) \in Nat /\ Len(db.blocks) \in Nat
        /\ db.blocks \in Seq(Seq(Byte))
    BY <1>1, RingIs, LenIs DEF Counts
  <1>5. /\ y \in RingT(Seq(Byte)) /\ RingOk(y, NBUFS, Open) /\ y.w = "WRITING"
        /\ y.blocks = db.blocks /\ y.clear = db.clear /\ y.r = db.r /\ y.rx = db.rx /\ y.h = db.h
        /\ db.w = "WRITING" => y = db
        /\ db.w = "WCHANGE" => Len(y.xs) = Len(db.xs) + 1
        /\ \A x \in 1..Len(db.xs) : Starts(y)[x] = Starts(db)[x]
    BY <1>1, <1>3, StartedIs
  <1>6. DataOf(y) /\ Put(y) = Put(db)
    BY <1>1, <1>3, DataStartedIs DEF Data
  <1> HIDE DEF y
  <1>7. Len(y.xs) = Len(ended) /\ Len(db.xs) <= Len(y.xs)
    <2>1. CASE db.w = "WRITING"
      <3>1. Len(y.xs) = Len(db.xs)
        BY <1>5, <2>1
      <3>2. Waiting(db) = 0
        BY <2>1 DEF Waiting
      <3> QED BY <1>4, <3>1, <3>2
    <2>2. CASE db.w = "WCHANGE"
      <3>1. Len(y.xs) = Len(db.xs) + 1
        BY <1>5, <2>2
      <3>2. Waiting(db) = 1
        BY <2>2 DEF Waiting
      <3> QED BY <1>4, <3>1, <3>2
    <2> QED BY <1>3, <2>1, <2>2
  <1>8. Len(y.blocks) - y.clear < NBUFS
    BY <1>5 DEF Room
  <1>9. /\ z \in RingT(Seq(Byte)) /\ RingOk(z, NBUFS, Open)
        /\ z.w = (IF eod THEN "WRITER" ELSE "WRITING")
        /\ z.blocks = Append(y.blocks, b)
        /\ z.r = y.r /\ z.rx = y.rx /\ z.h = y.h /\ Len(z.xs) = Len(y.xs)
        /\ \A x \in 1..Len(y.xs) : Starts(z)[x] = Starts(y)[x]
    BY <1>2, <1>5, <1>8, OpenIs, FilledIs
  <1>10. From(b, Utc(Len(y.xs)), Start(Len(y.xs)) + Put(y))
    BY <1>4, <1>6, <1>7
  <1>11. DataOf(z) /\ (~eod => Put(z) = Put(y) + BUFSZ)
    BY <1>2, <1>5, <1>6, <1>8, <1>10, OpenIs, DataFilledIs
  <1> HIDE DEF z
  <1>12. \A k \in 1..Len(db.blocks) : z.blocks[k] = db.blocks[k]
    BY <1>4, <1>5, <1>9
  <1>13. \A x \in 1..Len(db.xs) : Starts(z)[x] = Starts(db)[x]
    <2>1. \A x \in 1..Len(db.xs) : x \in 1..Len(y.xs)
      BY <1>4, <1>7
    <2> QED BY <1>5, <1>9, <2>1
  <1>14. FilledDb(eod, z)
    BY <1>5, <1>6, <1>7, <1>9, <1>11, <1>12, <1>13 DEF FilledDb
  <1> QED BY <1>14 DEF z, y

\* What every step of the two loops leaves as it was, for the other client too.
DbGrows ==
    /\ db' \in RingT(Seq(Byte)) /\ RingOk(db', NBUFS, Open) /\ db'.w # "DISCON"
    /\ db'.r = db.r /\ db'.rx = db.rx /\ db'.h = db.h
    /\ Len(db'.xs) = Len(ended) - Waiting(db')
    /\ \A x \in 1..Len(db.xs) : Starts(db')[x] = Starts(db)[x]
    /\ \A k \in 1..Len(db.blocks) : db'.blocks[k] = db.blocks[k]
    /\ DataOf(db')

SameJob ==
    /\ wr' \in WrT /\ wr'.pc \in {"loop", "close"} /\ wr'.job = wr.job /\ wr'.app = wr.app
    /\ wr'.zc = wr.zc /\ wr'.files = wr.files /\ wr'.cont = wr.cont /\ wr'.sizes = wr.sizes

SameRuns ==
    /\ ended' \in Seq(Run) /\ Len(ended') = Len(ended)
    /\ \A x \in 1..Len(ended) : ended'[x].job = ended[x].job

LEMMA LoopSteps ==
  ASSUME DataInv, Active, hb' = hb, rd' = rd, disk' = disk, DbGrows, SameJob, SameRuns,
         Place', Holding'
  PROVE  DataInv'
  <1>1. /\ ClientType /\ RingOk(hb, NHDR, 0) /\ RingOk(db, NBUFS, Open)
        /\ Headers /\ Counts /\ HasJob /\ ReaderSide
        /\ hb \in RingT(Hdr) /\ ended \in Seq(Run) /\ rd \in RdT /\ disk \in Seq(FileT)
    BY DEF DataInv, WriterSide, ClientType
  <1>2. \A x \in 1..Len(ended) : Utc(x)' = Utc(x) /\ Start(x)' = Start(x)
    BY DEF SameRuns, Utc, Start
  <1>3. ClientType'
    BY <1>1 DEF ClientType, DbGrows, SameJob, SameRuns
  <1>4. Len(ended) \in Nat /\ Len(hb.blocks) \in Nat /\ Len(db'.xs) \in Nat
        /\ Waiting(db)' \in {0, 1} /\ Waiting(hb) \in {0, 1}
    BY <1>1, RingIs, LenIs DEF DbGrows, Waiting
  <1>5. Len(db'.xs) <= Len(ended) /\ Len(hb.blocks) <= Len(ended)
    <2>1. Len(db'.xs) = Len(ended) - Waiting(db')
      BY DEF DbGrows
    <2>2. Len(hb.blocks) = Len(ended) - Waiting(hb)
      BY <1>1 DEF Counts
    <2>3. Waiting(db') = Waiting(db)'
      BY DEF Waiting
    <2> QED BY <1>4, <2>1, <2>2, <2>3
  <1>6. Data'
    <2>1. DataOf(db')
      BY DEF DbGrows
    <2> QED BY <1>2, <1>4, <1>5, <2>1, DataPrimed
  <1>7. Headers'
    <2>1. hb'.blocks = hb.blocks /\ hb'.xs = hb.xs /\ hb'.w # "WRITING" /\ hb'.h # "READING"
      BY <1>1 DEF Headers
    <2> QED BY <1>1, <1>2, <1>4, <1>5, <2>1, HeadersStay
  <1>8. Counts'
    <2>1. hb'.w = "WRITER" /\ wr.pc # "none" /\ wr.job > 0
      BY <1>1 DEF Counts, Active
    <2>2. wr'.pc # "none" /\ Active'
      BY DEF SameJob, Active
    <2>3. Waiting(hb') = Waiting(hb) /\ Waiting(hb)' = Waiting(hb') /\ Waiting(db)' = Waiting(db')
      BY DEF Waiting
    <2>4. Len(hb'.blocks) = Len(ended') - Waiting(hb)' /\ Len(db'.xs) = Len(ended') - Waiting(db)'
      BY <1>1, <2>3 DEF Counts, DbGrows, SameRuns
    <2>5. wr'.job = Len(ended') /\ wr'.job > 0 /\ db'.w # "DISCON"
      BY <1>1, <2>1 DEF Counts, DbGrows, SameRuns, SameJob
    <2> QED BY <2>1, <2>2, <2>4, <2>5 DEF Counts
  <1>9. HasJob'
    <2>1. wr.pc # "none"
      BY DEF Active
    <2>2. wr.job \in 1..Len(ended)
      BY <1>1, <2>1, RunOf
    <2>3. ended'[wr.job].job = ended[wr.job].job
      BY <2>2 DEF SameRuns
    <2> QED BY <1>1, <2>1, <2>3, Zenon DEF HasJob, SameJob
  <1>10. ReaderSide'
    <2>1. /\ hb'.h = hb.h /\ hb'.rx = hb.rx /\ db'.h = db.h /\ db'.r = db.r /\ db'.rx = db.rx
          /\ \A x \in 1..Len(db.xs) : Starts(db')[x] = Starts(db)[x]
          /\ \A k \in 1..Len(db.blocks) : db'.blocks[k] = db.blocks[k]
      BY DEF DbGrows
    <2> QED BY <1>1, <1>2, <2>1, WriterSteps
  <1>11. RingOk(hb, NHDR, 0)' /\ RingOk(db, NBUFS, Open)'
    BY <1>1, Zenon DEF Open, DbGrows
  <1> QED BY <1>3, <1>6, <1>7, <1>8, <1>9, <1>10, <1>11, Zenon DEF DataInv, WriterSide

\* ipcio_write marks a block filled.
LEMMA LoopFillKeeps ==
  ASSUME Fits, DataInv, LoopFill PROVE DataInv'
  <1>1. /\ ClientType /\ Counts /\ Holding /\ Place
        /\ ended \in Seq(Run) /\ wr \in WrT
    BY DEF DataInv, WriterSide, ClientType
  <1>2. /\ wr.pc = "loop" /\ wr.buf # <<>> /\ wr.open /\ Len(wr.blk) = BUFSZ
        /\ db' = Filled(db, wr.blk, FALSE)
        /\ wr' = [wr EXCEPT !.open = FALSE, !.blk = <<>>]
        /\ hb' = hb /\ rd' = rd /\ disk' = disk /\ ended' = ended
    BY Zenon DEF LoopFill
  <1>3. Active /\ db.w = "WRITING" /\ Room(db, NBUFS)
    BY <1>1, <1>2 DEF Active, Holding
  <1>4. /\ From(wr.blk, Utc(wr.job), Start(wr.job) + Put(db))
        /\ From(wr.buf, Utc(wr.job), Start(wr.job) + Put(db) + Len(wr.blk))
        /\ wr.done = Put(db) + Len(wr.blk) + Len(wr.buf)
    BY <1>1, <1>2, <1>3 DEF Holding
  <1>5. /\ wr.blk \in Seq(Byte) /\ Len(wr.buf) \in Nat /\ wr.job \in 1..Len(ended)
        /\ Start(wr.job) \in Nat /\ BUFSZ \in Nat
    BY <1>1, <1>2, WrIs, RunOf, JobIs DEF Fits, DataInv, WriterSide
  <1>6. Started(db) = db
    BY <1>3 DEF Started
  <1>7. FilledDb(FALSE, db')
    <2> DEFINE eod == FALSE
    <2>1. eod \in BOOLEAN /\ Filled(Started(db), wr.blk, eod) = db'
      BY <1>2, <1>6
    <2> HIDE DEF eod
    <2>2. FilledDb(eod, Filled(Started(db), wr.blk, eod))
      BY <1>2, <1>3, <1>4, <1>5, <2>1, BlockFilled
    <2> QED BY <2>1, <2>2 DEF eod
  <1>8. DbGrows /\ Put(db') = Put(db) + BUFSZ /\ db'.w = "WRITING"
    <2>1. Len(ended) \in Nat
      BY <1>1, LenIs
    <2>2. db'.w = "WRITING"
      BY <1>7 DEF FilledDb
    <2>3. Len(db'.xs) = Len(ended) - Waiting(db')
      BY <1>7, <2>1, <2>2 DEF FilledDb, Waiting
    <2> QED BY <1>7, <2>2, <2>3 DEF FilledDb, DbGrows
  <1>9. /\ SameJob /\ wr'.open = FALSE /\ wr'.blk = <<>> /\ wr'.buf = wr.buf
        /\ wr'.pc = "loop" /\ wr'.done = wr.done /\ wr'.cur = wr.cur /\ wr'.pos = wr.pos
    <2>1. /\ wr' \in WrT /\ wr'.job = wr.job /\ wr'.app = wr.app
          /\ wr'.zc = wr.zc /\ wr'.files = wr.files /\ wr'.cont = wr.cont /\ wr'.sizes = wr.sizes
          /\ wr'.open = FALSE /\ wr'.blk = <<>> /\ wr'.buf = wr.buf
          /\ wr'.pc = wr.pc /\ wr'.done = wr.done /\ wr'.cur = wr.cur /\ wr'.pos = wr.pos
      <3>1. <<>> \in Seq(Byte) /\ FALSE \in BOOLEAN
        OBVIOUS
      <3> QED BY <1>1, <1>2, <3>1, Zenon DEF WrT
    <2> QED BY <1>2, <2>1 DEF SameJob
  <1>10. SameRuns
    BY <1>1, <1>2 DEF SameRuns
  <1>11. Place'
    <2>1. At(wr.cur, wr.pos, wr.done)' <=> At(wr.cur, wr.pos, wr.done)
      <3>1. /\ wr'.app = wr.app /\ wr'.files = wr.files /\ wr'.job = wr.job
            /\ wr'.done = wr.done /\ wr'.cur = wr.cur /\ wr'.pos = wr.pos
        BY <1>9 DEF SameJob
      <3>2. wr'.job = wr.job /\ ended' = ended
        BY <1>2, <3>1
      <3>3. Utc(wr.job)' = Utc(wr.job) /\ Start(wr.job)' = Start(wr.job)
        BY <3>2 DEF Utc, Start
      <3> QED BY <3>1, <3>3, Zenon DEF At
    <2> QED BY <1>1, <1>2, <1>9, <2>1, Zenon DEF Place
  <1>12. Holding'
    <2> DEFINE u == Utc(wr.job)
               s == Start(wr.job)
               p == Put(db)
               p2 == Put(db')
    <2>1. Utc(wr.job)' = u /\ Start(wr.job)' = s /\ Put(db)' = p2
      BY <1>2, <1>9 DEF SameJob, Utc, Start, Put, Base
    <2>2. s \in Nat /\ p2 = p + BUFSZ /\ p \in Int
      <3>1. p \in Int
        <4>1. Base(db) \in Int /\ Len(db.blocks) \in Nat
          <5>1. db \in RingT(Seq(Byte)) /\ RingOk(db, NBUFS, Open)
            BY DEF DataInv, ClientType
          <5>2. Len(db.xs) \in 1..Len(db.xs) /\ Starts(db) \in [1..Len(db.xs) -> Int] /\ Len(db.blocks) \in Nat
            <6>1. Len(db.xs) > 0
              BY <1>3, <5>1 DEF RingOk, Layout
            <6>2. Len(db.xs) \in Nat
              BY <5>1, RingIs
            <6> QED BY <5>1, <6>1, <6>2, RingIs
          <5> QED BY <1>3, <5>2 DEF Base
        <4> QED BY <1>5, <4>1 DEF Put
      <3> QED BY <1>5, <1>8, <3>1
    <2> HIDE DEF u, s, p, p2
    <2>3. s + p2 + 0 = s + p + BUFSZ
      BY <1>5, <2>2
    <2>4. Len(wr'.blk) = 0 /\ Len(wr'.buf) = Len(wr.buf)
      BY <1>9
    <2>5. From(wr'.blk, u, s + p2)
      BY <1>9, FromEmpty
    <2>6. From(wr'.buf, u, s + p2 + Len(wr'.blk))
      BY <1>2, <1>4, <1>9, <2>3, <2>4 DEF u, s, p
    <2>7. wr'.done = p2 + Len(wr'.blk) + Len(wr'.buf)
      <3>1. wr.done = p + BUFSZ + Len(wr.buf)
        BY <1>2, <1>4 DEF p
      <3> QED BY <1>5, <1>9, <2>2, <2>4, <3>1
    <2>8. /\ From(wr.blk, Utc(wr.job), Start(wr.job) + Put(db))'
          /\ From(wr.buf, Utc(wr.job), Start(wr.job) + Put(db) + Len(wr.blk))'
          /\ wr'.done = Put(db)' + Len(wr'.blk) + Len(wr'.buf)
      BY <2>1, <2>5, <2>6, <2>7, Zenon DEF From
    <2>9. wr.zc => wr'.open = FALSE /\ wr.buf = <<>>
      BY <1>1, <1>2, <1>3 DEF Holding
    <2>10. Len(wr'.blk) <= BUFSZ
      BY <1>5, <2>4
    <2> QED BY <1>2, <1>8, <1>9, <2>8, <2>9, <2>10 DEF Holding, SameJob
  <1> QED BY <1>2, <1>3, <1>8, <1>9, <1>10, <1>11, <1>12, LoopSteps

LEMMA PutIs ==
  ASSUME BUFSZ \in Nat, NEW q \in RingT(Seq(Byte)), NEW n, NEW o, RingOk(q, n, o)
  PROVE  Put(q) \in Int /\ Base(q) \in Int /\ Len(q.blocks) \in Nat
  <1>1. /\ Len(q.blocks) \in Nat /\ Len(q.xs) \in Nat /\ Starts(q) \in [1..Len(q.xs) -> Int]
    BY RingIs
  <1>2. Base(q) \in Int
    <2>1. CASE q.w = "WRITING"
      <3>1. Len(q.xs) > 0
        BY <2>1 DEF RingOk, Layout
      <3>2. Len(q.xs) \in 1..Len(q.xs)
        BY <1>1, <3>1
      <3> QED BY <1>1, <2>1, <3>2 DEF Base
    <2>2. CASE q.w # "WRITING"
      BY <1>1, <2>2 DEF Base
    <2> QED BY <2>1, <2>2
  <1> QED BY <1>1, <1>2 DEF Put

LEMMA AskIs ==
  ASSUME wr \in WrT, NEW n \in Nat, wr.want = 0 \/ wr.done < wr.want
  PROVE  Ask(n) \in Nat /\ Ask(n) <= n
  <1> DEFINE w == wr.want
             d == wr.done
             a == IF w = 0 \/ w - d > n THEN n ELSE w - d
  <1>1. w \in Int /\ d \in Int /\ (w = 0 \/ d < w)
    BY WrIs
  <1>2. Ask(n) = a
    BY Zenon DEF Ask
  <1> HIDE DEF w, d
  <1>3. a \in Nat /\ a <= n
    BY <1>1
  <1> HIDE DEF a
  <1> QED BY <1>2, <1>3

LEMMA RunBytes ==
  ASSUME ended \in Seq(Run), NEW j \in 1..Len(ended), NEW b \in Seq(Byte),
         ended' = [ended EXCEPT ![j].bytes = @ \o b]
  PROVE  SameRuns
  <1> DEFINE r == ended[j]
             bytes == r.bytes \o b
             t == [r EXCEPT !.bytes = bytes]
  <1>1. r \in Run
    BY ElementOfSeq
  <1>2. ended' = [ended EXCEPT ![j] = t]
    BY Zenon
  <1> HIDE DEF r
  <1>3. bytes \in Seq(Byte)
    BY <1>1 DEF Run
  <1> HIDE DEF bytes
  <1>4. t \in Run /\ t.job = r.job
    BY <1>1, <1>3 DEF Run
  <1> HIDE DEF t
  <1>5. /\ ended' \in Seq(Run) /\ Len(ended') = Len(ended)
        /\ \A x \in 1..Len(ended) : ended'[x] = IF x = j THEN t ELSE ended[x]
    <2>1. t \in Run
      BY <1>4
    <2>2. [ended EXCEPT ![j] = t] \in Seq(Run) /\ Len([ended EXCEPT ![j] = t]) = Len(ended)
          /\ \A x \in 1..Len(ended) : [ended EXCEPT ![j] = t][x] = IF x = j THEN t ELSE ended[x]
      BY <2>1, ExceptSeq
    <2> QED BY <1>2, <2>2, Zenon
  <1> QED BY <1>4, <1>5 DEF SameRuns, r

LEMMA DbSame ==
  ASSUME DataInv, Active, db' = db
  PROVE  DbGrows
  <1>1. /\ db \in RingT(Seq(Byte)) /\ RingOk(db, NBUFS, Open) /\ Counts /\ DataOf(db)
    BY DEF DataInv, WriterSide, ClientType, Data
  <1>2. db.w # "DISCON" /\ Len(db.xs) = Len(ended) - Waiting(db)
    BY <1>1 DEF Counts, Active
  <1>3. Waiting(db') = Waiting(db)
    BY DEF Waiting
  <1> QED BY <1>1, <1>2, <1>3 DEF DbGrows

\* dada_client_io_loop reads the next chunk.
LEMMA LoopReadKeeps ==
  ASSUME Fits, DataInv, LoopRead PROVE DataInv'
  <1> DEFINE s == Source(Ask(CHUNK))
             l == Len(s.bytes)
             d == wr.done + l
             p == IF s.bytes = <<>> THEN "close" ELSE wr.pc
  <1>1. /\ ClientType /\ Counts /\ Holding /\ Place /\ HasJob
        /\ ended \in Seq(Run) /\ wr \in WrT
        /\ db \in RingT(Seq(Byte)) /\ RingOk(db, NBUFS, Open)
    BY DEF DataInv, WriterSide, ClientType
  <1>2. /\ wr.pc = "loop" /\ ~wr.zc /\ wr.buf = <<>> /\ (wr.want = 0 \/ wr.done < wr.want)
        /\ wr' = [wr EXCEPT !.cur = s.cur, !.pos = s.pos, !.buf = s.bytes, !.done = d, !.pc = p]
        /\ ended' = [ended EXCEPT ![wr.job].bytes = @ \o s.bytes]
        /\ hb' = hb /\ db' = db /\ rd' = rd /\ disk' = disk
    BY Zenon DEF LoopRead
  <1>3. Active /\ db.w # "WRITER"
    BY <1>1, <1>2 DEF Active, Holding
  <1>4. Ask(CHUNK) \in Nat
    BY <1>1, <1>2, AskIs DEF Fits
  <1>5. /\ s.bytes \in Seq(Byte) /\ l \in Nat
        /\ From(s.bytes, Utc(wr.job), Start(wr.job) + wr.done)
        /\ s.cur \in Int /\ s.pos \in Int /\ At(s.cur, s.pos, d)
    BY <1>1, <1>2, <1>4, SourceIs
  <1>6. /\ wr.job \in 1..Len(ended) /\ wr.done \in Int /\ wr.done >= 0
        /\ Len(wr.blk) \in Nat /\ Start(wr.job) \in Nat /\ Put(db) \in Int
    BY <1>1, <1>2, WrIs, RunOf, JobIs, PutIs DEF Fits, Place
  <1>7. wr.done = Put(db) + Len(wr.blk) + 0
    <2>1. wr.done = Put(db) + Len(wr.blk) + Len(wr.buf)
      BY <1>1, <1>2, <1>3 DEF Holding
    <2> QED BY <1>2, <2>1
  <1>8. d \in Int /\ d >= 0
    BY <1>5, <1>6
  <1>9. p \in {"close", "loop"}
    BY <1>2
  <1> HIDE DEF s
  <1>10. SameRuns
    BY <1>1, <1>2, <1>5, <1>6, RunBytes
  <1> HIDE DEF d
  <1>11. /\ SameJob /\ wr'.open = wr.open /\ wr'.blk = wr.blk /\ wr'.buf = s.bytes
         /\ wr'.pc = p /\ wr'.done = d /\ wr'.cur = s.cur /\ wr'.pos = s.pos
    <2>1. p \in WrPcs
      BY <1>9 DEF WrPcs
    <2> HIDE DEF p
    <2>2. /\ wr' \in WrT /\ wr'.job = wr.job /\ wr'.app = wr.app
          /\ wr'.zc = wr.zc /\ wr'.files = wr.files /\ wr'.cont = wr.cont /\ wr'.sizes = wr.sizes
          /\ wr'.open = wr.open /\ wr'.blk = wr.blk /\ wr'.buf = s.bytes
          /\ wr'.pc = p /\ wr'.done = d /\ wr'.cur = s.cur /\ wr'.pos = s.pos
      BY <1>1, <1>2, <1>5, <1>8, <2>1, Zenon DEF WrT
    <2> QED BY <1>9, <2>2, Zenon DEF SameJob
  <1>12. Utc(wr.job)' = Utc(wr.job) /\ Start(wr.job)' = Start(wr.job)
    <2>1. ended'[wr.job].job = ended[wr.job].job
      BY <1>6, <1>10 DEF SameRuns
    <2> QED BY <1>11, <2>1, Zenon DEF SameJob, Utc, Start
  <1>13. Place'
    <2>1. At(wr.cur, wr.pos, wr.done)' <=> At(s.cur, s.pos, d)
      BY <1>11, <1>12, Zenon DEF At, SameJob
    <2> QED BY <1>5, <1>8, <1>11, <2>1, Zenon DEF Place
  <1>14. Holding'
    <2>1. wr.blk = wr'.blk /\ Put(db)' = Put(db) /\ Room(db, NBUFS)' = Room(db, NBUFS)
      BY <1>2, <1>11, Zenon DEF Put, Base, Room
    <2>2. From(wr.blk, Utc(wr.job), Start(wr.job) + Put(db))
      BY <1>1, <1>3 DEF Holding
    <2>3. Start(wr.job) + wr.done = Start(wr.job) + Put(db) + Len(wr.blk)
      BY <1>6, <1>7
    <2>4. From(s.bytes, Utc(wr.job), Start(wr.job) + Put(db) + Len(wr.blk))
      BY <1>5, <2>3
    <2>5. d = Put(db) + Len(wr.blk) + l
      BY <1>5, <1>6, <1>7 DEF d
    <2>6. /\ From(wr.blk, Utc(wr.job), Start(wr.job) + Put(db))'
          /\ From(wr.buf, Utc(wr.job), Start(wr.job) + Put(db) + Len(wr.blk))'
          /\ wr'.done = Put(db)' + Len(wr'.blk) + Len(wr'.buf)
      BY <1>11, <1>12, <2>1, <2>2, <2>4, <2>5, Zenon DEF From
    <2>7. wr'.pc # "loop" => wr'.buf = <<>>
      BY <1>2, <1>11
    <2>8. /\ Len(wr.blk) <= BUFSZ /\ (~wr.open => wr.blk = <<>>)
          /\ wr.open => db.w = "WRITING" /\ Room(db, NBUFS)
      BY <1>1 DEF Holding
    <2>9. Active' /\ ~wr'.zc
      BY <1>2, <1>9, <1>11 DEF Active, SameJob
    <2>10. db'.w = db.w
      BY <1>2
    <2> QED BY <1>3, <1>11, <2>1, <2>6, <2>7, <2>8, <2>9, <2>10, Zenon DEF Holding
  <1>15. DbGrows
    BY <1>2, <1>3, DbSame
  <1> QED BY <1>2, <1>3, <1>10, <1>11, <1>13, <1>14, <1>15, LoopSteps

\* The block that the write client opens, if none is open.
LEMMA DbStarted ==
  ASSUME DataInv, Active, db.w # "WRITER", db' = Started(db)
  PROVE  /\ DbGrows /\ db'.w = "WRITING" /\ Put(db') = Put(db)
         /\ Room(db, NBUFS) => Room(db', NBUFS)
  <1>1. /\ db \in RingT(Seq(Byte)) /\ RingOk(db, NBUFS, Open) /\ Counts /\ DataOf(db)
        /\ ended \in Seq(Run)
    BY DEF DataInv, WriterSide, ClientType, Data
  <1>2. db.w \in {"WCHANGE", "WRITING"}
    <2>1. db.w # "DISCON"
      BY <1>1 DEF Counts, Active
    <2>2. db.w \in WStates
      BY <1>1, RingIs
    <2> QED BY <2>1, <2>2 DEF WStates
  <1>3. /\ db' \in RingT(Seq(Byte)) /\ RingOk(db', NBUFS, Open) /\ db'.w = "WRITING"
        /\ db'.blocks = db.blocks /\ db'.clear = db.clear
        /\ db'.r = db.r /\ db'.rx = db.rx /\ db'.h = db.h
        /\ db.w = "WRITING" => db' = db
        /\ db.w = "WCHANGE" => Len(db'.xs) = Len(db.xs) + 1
        /\ \A x \in 1..Len(db.xs) : Starts(db')[x] = Starts(db)[x]
    BY <1>1, <1>2, StartedIs
  <1>4. DataOf(db') /\ Put(db') = Put(db)
    BY <1>1, <1>2, DataStartedIs
  <1>5. /\ Len(db.xs) = Len(ended) - Waiting(db) /\ Len(ended) \in Nat /\ Len(db.xs) \in Nat
        /\ Waiting(db') = 0
    BY <1>1, <1>3, RingIs, LenIs DEF Counts, Waiting
  <1>6. Len(db'.xs) = Len(ended) - Waiting(db')
    <2>1. CASE db.w = "WRITING"
      <3>1. Waiting(db) = 0 /\ Len(db'.xs) = Len(db.xs)
        BY <1>3, <2>1 DEF Waiting
      <3> QED BY <1>5, <3>1
    <2>2. CASE db.w = "WCHANGE"
      <3>1. Waiting(db) = 1 /\ Len(db'.xs) = Len(db.xs) + 1
        BY <1>3, <2>2 DEF Waiting
      <3> QED BY <1>5, <3>1
    <2> QED BY <1>2, <2>1, <2>2
  <1>7. \A k \in 1..Len(db.blocks) : db'.blocks[k] = db.blocks[k]
    BY <1>3
  <1>8. Room(db, NBUFS) => Room(db', NBUFS)
    BY <1>3 DEF Room
  <1> QED BY <1>3, <1>4, <1>6, <1>7, <1>8 DEF DbGrows

\* ipcio_write copies what fits.
LEMMA LoopWriteKeeps ==
  ASSUME Fits, DataInv, LoopWrite PROVE DataInv'
  <1> DEFINE space == BUFSZ - Len(wr.blk)
             n == IF Len(wr.buf) < space THEN Len(wr.buf) ELSE space
             head == SubSeq(wr.buf, 1, n)
             tail == SubSeq(wr.buf, n + 1, Len(wr.buf))
             blk == wr.blk \o head
             u == Utc(wr.job)
             s == Start(wr.job)
             p == Put(db)
             lb == Len(wr.blk)
             lf == Len(wr.buf)
  <1>1. /\ ClientType /\ Counts /\ Holding /\ Place /\ HasJob
        /\ ended \in Seq(Run) /\ wr \in WrT
        /\ db \in RingT(Seq(Byte)) /\ RingOk(db, NBUFS, Open)
    BY DEF DataInv, WriterSide, ClientType
  <1>2. /\ wr.pc = "loop" /\ wr.buf # <<>> /\ n > 0 /\ (wr.open \/ Room(db, NBUFS))
        /\ db' = Started(db)
        /\ wr' = [wr EXCEPT !.open = TRUE, !.blk = blk, !.buf = tail]
        /\ hb' = hb /\ rd' = rd /\ disk' = disk /\ ended' = ended
    BY Zenon DEF LoopWrite
  <1>3. Active /\ db.w # "WRITER" /\ Room(db, NBUFS) /\ ~wr.zc
    BY <1>1, <1>2 DEF Active, Holding
  <1>4. From(wr.blk, u, s + p) /\ From(wr.buf, u, s + p + lb) /\ wr.done = p + lb + lf
        /\ Len(wr.blk) <= BUFSZ
    BY <1>1, <1>2, <1>3 DEF Holding
  <1>5. DbGrows /\ db'.w = "WRITING" /\ Put(db') = p /\ Room(db', NBUFS)
    BY <1>2, <1>3, DbStarted
  <1>6. /\ wr.blk \in Seq(Byte) /\ wr.buf \in Seq(Byte) /\ lb \in Nat /\ lf \in Nat
        /\ s \in Nat /\ p \in Int /\ BUFSZ \in Nat /\ wr.job \in 1..Len(ended)
    BY <1>1, <1>2, WrIs, RunOf, JobIs, PutIs DEF Fits
  <1> HIDE DEF u, s, p
  <1>7. n \in 0..lf /\ lb + n <= BUFSZ
    <2> HIDE DEF lb, lf
    <2>1. n = IF lf < BUFSZ - lb THEN lf ELSE BUFSZ - lb
      BY Zenon DEF lb, lf
    <2>2. n > 0
      BY <1>2
    <2> HIDE DEF n
    <2> QED BY <1>6, <2>1, <2>2
  <1> HIDE DEF n
  <1>8. /\ head \in Seq(Byte) /\ Len(head) = n /\ From(head, u, s + p + lb)
        /\ tail \in Seq(Byte) /\ Len(tail) = lf - n /\ From(tail, u, s + p + lb + n)
    <2>1. s + p + lb \in Int
      BY <1>6
    <2> QED BY <1>4, <1>6, <1>7, <2>1, FromParts
  <1> HIDE DEF head, tail
  <1>9. blk \in Seq(Byte) /\ Len(blk) = lb + n /\ From(blk, u, s + p)
    <2>1. s + p \in Int
      BY <1>6
    <2> QED BY <1>4, <1>6, <1>8, <2>1, FromConcat
  <1> HIDE DEF blk
  <1>10. /\ SameJob /\ wr'.open = TRUE /\ wr'.blk = blk /\ wr'.buf = tail
         /\ wr'.pc = wr.pc /\ wr'.done = wr.done /\ wr'.cur = wr.cur /\ wr'.pos = wr.pos
    <2>1. /\ wr' \in WrT /\ wr'.job = wr.job /\ wr'.app = wr.app
          /\ wr'.zc = wr.zc /\ wr'.files = wr.files /\ wr'.cont = wr.cont /\ wr'.sizes = wr.sizes
          /\ wr'.open = TRUE /\ wr'.blk = blk /\ wr'.buf = tail
          /\ wr'.pc = wr.pc /\ wr'.done = wr.done /\ wr'.cur = wr.cur /\ wr'.pos = wr.pos
      <3>1. TRUE \in BOOLEAN
        OBVIOUS
      <3> QED BY <1>1, <1>2, <1>8, <1>9, <3>1, Zenon DEF WrT
    <2> QED BY <1>2, <2>1 DEF SameJob
  <1>11. SameRuns
    BY <1>1, <1>2 DEF SameRuns
  <1>12. Place'
    <2>1. At(wr.cur, wr.pos, wr.done)' <=> At(wr.cur, wr.pos, wr.done)
      <3>1. /\ wr'.app = wr.app /\ wr'.files = wr.files /\ wr'.job = wr.job
            /\ wr'.done = wr.done /\ wr'.cur = wr.cur /\ wr'.pos = wr.pos
        BY <1>10 DEF SameJob
      <3>2. wr'.job = wr.job /\ ended' = ended
        BY <1>2, <3>1
      <3>3. Utc(wr.job)' = Utc(wr.job) /\ Start(wr.job)' = Start(wr.job)
        BY <3>2 DEF Utc, Start
      <3> QED BY <3>1, <3>3, Zenon DEF At
    <2> QED BY <1>1, <1>2, <1>10, <2>1, Zenon DEF Place
  <1>13. Holding'
    <2>1. Utc(wr.job)' = u /\ Start(wr.job)' = s /\ Put(db)' = p /\ Room(db, NBUFS)'
      <3>1. Put(db)' = Put(db') /\ Room(db, NBUFS)' = Room(db', NBUFS)
        BY DEF Put, Base, Room
      <3>2. Utc(wr.job)' = Utc(wr.job) /\ Start(wr.job)' = Start(wr.job)
        BY <1>2, <1>10 DEF SameJob, Utc, Start
      <3> QED BY <1>5, <3>1, <3>2, Zenon DEF u, s
    <2>2. s + p + (lb + n) = s + p + lb + n /\ wr.done = p + (lb + n) + (lf - n)
      <3> HIDE DEF lb, lf
      <3>1. n \in Int
        BY <1>7
      <3> QED BY <1>4, <1>6, <3>1
    <2>3. From(blk, u, s + p) /\ From(tail, u, s + p + Len(blk))
          /\ wr.done = p + Len(blk) + Len(tail)
      BY <1>8, <1>9, <2>2
    <2>4. /\ From(wr.blk, Utc(wr.job), Start(wr.job) + Put(db))'
          /\ From(wr.buf, Utc(wr.job), Start(wr.job) + Put(db) + Len(wr.blk))'
          /\ wr'.done = Put(db)' + Len(wr'.blk) + Len(wr'.buf)
      BY <1>10, <2>1, <2>3, Zenon DEF From
    <2>5. Len(wr'.blk) <= BUFSZ
      BY <1>7, <1>9, <1>10
    <2>6. Active' /\ wr'.pc = "loop" /\ ~wr'.zc /\ wr'.open
      BY <1>2, <1>3, <1>10 DEF Active, SameJob
    <2>7. db'.w = "WRITING" /\ db'.w # "WRITER"
      BY <1>5
    <2> QED BY <2>1, <2>4, <2>5, <2>6, <2>7, Zenon DEF Holding
  <1> QED BY <1>2, <1>3, <1>5, <1>10, <1>11, <1>12, <1>13, LoopSteps

\* dada_client_io_loop_block fills a block in place.
LEMMA LoopBlockKeeps ==
  ASSUME Fits, DataInv, LoopBlock PROVE DataInv'
  <1> DEFINE s == Source(Ask(BUFSZ))
             l == Len(s.bytes)
             short == l < BUFSZ
             d == wr.done + l
             pc == IF short THEN "close" ELSE wr.pc
             p == Put(db)
             a == Start(wr.job)
  <1>1. /\ ClientType /\ Counts /\ Holding /\ Place /\ HasJob
        /\ ended \in Seq(Run) /\ wr \in WrT
        /\ db \in RingT(Seq(Byte)) /\ RingOk(db, NBUFS, Open)
    BY DEF DataInv, WriterSide, ClientType
  <1>2. /\ wr.pc = "loop" /\ wr.zc /\ (wr.want = 0 \/ wr.done < wr.want) /\ Room(db, NBUFS)
        /\ db' = Filled(Started(db), s.bytes, short)
        /\ wr' = [wr EXCEPT !.cur = s.cur, !.pos = s.pos, !.done = d, !.pc = pc]
        /\ ended' = [ended EXCEPT ![wr.job].bytes = @ \o s.bytes]
        /\ hb' = hb /\ rd' = rd /\ disk' = disk
    BY Zenon DEF LoopBlock
  <1>3. Active /\ db.w # "WRITER" /\ wr.open = FALSE /\ wr.blk = <<>> /\ wr.buf = <<>>
    <2>1. Active
      BY <1>2 DEF Active
    <2>2. wr.open \in BOOLEAN
      BY <1>1, WrIs
    <2> QED BY <1>1, <1>2, <2>1, <2>2 DEF Holding
  <1>4. BUFSZ \in Nat /\ Ask(BUFSZ) \in Nat /\ Ask(BUFSZ) <= BUFSZ
    BY <1>1, <1>2, AskIs DEF Fits
  <1>5. /\ s.bytes \in Seq(Byte) /\ l \in Nat /\ l <= Ask(BUFSZ)
        /\ From(s.bytes, Utc(wr.job), a + wr.done)
        /\ s.cur \in Int /\ s.pos \in Int /\ At(s.cur, s.pos, d)
    BY <1>1, <1>2, <1>4, SourceIs
  <1>6. /\ wr.job \in 1..Len(ended) /\ wr.done \in Int /\ wr.done >= 0
        /\ a \in Nat /\ p \in Int
    BY <1>1, <1>2, <1>4, WrIs, RunOf, JobIs, PutIs DEF Place
  <1>7. wr.done = p
    <2>1. wr.done = p + Len(wr.blk) + Len(wr.buf)
      BY <1>1, <1>2, <1>3 DEF Holding
    <2>2. Len(wr.blk) = 0 /\ Len(wr.buf) = 0
      BY <1>3
    <2> HIDE DEF p
    <2> QED BY <1>6, <2>1, <2>2
  <1>8. d \in Int /\ d >= 0
    BY <1>5, <1>6
  <1>9. short \in BOOLEAN /\ (short \/ l = BUFSZ)
    <2> HIDE DEF l
    <2> QED BY <1>4, <1>5
  <1> HIDE DEF s, p, a
  <1>10. SameRuns
    BY <1>1, <1>2, <1>5, <1>6, RunBytes
  <1>11. pc \in {"close", "loop"} /\ (pc = "loop" <=> ~short)
    <2> HIDE DEF short
    <2> QED BY <1>2
  <1>12. FilledDb(short, db')
    <2>1. From(s.bytes, Utc(wr.job), Start(wr.job) + Put(db))
      BY <1>5, <1>7 DEF p, a
    <2>2. wr.pc # "none"
      BY <1>2
    <2>3. short \/ Len(s.bytes) = BUFSZ
      BY <1>9
    <2> HIDE DEF short
    <2> QED BY <1>2, <1>3, <1>5, <1>9, <2>1, <2>2, <2>3, BlockFilled
  <1> HIDE DEF d, pc
  <1>13. /\ SameJob /\ wr'.open = FALSE /\ wr'.blk = <<>> /\ wr'.buf = <<>>
         /\ wr'.pc = pc /\ wr'.done = d /\ wr'.cur = s.cur /\ wr'.pos = s.pos
    <2>1. pc \in WrPcs
      BY <1>11 DEF WrPcs
    <2>2. /\ wr' \in WrT /\ wr'.job = wr.job /\ wr'.app = wr.app
          /\ wr'.zc = wr.zc /\ wr'.files = wr.files /\ wr'.cont = wr.cont /\ wr'.sizes = wr.sizes
          /\ wr'.open = wr.open /\ wr'.blk = wr.blk /\ wr'.buf = wr.buf
          /\ wr'.pc = pc /\ wr'.done = d /\ wr'.cur = s.cur /\ wr'.pos = s.pos
      BY <1>1, <1>2, <1>5, <1>8, <2>1, Zenon DEF WrT
    <2> QED BY <1>3, <1>11, <2>2, Zenon DEF SameJob
  <1>14. Utc(wr.job)' = Utc(wr.job) /\ Start(wr.job)' = Start(wr.job)
    <2>1. ended'[wr.job].job = ended[wr.job].job
      BY <1>6, <1>10 DEF SameRuns
    <2> QED BY <1>13, <2>1, Zenon DEF SameJob, Utc, Start
  <1>15. Place'
    <2>1. At(wr.cur, wr.pos, wr.done)' <=> At(s.cur, s.pos, d)
      BY <1>13, <1>14, Zenon DEF At, SameJob
    <2> QED BY <1>5, <1>8, <1>13, <2>1, Zenon DEF Place
  <1>16. DbGrows
    <2>1. Len(ended) \in Nat
      BY <1>1, LenIs
    <2>2. db'.w # "DISCON" /\ Waiting(db') = 0
      <3> HIDE DEF short
      <3> QED BY <1>12 DEF FilledDb, Waiting
    <2>3. Len(db'.xs) = Len(ended) - Waiting(db')
      BY <1>12, <2>1, <2>2 DEF FilledDb
    <2> QED BY <1>12, <2>2, <2>3, Zenon DEF FilledDb, DbGrows
  <1>17. Holding'
    <2> HIDE DEF short
    <2>1. db'.w # "WRITER" => ~short
      BY <1>12 DEF FilledDb
    <2>2. ~short => Put(db') = p + BUFSZ /\ db'.w = "WRITING" /\ wr'.pc = "loop"
      BY <1>11, <1>12, <1>13 DEF FilledDb, p
    <2>3. ~short => d = p + BUFSZ
      BY <1>7, <1>9 DEF d
    <2>4. Len(wr'.blk) = 0 /\ Len(wr'.buf) = 0
      BY <1>13
    <2>5. From(wr'.blk, Utc(wr.job)', Start(wr.job)' + Put(db'))
          /\ From(wr'.buf, Utc(wr.job)', Start(wr.job)' + Put(db') + Len(wr'.blk))
      BY <1>13, FromEmpty
    <2>6. Put(db)' = Put(db')
      BY DEF Put, Base
    <2>7. ~short => wr'.done = Put(db)' + Len(wr'.blk) + Len(wr'.buf)
      <3>1. p + BUFSZ = p + BUFSZ + 0 + 0
        BY <1>4, <1>6
      <3> QED BY <1>13, <2>2, <2>3, <2>4, <2>6, <3>1
    <2>8. /\ From(wr.blk, Utc(wr.job), Start(wr.job) + Put(db))'
          /\ From(wr.buf, Utc(wr.job), Start(wr.job) + Put(db) + Len(wr.blk))'
      BY <2>5, <2>6, Zenon DEF From
    <2>9. wr'.pc = "loop" => db'.w # "WRITER"
      BY <1>11, <1>13, <2>2
    <2>10. wr'.zc /\ Len(wr'.blk) <= BUFSZ
      BY <1>2, <1>4, <1>13, <2>4 DEF SameJob
    <2> QED BY <1>13, <2>1, <2>7, <2>8, <2>9, <2>10, Zenon DEF Holding
  <1> QED BY <1>2, <1>3, <1>10, <1>13, <1>15, <1>16, <1>17, LoopSteps

LEMMA RunDone ==
  ASSUME ended \in Seq(Run), NEW j \in 1..Len(ended), ended' = [ended EXCEPT ![j].done = TRUE]
  PROVE  SameRuns
  <1> DEFINE r == ended[j]
             t == [r EXCEPT !.done = TRUE]
  <1>1. r \in Run
    BY ElementOfSeq
  <1>2. ended' = [ended EXCEPT ![j] = t]
    BY Zenon
  <1> HIDE DEF r
  <1>3. t \in Run /\ t.job = r.job
    BY <1>1 DEF Run
  <1> HIDE DEF t
  <1>4. /\ ended' \in Seq(Run) /\ Len(ended') = Len(ended)
        /\ \A x \in 1..Len(ended) : ended'[x] = IF x = j THEN t ELSE ended[x]
    <2>1. t \in Run
      BY <1>3
    <2>2. [ended EXCEPT ![j] = t] \in Seq(Run) /\ Len([ended EXCEPT ![j] = t]) = Len(ended)
          /\ \A x \in 1..Len(ended) : [ended EXCEPT ![j] = t][x] = IF x = j THEN t ELSE ended[x]
      BY <2>1, ExceptSeq
    <2> QED BY <1>2, <2>2, Zenon
  <1> QED BY <1>3, <1>4 DEF SameRuns, r

\* dada_client_close: end of data.
LEMMA DataEndedIs ==
  ASSUME Fits, DataInv, wr.pc = "stop", wr.open \/ db.w = "WRITER" \/ Room(db, NBUFS)
  PROVE  FilledDb(TRUE, DataEnded)
  <1>1. /\ ClientType /\ Counts /\ Holding /\ DataOf(db) /\ wr \in WrT /\ ended \in Seq(Run)
        /\ db \in RingT(Seq(Byte)) /\ RingOk(db, NBUFS, Open)
    BY DEF DataInv, WriterSide, ClientType, Data
  <1>2. Active /\ wr.pc # "none"
    BY DEF Active
  <1>3. CASE db.w = "WRITER"
    <2>1. DataEnded = db
      BY <1>3, Zenon DEF DataEnded
    <2>2. Len(db.xs) = Len(ended)
      <3>1. Len(db.xs) = Len(ended) - Waiting(db) /\ Len(ended) \in Nat
        BY <1>1, LenIs DEF Counts
      <3>2. Waiting(db) = 0
        BY <1>3 DEF Waiting
      <3> QED BY <3>1, <3>2
    <2>3. FilledDb(TRUE, db)
      BY <1>1, <1>3, <2>2 DEF FilledDb
    <2> QED BY <2>1, <2>3
  <1>4. CASE db.w # "WRITER"
    <2> DEFINE b == IF wr.open THEN wr.blk ELSE <<>>
               eod == TRUE
    <2>1. DataEnded = Filled(Started(db), b, eod)
      BY <1>4, Zenon DEF DataEnded
    <2>2. b = wr.blk
      BY <1>1 DEF Holding
    <2>3. wr.blk \in Seq(Byte)
      BY <1>1, WrIs
    <2>4. From(wr.blk, Utc(wr.job), Start(wr.job) + Put(db))
      BY <1>1, <1>2, <1>4 DEF Holding
    <2>5. Room(db, NBUFS)
      BY <1>1, <1>4 DEF Holding
    <2>6. eod \in BOOLEAN /\ eod
      OBVIOUS
    <2> HIDE DEF b, eod
    <2>7. FilledDb(eod, Filled(Started(db), b, eod))
      BY <1>2, <1>4, <2>2, <2>3, <2>4, <2>5, <2>6, BlockFilled
    <2> QED BY <2>1, <2>7 DEF eod
  <1> QED BY <1>3, <1>4

\* dada_hdu_unlock_write
LEMMA StopWriterKeeps ==
  ASSUME Fits, DataInv, StopWriter PROVE DataInv'
  <1> DEFINE q == DataEnded
             n == Len(ended)
  <1>1. /\ ClientType /\ RingOk(hb, NHDR, 0) /\ RingOk(db, NBUFS, Open)
        /\ Headers /\ Counts /\ HasJob /\ ReaderSide
        /\ hb \in RingT(Hdr) /\ ended \in Seq(Run) /\ wr \in WrT
        /\ rd \in RdT /\ disk \in Seq(FileT)
    BY DEF DataInv, WriterSide, ClientType
  <1>2. /\ wr.pc = "stop" /\ (wr.open \/ db.w = "WRITER" \/ Room(db, NBUFS))
        /\ db' = [q EXCEPT !.w = "DISCON"] /\ hb' = [hb EXCEPT !.w = "DISCON"]
        /\ wr' = [NoWriter EXCEPT !.job = wr.job]
        /\ ended' = [ended EXCEPT ![wr.job].done = TRUE]
        /\ rd' = rd /\ disk' = disk
    BY Zenon DEF StopWriter, Unlocked
  <1>3. FilledDb(TRUE, q)
    BY <1>2, DataEndedIs
  <1>4. wr.job \in 1..n /\ wr.job = n /\ n \in Nat
    BY <1>1, <1>2, RunOf, LenIs
  <1>5. SameRuns
    BY <1>1, <1>2, <1>4, RunDone
  <1> HIDE DEF q
  <1>6. "DISCON" \in WStates /\ "DISCON" # "WRITING" /\ hb.w = "WRITER"
    BY <1>1, <1>2 DEF WStates, Counts, Active
  <1>7. /\ q \in RingT(Seq(Byte)) /\ RingOk(q, NBUFS, Open) /\ q.w = "WRITER"
        /\ q.r = db.r /\ q.rx = db.rx /\ q.h = db.h /\ Len(q.xs) = Len(ended)
        /\ \A x \in 1..Len(db.xs) : Starts(q)[x] = Starts(db)[x]
        /\ \A k \in 1..Len(db.blocks) : q.blocks[k] = db.blocks[k]
        /\ DataOf(q)
    BY <1>3 DEF FilledDb
  <1>8. /\ db' \in RingT(Seq(Byte)) /\ RingOk(db', NBUFS, Open) /\ db'.w = "DISCON"
        /\ db'.blocks = q.blocks /\ db'.xs = q.xs
        /\ db'.r = q.r /\ db'.rx = q.rx /\ db'.h = q.h
    <2>1. q \in RingT(Seq(Byte)) /\ RingOk(q, NBUFS, Open) /\ q.w # "WRITING"
      BY <1>7
    <2> QED BY <1>2, <1>6, <2>1, RoleIs
  <1>9. /\ hb' \in RingT(Hdr) /\ RingOk(hb', NHDR, 0) /\ hb'.w = "DISCON"
        /\ hb'.blocks = hb.blocks /\ hb'.xs = hb.xs /\ hb'.h = hb.h /\ hb'.rx = hb.rx
    <2>1. RingOk(hb, NHDR, 0) /\ hb.w # "WRITING"
      BY <1>1, <1>6
    <2> QED BY <1>1, <1>2, <1>6, <2>1, RoleIs
  <1>10. /\ wr' \in WrT /\ wr'.pc = "none" /\ wr'.job = wr.job /\ wr'.open = FALSE
         /\ wr'.buf = <<>> /\ wr'.blk = <<>>
    <2>1. NoWriter \in WrT /\ NoWriter.buf = <<>> /\ NoWriter.blk = <<>>
          /\ NoWriter.open = FALSE /\ NoWriter.pc = "none"
      BY DEF WrT, NoWriter, WrPcs
    <2>2. wr.job \in Int
      BY <1>1, WrIs
    <2> QED BY <1>2, <2>1, <2>2, Zenon DEF WrT
  <1>11. ClientType'
    BY <1>1, <1>2, <1>5, <1>8, <1>9, <1>10 DEF ClientType, SameRuns
  <1>12. \A x \in 1..n : Utc(x)' = Utc(x) /\ Start(x)' = Start(x)
    BY <1>5 DEF SameRuns, Utc, Start
  <1>13. Data'
    <2>1. DataOf(db') /\ Len(db'.xs) = n
      BY <1>7, <1>8, DataStays, Zenon
    <2> QED BY <1>4, <1>12, <2>1, DataPrimed
  <1>14. Len(hb.blocks) = n
    <2>1. Waiting(hb) = 0
      BY <1>6 DEF Waiting
    <2> QED BY <1>1, <1>4, <2>1 DEF Counts
  <1>15. Headers'
    <2>1. hb'.w # "WRITING" /\ hb'.h # "READING"
      BY <1>1, <1>9 DEF Headers
    <2> QED BY <1>1, <1>4, <1>9, <1>12, <1>14, <2>1, HeadersStay
  <1>16. Counts'
    <2>1. Waiting(hb)' = 0 /\ Waiting(db)' = 0
      BY <1>8, <1>9 DEF Waiting
    <2>2. Len(ended') = n /\ Len(hb'.blocks) = n /\ Len(db'.xs) = n
      BY <1>5, <1>7, <1>8, <1>9, <1>14 DEF SameRuns
    <2> QED BY <1>4, <1>8, <1>9, <1>10, <2>1, <2>2 DEF Counts, Active
  <1>17. HasJob' /\ Place'
    BY <1>10 DEF HasJob, Place
  <1>18. Holding'
    <2>1. Len(wr'.blk) <= BUFSZ
      BY <1>10 DEF Fits
    <2> QED BY <1>10, <2>1 DEF Holding, Active
  <1>19. ReaderSide'
    <2>1. /\ hb'.h = hb.h /\ hb'.rx = hb.rx /\ db'.h = db.h /\ db'.r = db.r /\ db'.rx = db.rx
          /\ \A x \in 1..Len(db.xs) : Starts(db')[x] = Starts(db)[x]
          /\ \A k \in 1..Len(db.blocks) : db'.blocks[k] = db.blocks[k]
      <3>1. Starts(db') = Starts(q)
        BY <1>8 DEF Starts
      <3> QED BY <1>7, <1>8, <1>9, <3>1
    <2> QED BY <1>1, <1>2, <1>12, <2>1, WriterSteps
  <1>20. RingOk(hb, NHDR, 0)' /\ RingOk(db, NBUFS, Open)'
    BY <1>2, <1>8, <1>9, Zenon DEF Open
  <1> QED BY <1>11, <1>13, <1>15, <1>16, <1>17, <1>18, <1>19, <1>20, Zenon DEF DataInv, WriterSide

-----------------------------------------------------------------------------
(* The steps of a read client.                                             *)

LEMMA ReaderKeeps ==
  ASSUME Fits, DataInv, wr' = wr, ended' = ended,
         hb' \in RingT(Hdr), RingOk(hb', NHDR, 0), SameData(hb, hb'), hb'.h # "READING",
         db' \in RingT(Seq(Byte)), RingOk(db', NBUFS, Open'), SameData(db, db'),
         db'.clear >= db.clear,
         rd' \in RdT, disk' \in Seq(FileT), InStep', Carrying', Match'
  PROVE  DataInv'
  <1>1. ClientType /\ WriterSide
    BY DEF DataInv
  <1>2. ClientType'
    BY <1>1 DEF ClientType
  <1>3. WriterSide'
    BY <1>1, <1>2, ReaderSteps DEF Fits
  <1> QED BY <1>2, <1>3, Zenon DEF DataInv, ReaderSide

\* Steps that change the reader's state in both rings, while it has no block.
LEMMA BothLocked ==
  ASSUME Fits, DataInv, wr' = wr, ended' = ended, disk' = disk, db.h # "READING",
         NEW h \in HStates, h # "READING", hb' = [hb EXCEPT !.h = h], db' = [db EXCEPT !.h = h],
         ~rd.open, rd'.open = FALSE, rd' \in RdT, InStep', Carrying'
  PROVE  DataInv'
  <1>1. /\ hb \in RingT(Hdr) /\ RingOk(hb, NHDR, 0) /\ db \in RingT(Seq(Byte)) /\ Match
        /\ RingOk(db, NBUFS, Open) /\ Headers /\ disk \in Seq(FileT)
    BY DEF DataInv, ClientType, WriterSide, ReaderSide
  <1>2. hb.h # "READING"
    BY <1>1 DEF Headers
  <1>3. /\ hb' \in RingT(Hdr) /\ RingOk(hb', NHDR, 0) /\ hb'.h = h
        /\ hb'.blocks = hb.blocks /\ hb'.xs = hb.xs /\ hb'.w = hb.w
    BY <1>1, <1>2, ReaderRoleIs
  <1>4. /\ db' \in RingT(Seq(Byte)) /\ RingOk(db', NBUFS, Open) /\ db'.h = h
        /\ db'.blocks = db.blocks /\ db'.xs = db.xs /\ db'.w = db.w /\ db'.clear = db.clear
    BY <1>1, ReaderRoleIs
  <1>5. Open' = Open
    BY DEF Open
  <1>6. db.clear \in Int
    BY <1>1, RingIs
  <1>7. SameData(hb, hb') /\ SameData(db, db') /\ db'.clear >= db.clear
    BY <1>3, <1>4, <1>6 DEF SameData
  <1>8. Match'
    BY <1>1 DEF Match
  <1> QED BY <1>1, <1>3, <1>4, <1>5, <1>7, <1>8, ReaderKeeps

LEMMA Starting ==
  ASSUME Fits, DataInv, NEW sink \in Sinks, rd.pc = "none", HduLockRead,
         rd' = [NoReader EXCEPT !.pc = "read", !.app = sink.app, !.zc = sink.zc],
         wr' = wr, disk' = disk, ended' = ended
  PROVE  DataInv'
  <1>1. /\ hb \in RingT(Hdr) /\ RingOk(hb, NHDR, 0) /\ db \in RingT(Seq(Byte)) /\ rd \in RdT
        /\ RingOk(db, NBUFS, Open) /\ Headers /\ InStep /\ Carrying
    BY DEF DataInv, ClientType, WriterSide, ReaderSide
  <1>2. hb' = [hb EXCEPT !.h = "READER"] /\ db' = [db EXCEPT !.h = "READER"]
    BY DEF HduLockRead
  <1>3. db.h # "READING" /\ ~rd.open
    BY <1>1 DEF InStep, Reading
  <1>4. sink.app \in {"", "dbdisk", "dbnull"} /\ sink.zc \in BOOLEAN
    BY DEF Fits
  <1>5. /\ rd' \in RdT /\ rd'.pc = "read" /\ rd'.open = FALSE /\ rd'.buf = <<>>
        /\ rd'.file = <<>> /\ rd'.blk = <<>>
    <2>1. /\ NoReader \in RdT /\ NoReader.open = FALSE /\ NoReader.buf = <<>>
          /\ NoReader.file = <<>> /\ NoReader.blk = <<>>
      BY DEF RdT, NoReader, RdPcs, Hdr
    <2>2. "read" \in RdPcs
      BY DEF RdPcs
    <2> QED BY <1>4, <2>1, <2>2, Zenon DEF RdT
  <1>6. hb'.h = "READER" /\ db'.h = "READER" /\ hb'.rx = hb.rx /\ db'.rx = db.rx
    BY <1>1, <1>2 DEF RingT
  <1>7. hb.rx \in Int /\ db.rx \in Int
    BY <1>1, RingIs
  <1>8. InStep'
    <2>1. hb.rx = db.rx + 0
      BY <1>1 DEF InStep, Reading
    <2>2. ~Reading'
      BY <1>5 DEF Reading
    <2> QED BY <1>5, <1>6, <2>1, <2>2 DEF InStep
  <1>9. Carrying'
    BY <1>5 DEF Carrying, Reading
  <1>10. "READER" \in HStates /\ "READER" # "READING"
    BY DEF HStates
  <1> QED BY <1>2, <1>3, <1>5, <1>8, <1>9, <1>10, BothLocked

LEMMA StartDbdiskKeeps ==
  ASSUME Fits, DataInv, NEW sink \in Sinks, StartDbdisk(sink) PROVE DataInv'
  BY Starting DEF StartDbdisk

LEMMA StartDbnullKeeps ==
  ASSUME Fits, DataInv, NEW sink \in Sinks, StartDbnull(sink) PROVE DataInv'
  BY Starting DEF StartDbnull

LEMMA QuitKeeps ==
  ASSUME Fits, DataInv, Quit PROVE DataInv'
  <1>1. /\ hb \in RingT(Hdr) /\ db \in RingT(Seq(Byte)) /\ rd \in RdT
        /\ Headers /\ InStep /\ Carrying
    BY DEF DataInv, ClientType, WriterSide, ReaderSide
  <1>2. /\ rd.pc = "unlock" /\ rd' = NoReader /\ wr' = wr /\ disk' = disk /\ ended' = ended
        /\ hb' = [hb EXCEPT !.h = "VIEWER"] /\ db' = [db EXCEPT !.h = "VIEWER"]
    BY DEF Quit, HduUnlockRead
  <1>3. db.h # "READING" /\ ~rd.open
    BY <1>1, <1>2 DEF InStep, Reading
  <1>4. /\ rd' \in RdT /\ rd'.pc = "none" /\ rd'.open = FALSE /\ rd'.buf = <<>>
        /\ rd'.file = <<>> /\ rd'.blk = <<>>
    <2>1. /\ NoReader \in RdT /\ NoReader.pc = "none" /\ NoReader.open = FALSE
          /\ NoReader.buf = <<>> /\ NoReader.file = <<>> /\ NoReader.blk = <<>>
      BY DEF RdT, NoReader, RdPcs, Hdr
    <2> QED BY <1>2, <2>1
  <1>5. hb'.h = "VIEWER" /\ db'.h = "VIEWER" /\ hb'.rx = hb.rx /\ db'.rx = db.rx
    BY <1>1, <1>2 DEF RingT
  <1>6. InStep'
    <2>1. hb.rx = db.rx + 0
      BY <1>1, <1>2 DEF InStep, Reading
    <2>2. ~Reading'
      BY <1>4 DEF Reading
    <2> QED BY <1>4, <1>5, <2>1, <2>2 DEF InStep
  <1>7. Carrying'
    BY <1>4 DEF Carrying, Reading
  <1>8. "VIEWER" \in HStates /\ "VIEWER" # "READING"
    BY DEF HStates
  <1> QED BY <1>2, <1>3, <1>4, <1>6, <1>7, <1>8, BothLocked

LEMMA RelockKeeps ==
  ASSUME Fits, DataInv, Relock PROVE DataInv'
  <1>1. /\ hb \in RingT(Hdr) /\ db \in RingT(Seq(Byte)) /\ rd \in RdT
        /\ Headers /\ InStep /\ Carrying
    BY DEF DataInv, ClientType, WriterSide, ReaderSide
  <1>2. /\ rd.pc = "unlock" /\ rd' = [rd EXCEPT !.pc = "read"]
        /\ wr' = wr /\ disk' = disk /\ ended' = ended
        /\ hb' = [hb EXCEPT !.h = "READER"] /\ db' = [db EXCEPT !.h = "READER"]
    BY DEF Relock, HduLockRead
  <1>3. db.h # "READING" /\ rd.open = FALSE
    <2>1. rd.open \in BOOLEAN
      BY <1>1, RdIs
    <2> QED BY <1>1, <1>2, <2>1 DEF InStep, Reading
  <1>4. /\ rd' \in RdT /\ rd'.pc = "read" /\ rd'.open = FALSE /\ rd'.buf = rd.buf
        /\ rd'.file = rd.file /\ rd'.blk = rd.blk
    <2>1. "read" \in RdPcs
      BY DEF RdPcs
    <2> QED BY <1>1, <1>2, <1>3, <2>1, Zenon DEF RdT
  <1>5. hb'.h = "READER" /\ db'.h = "READER" /\ hb'.rx = hb.rx /\ db'.rx = db.rx
    BY <1>1, <1>2 DEF RingT
  <1>6. InStep'
    <2>1. hb.rx = db.rx + 0
      BY <1>1, <1>2 DEF InStep, Reading
    <2>2. ~Reading'
      BY <1>4 DEF Reading
    <2> QED BY <1>4, <1>5, <2>1, <2>2 DEF InStep
  <1>7. Carrying'
    <2>1. rd.buf = <<>> /\ rd.file = <<>> /\ rd.blk = <<>>
      BY <1>1, <1>2, <1>3 DEF Carrying
    <2> QED BY <1>4, <2>1 DEF Carrying, Reading
  <1>8. "READER" \in HStates /\ "READER" # "READING"
    BY DEF HStates
  <1> QED BY <1>2, <1>3, <1>4, <1>6, <1>7, <1>8, BothLocked

\* A step that changes neither ring.
LEMMA OnlyRd ==
  ASSUME Fits, DataInv, wr' = wr, ended' = ended, hb' = hb, db' = db, rd'.open = rd.open,
         rd' \in RdT, disk' \in Seq(FileT), InStep', Carrying', Match'
  PROVE  DataInv'
  <1>1. /\ hb \in RingT(Hdr) /\ RingOk(hb, NHDR, 0) /\ db \in RingT(Seq(Byte))
        /\ RingOk(db, NBUFS, Open) /\ Headers
    BY DEF DataInv, ClientType, WriterSide
  <1>2. Open' = Open
    BY DEF Open
  <1>3. db.clear \in Int
    BY <1>1, RingIs
  <1>4. SameData(hb, hb') /\ SameData(db, db') /\ db'.clear >= db.clear
    BY <1>3 DEF SameData
  <1>5. hb'.h # "READING"
    BY <1>1 DEF Headers
  <1>6. RingOk(hb', NHDR, 0) /\ RingOk(db', NBUFS, Open')
    BY <1>1, <1>2
  <1> QED BY <1>1, <1>4, <1>5, <1>6, ReaderKeeps

\* dada_client_read finds the end of data on the Header Block.
LEMMA ReadHeaderFailsKeeps ==
  ASSUME Fits, DataInv, ReadHeaderFails PROVE DataInv'
  <1>1. rd \in RdT /\ disk \in Seq(FileT) /\ InStep /\ Carrying /\ Match
    BY DEF DataInv, ClientType, ReaderSide
  <1>2. /\ rd.pc = "read" /\ rd' = [rd EXCEPT !.pc = "unlock"] /\ wr' = wr /\ disk' = disk
        /\ ended' = ended /\ hb' = hb /\ db' = db
    BY DEF ReadHeaderFails
  <1>3. rd.open = FALSE
    <2>1. rd.open \in BOOLEAN
      BY <1>1, RdIs
    <2> QED BY <1>1, <1>2, <2>1 DEF InStep, Reading
  <1>4. /\ rd' \in RdT /\ rd'.pc = "unlock" /\ rd'.open = rd.open /\ rd'.buf = rd.buf
        /\ rd'.file = rd.file /\ rd'.blk = rd.blk
    <2>1. "unlock" \in RdPcs
      BY DEF RdPcs
    <2> QED BY <1>1, <1>2, <2>1, Zenon DEF RdT
  <1>5. InStep'
    <2>1. hb.rx = db.rx + 0 /\ db.h = "READER"
      BY <1>1, <1>2 DEF InStep, Reading
    <2>2. ~Reading'
      BY <1>4 DEF Reading
    <2> QED BY <1>2, <1>3, <1>4, <2>1, <2>2 DEF InStep
  <1>6. Carrying'
    <2>1. rd.buf = <<>> /\ rd.file = <<>> /\ rd.blk = <<>>
      BY <1>1, <1>2, <1>3 DEF Carrying
    <2> QED BY <1>3, <1>4, <2>1 DEF Carrying, Reading
  <1>7. Match'
    BY <1>1, <1>2 DEF Match
  <1> QED BY <1>1, <1>2, <1>4, <1>5, <1>6, <1>7, OnlyRd

\* dada_client_read returns.
LEMMA ReadDoneKeeps ==
  ASSUME Fits, DataInv, ReadDone PROVE DataInv'
  <1> DEFINE p == IF rd.app = "dbdisk" THEN "read" ELSE "unlock"
  <1>1. /\ rd \in RdT /\ disk \in Seq(FileT) /\ InStep /\ Carrying /\ Match /\ Headers
        /\ hb \in RingT(Hdr) /\ RingOk(hb, NHDR, 0)
        /\ db \in RingT(Seq(Byte)) /\ RingOk(db, NBUFS, Open)
    BY DEF DataInv, ClientType, WriterSide, ReaderSide
  <1>2. /\ rd.pc = "transfer" /\ db.h = "RSTOP" /\ rd' = [rd EXCEPT !.pc = p]
        /\ db' = [db EXCEPT !.h = "READER"]
        /\ wr' = wr /\ disk' = disk /\ ended' = ended /\ hb' = hb
    BY Zenon DEF ReadDone, ResetRead, Eod
  <1>3. rd.open = FALSE
    <2>1. rd.open \in BOOLEAN
      BY <1>1, RdIs
    <2> QED BY <1>1, <1>2, <2>1 DEF InStep
  <1>4. /\ rd' \in RdT /\ rd'.pc = p /\ rd'.open = rd.open /\ rd'.buf = rd.buf
        /\ rd'.file = rd.file /\ rd'.blk = rd.blk
    <2>1. p \in RdPcs
      BY Zenon DEF RdPcs
    <2> HIDE DEF p
    <2> QED BY <1>1, <1>2, <2>1, Zenon DEF RdT
  <1>5. p \in {"read", "unlock"}
    BY Zenon
  <1> HIDE DEF p
  <1>6. "READER" \in HStates /\ "READER" # "READING" /\ db.h # "READING"
    BY <1>2 DEF HStates
  <1>7. /\ db' \in RingT(Seq(Byte)) /\ RingOk(db', NBUFS, Open) /\ db'.h = "READER"
        /\ db'.blocks = db.blocks /\ db'.xs = db.xs /\ db'.w = db.w /\ db'.clear = db.clear
        /\ db'.rx = db.rx
    BY <1>1, <1>2, <1>6, ReaderRoleIs
  <1>8. InStep'
    <2>1. hb.rx = db.rx + 0 /\ hb.h = "RSTOP"
      BY <1>1, <1>2 DEF InStep, Reading
    <2>2. ~Reading'
      BY <1>4, <1>5 DEF Reading
    <2> QED BY <1>2, <1>3, <1>4, <1>5, <1>7, <2>1, <2>2 DEF InStep
  <1>9. Carrying'
    <2>1. rd.buf = <<>> /\ rd.file = <<>> /\ rd.blk = <<>>
      BY <1>1, <1>2, <1>3 DEF Carrying
    <2> QED BY <1>3, <1>4, <1>5, <2>1 DEF Carrying, Reading
  <1>10. Match'
    BY <1>1, <1>2 DEF Match
  <1>11. SameData(hb, hb') /\ SameData(db, db') /\ db'.clear >= db.clear /\ hb'.h # "READING"
    <2>1. db.clear \in Int
      BY <1>1, RingIs
    <2> QED BY <1>1, <1>2, <1>7, <2>1 DEF SameData, Headers
  <1>12. RingOk(db', NBUFS, Open') /\ hb' \in RingT(Hdr) /\ RingOk(hb', NHDR, 0)
    BY <1>1, <1>2, <1>4, <1>7 DEF Open
  <1> QED BY <1>1, <1>2, <1>4, <1>7, <1>8, <1>9, <1>10, <1>11, <1>12, ReaderKeeps

\* dada_client_read gets the next header.
LEMMA ReadHeaderKeeps ==
  ASSUME Fits, DataInv, ReadHeader PROVE DataInv'
  <1> DEFINE q == Opened(hb)
             h == Block(q, NHDR)
             o == h.off
             x == hb.rx + 1
  <1>1. /\ rd \in RdT /\ disk \in Seq(FileT) /\ InStep /\ Carrying /\ Match /\ Headers
        /\ hb \in RingT(Hdr) /\ RingOk(hb, NHDR, 0)
        /\ db \in RingT(Seq(Byte)) /\ RingOk(db, NBUFS, Open)
    BY DEF DataInv, ClientType, WriterSide, ReaderSide
  <1>2. /\ rd.pc = "read" /\ hb.h # "RSTOP" /\ hb.full > 0
        /\ hb' = Cleared(q) /\ rd' = [rd EXCEPT !.pc = "transfer", !.hdr = h, !.off = o]
        /\ db' = db /\ wr' = wr /\ disk' = disk /\ ended' = ended
    BY Zenon DEF ReadHeader, Readable, Eod
  <1>3. hb.h = "READER"
    <2>1. hb.h \in HStates
      BY <1>1, RingIs
    <2>2. hb.h # "VIEWER" /\ hb.h # "READING"
      BY <1>1, <1>2 DEF InStep, Headers
    <2> QED BY <1>2, <2>1, <2>2 DEF HStates
  <1>4. NHDR \in Int /\ NHDR \in Nat \ {0}
    BY DEF Fits
  <1>5. /\ q \in RingT(Hdr) /\ RingOk(q, NHDR, 1) /\ q.h = "READING"
        /\ q.w = hb.w /\ q.blocks = hb.blocks /\ q.xs = hb.xs
        /\ q.clear = hb.clear /\ q.r = hb.r /\ q.rx = hb.rx
        /\ hb.clear < Len(hb.blocks) /\ x \in 1..Len(hb.xs)
        /\ hb.r = Starts(hb)[x]
    BY <1>1, <1>2, <1>3, <1>4, OpenedIs
  <1> HIDE DEF q
  <1>6. /\ Len(hb.xs) = Len(hb.blocks) /\ Starts(hb)[x] = x - 1 /\ Ends(hb)[x] = x - 1
        /\ hb.blocks[x].utc = Utc(x) /\ hb.blocks[x].off = Start(x)
    <2> HIDE DEF x
    <2> QED BY <1>1, <1>5 DEF Headers
  <1>7. h = hb.blocks[x] /\ h \in Hdr
    <2>1. q.clear < Len(q.blocks)
      BY <1>5
    <2>2. Block(q, NHDR) = q.blocks[q.r + 1] /\ Block(q, NHDR) \in Hdr
      BY <1>4, <1>5, <2>1, BlockIs
    <2>3. q.r + 1 = x
      <3>1. hb.rx \in Int
        BY <1>1, RingIs
      <3> QED BY <1>5, <1>6, <3>1
    <2> QED BY <1>5, <2>2, <2>3
  <1>8. o = Start(x) /\ h.utc = Utc(x) /\ o \in Int
    BY <1>6, <1>7 DEF Hdr
  <1>9. /\ hb' \in RingT(Hdr) /\ RingOk(hb', NHDR, 0)
        /\ hb'.w = hb.w /\ hb'.blocks = hb.blocks /\ hb'.xs = hb.xs
        /\ hb'.h = "RSTOP" /\ hb'.rx = x
    <2>1. Ends(q)[q.rx + 1] = q.r
      BY <1>5, <1>6 DEF Ends
    <2> QED BY <1>2, <1>4, <1>5, <2>1, ClearedIs
  <1>10. rd.open = FALSE /\ rd.buf = <<>> /\ rd.file = <<>> /\ rd.blk = <<>> /\ db.h = "READER"
    <2>1. rd.open \in BOOLEAN
      BY <1>1, RdIs
    <2> QED BY <1>1, <1>2, <2>1 DEF InStep, Reading, Carrying
  <1> HIDE DEF h, o
  <1>11. /\ rd' \in RdT /\ rd'.pc = "transfer" /\ rd'.hdr = h /\ rd'.off = o
         /\ rd'.open = rd.open /\ rd'.buf = rd.buf /\ rd'.file = rd.file /\ rd'.blk = rd.blk
    <2>1. "transfer" \in RdPcs
      BY DEF RdPcs
    <2> QED BY <1>1, <1>2, <1>7, <1>8, <2>1, Zenon DEF RdT
  <1>12. InStep'
    <2>1. hb.rx = db.rx + 0
      BY <1>1, <1>2 DEF InStep, Reading
    <2>2. x = db.rx + 1 /\ x >= 1
      <3>1. db.rx \in Int /\ x >= 1
        BY <1>1, <1>5, RingIs
      <3> QED BY <2>1, <3>1
    <2> QED BY <1>2, <1>9, <1>10, <1>11, <2>2 DEF InStep, Reading, X
  <1>13. Carrying'
    <2>1. Utc(X)' = Utc(x) /\ Start(X)' = Start(x)
      BY <1>2, <1>9 DEF Utc, Start, X
    <2>2. Taken' = 0 /\ Got' = 0
      BY <1>2, <1>10, <1>11 DEF Taken, Got
    <2>3. NextByte' = Start(x) + 0
      <3>1. NextByte' = o + 0 + Len(<<>>)
        BY <1>10, <1>11, <2>2 DEF NextByte
      <3> QED BY <1>8, <3>1
    <2>4. NextByte' = Start(X)' + Taken'
      BY <2>1, <2>2, <2>3
    <2>5. From(rd'.buf, Utc(X)', rd'.off + Got') /\ From(rd'.blk, Utc(X)', NextByte')
      BY <1>10, <1>11, FromEmpty
    <2>6. From(rd.buf, Utc(X), rd.off + Got)' /\ From(rd.blk, Utc(X), NextByte)'
      BY <2>5, Zenon DEF From
    <2>7. rd'.hdr.utc = Utc(X)'
      BY <1>8, <1>11, <2>1
    <2> QED BY <1>10, <1>11, <2>4, <2>6, <2>7, Zenon DEF Carrying
  <1>14. Match'
    BY <1>1, <1>2 DEF Match
  <1>15. SameData(hb, hb') /\ SameData(db, db') /\ db'.clear >= db.clear
    <2>1. db.clear \in Int
      BY <1>1, RingIs
    <2> QED BY <1>2, <1>9, <2>1 DEF SameData
  <1>16. RingOk(db', NBUFS, Open') /\ db' \in RingT(Seq(Byte)) /\ hb'.h # "READING"
    BY <1>1, <1>2, <1>9, <1>11 DEF Open
  <1>17. disk' \in Seq(FileT)
    BY <1>1, <1>2
  <1> QED BY <1>2, <1>9, <1>11, <1>12, <1>13, <1>14, <1>15, <1>16, <1>17, ReaderKeeps

LEMMA Multiple ==
  ASSUME NEW n \in Nat, n > 0, NEW k \in Int
  PROVE  (n * k) % n = 0
  <1> DEFINE a == n * k
             d == a \div n
             r == a % n
  <1>1. a \in Int
    OBVIOUS
  <1>2. a = n * d + r /\ d \in Int /\ r \in 0..(n - 1)
    BY <1>1, Division
  <1>3. a = n * k
    OBVIOUS
  <1> HIDE DEF a, d, r
  <1>4. CASE k <= d - 1
    <2>1. n * k <= n * d - n
      BY <1>2, <1>4
    <2> QED BY <1>1, <1>2, <1>3, <2>1
  <1>5. CASE k >= d + 1
    <2>1. n * k >= n * d + n
      BY <1>2, <1>5
    <2> QED BY <1>1, <1>2, <1>3, <2>1
  <1>6. CASE k = d
    <2>1. r = 0
      BY <1>1, <1>2, <1>3, <1>6
    <2> QED BY <2>1 DEF r, a
  <1> QED BY <1>2, <1>4, <1>5, <1>6

\* The size at which dada_dbdisk ends a file is no limit, or ends it on a multiple of RES.
LEMMA FileSizeIs ==
  ASSUME Fits, NEW off \in Int, NEW fsize \in Int
  PROVE  /\ FileSize(off, fsize) \in Nat
         /\ FileSize(off, fsize) > 0 => (off + FileSize(off, fsize)) % RES = 0
  <1> DEFINE size == IF fsize = 0 THEN DEFSZ ELSE fsize
             a == off + size
             gap == a % RES
             d == a \div RES
             up == gap > RES \div 2
             n == size - gap + IF up THEN RES ELSE 0
             f == IF n < 0 THEN 0 ELSE n
  <1>1. RES \in Nat /\ RES > 0 /\ size \in Int /\ a \in Int
    BY DEF Fits
  <1>2. a = RES * d + gap /\ d \in Int /\ gap \in Int
    <2> HIDE DEF a
    <2> QED BY <1>1, Division
  <1>3. FileSize(off, fsize) = f
    BY Zenon DEF FileSize
  <1>4. a = off + size
    OBVIOUS
  <1> HIDE DEF size, a, gap, d, up
  <1>5. n \in Int
    BY <1>1, <1>2
  <1>6. f \in Nat
    <2> HIDE DEF n
    <2> QED BY <1>5
  <1>7. ASSUME f > 0 PROVE (off + f) % RES = 0
    <2>1. f = n
      <3> HIDE DEF n
      <3> QED BY <1>5, <1>7
    <2> DEFINE k == IF up THEN d + 1 ELSE d
    <2>2. k \in Int
      BY <1>2
    <2>3. RES * k = RES * d + IF up THEN RES ELSE 0
      BY <1>1, <1>2
    <2>4. off + n = RES * k
      <3> HIDE DEF k
      <3> QED BY <1>1, <1>2, <1>4, <2>3
    <2>5. (RES * k) % RES = 0
      <3> HIDE DEF k
      <3> QED BY <1>1, <2>2, Multiple
    <2> HIDE DEF k, n, f
    <2> QED BY <2>1, <2>4, <2>5
  <1> HIDE DEF n, f
  <1> QED BY <1>3, <1>6, <1>7

LEMMA HdrIs ==
  ASSUME NEW h \in Hdr
  PROVE  h.utc \in Nat /\ h.off \in Int /\ h.fsize \in Int
  BY DEF Hdr

\* open_function of either program.
Opened1 ==
    /\ rd' \in RdT /\ rd'.pc = "loop" /\ rd'.app = rd.app /\ rd'.zc = rd.zc
    /\ rd'.hdr.utc = rd.hdr.utc /\ rd'.hdr.off = rd.off /\ rd'.off = rd.off /\ rd'.got = 0
    /\ rd'.buf = rd.buf /\ rd'.file = rd.file /\ rd'.blk = rd.blk /\ rd'.open = rd.open
    /\ rd.app = "dbdisk" => /\ rd'.want = FileSize(rd.off, rd.hdr.fsize)
                            /\ rd'.hdr.fsize = rd'.want

LEMMA OpenSinkIs ==
  ASSUME Fits, rd \in RdT, OpenSink
  PROVE  Opened1
  <1> DEFINE h0 == [rd.hdr EXCEPT !.off = rd.off]
             r == [rd EXCEPT !.pc = "loop", !.hdr = h0, !.got = 0]
  <1>1. rd.hdr \in Hdr /\ rd.off \in Int /\ rd.number \in Int /\ rd.want \in Int
    BY RdIs
  <1>2. h0 \in Hdr /\ h0.off = rd.off /\ h0.utc = rd.hdr.utc /\ h0.fsize = rd.hdr.fsize
    BY <1>1 DEF Hdr
  <1>3. rd' = IF rd.app = "dbdisk" THEN DiskOpen(r) ELSE NullOpen(r)
    <2> DEFINE r0 == [rd EXCEPT !.pc = "loop", !.hdr.off = rd.off, !.got = 0]
    <2>1. r0 = r
      BY Zenon
    <2>2. rd' = IF rd.app = "dbdisk" THEN DiskOpen(r0) ELSE NullOpen(r0)
      BY Zenon DEF OpenSink
    <2> HIDE DEF r0, r
    <2> QED BY <2>1, <2>2
  <1> HIDE DEF h0
  <1>4. /\ r \in RdT /\ r.pc = "loop" /\ r.hdr = h0 /\ r.got = 0
        /\ r.app = rd.app /\ r.zc = rd.zc /\ r.off = rd.off /\ r.number = rd.number
        /\ r.utc_start = rd.utc_start /\ r.obs_offset = rd.obs_offset
        /\ r.buf = rd.buf /\ r.file = rd.file /\ r.blk = rd.blk /\ r.open = rd.open
    <2>1. "loop" \in RdPcs /\ 0 \in Int
      BY DEF RdPcs
    <2> QED BY <1>2, <2>1, Zenon DEF RdT
  <1>5. h0.fsize \in Int /\ h0.utc \in Nat
    BY <1>2, HdrIs
  <1> HIDE DEF r
  <1>6. CASE rd.app = "dbdisk"
    <2> DEFINE f == FileSize(r.off, r.hdr.fsize)
               h1 == [r.hdr EXCEPT !.fsize = f]
               same == r.hdr.utc = r.utc_start /\ r.off = r.obs_offset
               num == IF same THEN r.number + 1 ELSE 0
               u == r.hdr.utc
               o == r.off
    <2>1. rd' = [r EXCEPT !.hdr = h1, !.want = f, !.number = num, !.utc_start = u, !.obs_offset = o]
      BY <1>3, <1>6, Zenon DEF DiskOpen
    <2>2. f = FileSize(rd.off, rd.hdr.fsize)
      BY <1>2, <1>4
    <2>3. f \in Int
      <3>1. FileSize(rd.off, rd.hdr.fsize) \in Nat
        BY <1>1, <1>2, <1>5, FileSizeIs
      <3> QED BY <2>2, <3>1
    <2>4. u \in Int /\ o \in Int /\ num \in Int
      BY <1>1, <1>4, <1>5
    <2> HIDE DEF f, num, u, o
    <2>5. h1 \in Hdr /\ h1.utc = rd.hdr.utc /\ h1.off = rd.off /\ h1.fsize = f
      <3>1. r.hdr \in Hdr
        BY <1>2, <1>4
      <3> QED BY <1>2, <1>4, <2>3, <3>1 DEF Hdr
    <2> HIDE DEF h1
    <2>6. /\ rd' \in RdT /\ rd'.hdr = h1 /\ rd'.want = f
          /\ rd'.pc = r.pc /\ rd'.got = r.got /\ rd'.app = r.app /\ rd'.zc = r.zc /\ rd'.off = r.off
          /\ rd'.buf = r.buf /\ rd'.file = r.file /\ rd'.blk = r.blk /\ rd'.open = r.open
      BY <1>4, <2>1, <2>3, <2>4, <2>5, Zenon DEF RdT
    <2> QED BY <1>4, <1>6, <2>2, <2>5, <2>6, Zenon DEF Opened1
  <1>7. CASE rd.app # "dbdisk"
    <2> DEFINE f == r.hdr.fsize
    <2>1. rd' = [r EXCEPT !.want = f]
      BY <1>3, <1>7, Zenon DEF NullOpen
    <2>2. f \in Int
      BY <1>4, <1>5
    <2> HIDE DEF f
    <2>3. /\ rd' \in RdT /\ rd'.hdr = r.hdr
          /\ rd'.pc = r.pc /\ rd'.got = r.got /\ rd'.app = r.app /\ rd'.zc = r.zc /\ rd'.off = r.off
          /\ rd'.buf = r.buf /\ rd'.file = r.file /\ rd'.blk = r.blk /\ rd'.open = r.open
      BY <1>4, <2>1, <2>2, Zenon DEF RdT
    <2> QED BY <1>2, <1>4, <1>7, <2>3, Zenon DEF Opened1
  <1> QED BY <1>6, <1>7

\* dada_client_transfer opens the next file.
LEMMA OpenSinkKeeps ==
  ASSUME Fits, DataInv, OpenSink PROVE DataInv'
  <1>1. rd \in RdT /\ disk \in Seq(FileT) /\ InStep /\ Carrying /\ Match
    BY DEF DataInv, ClientType, ReaderSide
  <1>2. /\ rd.pc = "transfer" /\ db.h # "RSTOP"
        /\ wr' = wr /\ disk' = disk /\ ended' = ended /\ hb' = hb /\ db' = db
    BY DEF OpenSink, Eod
  <1>3. Opened1
    BY <1>1, OpenSinkIs
  <1>4. /\ rd' \in RdT /\ rd'.pc = "loop" /\ rd'.app = rd.app /\ rd'.zc = rd.zc
        /\ rd'.hdr.utc = rd.hdr.utc /\ rd'.hdr.off = rd.off /\ rd'.off = rd.off /\ rd'.got = 0
        /\ rd'.buf = rd.buf /\ rd'.file = rd.file /\ rd'.blk = rd.blk /\ rd'.open = rd.open
    BY <1>3 DEF Opened1
  <1>5. InStep'
    BY <1>1, <1>2, <1>4 DEF InStep, Reading, X
  <1>6. Carrying'
    <2>1. Utc(X)' = Utc(X) /\ Start(X)' = Start(X) /\ Taken' = Taken
      BY <1>2, <1>4 DEF Utc, Start, X, Taken
    <2>2. Got = 0 /\ Got' = 0
      BY <1>2, <1>4 DEF Got
    <2>3. NextByte' = NextByte
      BY <1>2, <1>4, <2>2 DEF NextByte
    <2>4. rd.buf = <<>> /\ rd.file = <<>>
      BY <1>1, <1>2 DEF Carrying
    <2>5. From(rd'.file, Utc(X)', rd'.off) /\ Len(rd'.file) = 0
      BY <1>4, <2>4, FromEmpty
    <2>6. From(rd.file, Utc(X), rd.off)'
      BY <2>5, Zenon DEF From
    <2>7. /\ Reading /\ Reading' /\ rd.hdr.utc = Utc(X) /\ (db.h # "RSTOP" => NextByte = Start(X) + Taken)
          /\ From(rd.buf, Utc(X), rd.off + Got) /\ From(rd.blk, Utc(X), NextByte)
      BY <1>1, <1>2, <1>4 DEF Carrying, Reading
    <2>8. From(rd.buf, Utc(X), rd.off + Got)' /\ From(rd.blk, Utc(X), NextByte)'
      BY <1>4, <2>1, <2>2, <2>3, <2>7, Zenon DEF From
    <2>9. /\ rd.open <=> rd.blk # <<>>
          /\ rd.zc => ~rd.open /\ rd.buf = <<>>
      BY <1>1 DEF Carrying
    <2>10. rd'.got >= 0
      BY <1>4
    <2> QED BY <1>2, <1>4, <2>1, <2>3, <2>5, <2>6, <2>7, <2>8, <2>9, <2>10, Zenon DEF Carrying
  <1>7. Match'
    BY <1>1, <1>2 DEF Match
  <1> QED BY <1>1, <1>2, <1>4, <1>5, <1>6, <1>7, OnlyRd

\* What becomes of the bytes that the loops get.
LEMMA SunkIs ==
  ASSUME rd \in RdT, Carrying, rd.pc = "loop", NEW b \in Seq(Byte),
         Utc(X) \in Nat, From(b, Utc(X), rd.off + rd.got)
  PROVE  /\ Sunk(b) \in Seq(Byte) /\ From(Sunk(b), Utc(X), rd.off)
         /\ rd.app = "dbdisk" => Len(Sunk(b)) = rd.got + Len(b)
  <1>1. rd.file \in Seq(Byte) /\ rd.off \in Int /\ rd.got \in Int /\ Len(b) \in Nat
    BY RdIs, LenIs
  <1>2. From(rd.file, Utc(X), rd.off) /\ (rd.app = "dbdisk" => Len(rd.file) = rd.got)
    BY DEF Carrying
  <1>3. CASE rd.app = "dbdisk"
    <2>1. Sunk(b) = rd.file \o b
      BY <1>3 DEF Sunk, Stored
    <2>2. Len(rd.file) = rd.got
      BY <1>2, <1>3
    <2>3. From(b, Utc(X), rd.off + Len(rd.file))
      BY <2>2
    <2>4. /\ From(rd.file \o b, Utc(X), rd.off) /\ rd.file \o b \in Seq(Byte)
          /\ Len(rd.file \o b) = Len(rd.file) + Len(b)
      BY <1>1, <1>2, <2>3, FromConcat
    <2> QED BY <2>1, <2>2, <2>4
  <1>4. CASE rd.app # "dbdisk"
    <2>1. Sunk(b) = rd.file
      BY <1>4 DEF Sunk, Dropped
    <2> QED BY <1>1, <1>2, <1>4, <2>1
  <1> QED BY <1>3, <1>4

\* The transfer that is read is one of the runs.
LEMMA RunRead ==
  ASSUME Fits, DataInv, Reading
  PROVE  X \in 1..Len(ended) /\ Utc(X) \in Nat /\ Start(X) \in Nat
  <1> DEFINE x == hb.rx
  <1>1. /\ hb \in RingT(Hdr) /\ RingOk(hb, NHDR, 0) /\ Headers /\ Counts /\ InStep
        /\ ended \in Seq(Run)
    BY DEF DataInv, ClientType, WriterSide, ReaderSide
  <1>2. x >= 1 /\ x \in Int
    BY <1>1, RingIs DEF InStep, X
  <1>3. x <= Len(hb.xs)
    BY <1>1 DEF RingOk, Position
  <1>4. Len(hb.blocks) = Len(hb.xs) /\ Len(hb.blocks) = Len(ended) - Waiting(hb)
        /\ Waiting(hb) \in {0, 1}
    BY <1>1 DEF Headers, Counts, Waiting
  <1>5. Len(ended) \in Nat /\ Len(hb.xs) \in Nat
    BY <1>1, RingIs, LenIs
  <1>6. X = x
    BY DEF X
  <1> HIDE DEF x
  <1>7. x \in 1..Len(ended)
    BY <1>2, <1>3, <1>4, <1>5
  <1>8. Utc(x) \in Nat /\ Start(x) \in Nat
    BY <1>1, <1>7, JobIs
  <1> QED BY <1>6, <1>7, <1>8

\* io_function gets the chunk.
LEMMA LoopStoreKeeps ==
  ASSUME Fits, DataInv, LoopStore PROVE DataInv'
  <1> DEFINE f == Sunk(rd.buf)
             g == rd.got + Len(rd.buf)
  <1>1. rd \in RdT /\ disk \in Seq(FileT) /\ InStep /\ Carrying /\ Match
    BY DEF DataInv, ClientType, ReaderSide
  <1>2. /\ rd.pc = "loop" /\ ~rd.zc /\ rd' = [rd EXCEPT !.file = f, !.got = g, !.buf = <<>>]
        /\ wr' = wr /\ disk' = disk /\ ended' = ended /\ hb' = hb /\ db' = db
    BY Zenon DEF LoopStore, InLoop
  <1>3. Reading
    BY <1>2 DEF Reading
  <1>4. /\ rd.buf \in Seq(Byte) /\ Len(rd.buf) \in Nat /\ rd.got \in Int /\ rd.off \in Int
        /\ rd.got >= 0
    BY <1>1, <1>2, RdIs DEF Carrying
  <1>5. Utc(X) \in Nat /\ Start(X) \in Nat
    BY <1>3, RunRead
  <1>6. Got = rd.got
    BY <1>2 DEF Got
  <1>7. From(rd.buf, Utc(X), rd.off + rd.got)
    BY <1>1, <1>3, <1>6 DEF Carrying
  <1>8. /\ f \in Seq(Byte) /\ From(f, Utc(X), rd.off)
        /\ rd.app = "dbdisk" => Len(f) = g
    BY <1>1, <1>2, <1>4, <1>5, <1>7, SunkIs
  <1>9. g \in Int /\ g >= 0 /\ rd.off + g + 0 = rd.off + rd.got + Len(rd.buf)
    BY <1>4
  <1> HIDE DEF f, g
  <1>10. /\ rd' \in RdT /\ rd'.pc = rd.pc /\ rd'.app = rd.app /\ rd'.zc = rd.zc
         /\ rd'.hdr = rd.hdr /\ rd'.off = rd.off /\ rd'.got = g
         /\ rd'.buf = <<>> /\ rd'.file = f /\ rd'.blk = rd.blk /\ rd'.open = rd.open
    <2>1. <<>> \in Seq(Byte)
      OBVIOUS
    <2> QED BY <1>1, <1>2, <1>8, <1>9, <2>1, Zenon DEF RdT
  <1>11. InStep'
    BY <1>1, <1>2, <1>10 DEF InStep, Reading, X
  <1>12. Carrying'
    <2>1. Utc(X)' = Utc(X) /\ Start(X)' = Start(X) /\ Taken' = Taken
      BY <1>2, <1>10 DEF Utc, Start, X, Taken
    <2>2. NextByte' = NextByte
      <3>1. NextByte' = rd.off + g + 0
        BY <1>2, <1>10 DEF NextByte, Got
      <3>2. NextByte = rd.off + rd.got + Len(rd.buf)
        BY <1>6 DEF NextByte
      <3> QED BY <1>9, <3>1, <3>2
    <2>3. From(rd'.buf, Utc(X)', rd'.off + Got')
      BY <1>10, FromEmpty
    <2>4. From(rd.blk, Utc(X), NextByte) /\ rd.hdr.utc = Utc(X) /\ (db.h # "RSTOP" => NextByte = Start(X) + Taken)
          /\ rd.hdr.off = rd.off /\ (rd.open <=> rd.blk # <<>>)
      BY <1>1, <1>2, <1>3 DEF Carrying
    <2>5. From(rd.buf, Utc(X), rd.off + Got)' /\ From(rd.blk, Utc(X), NextByte)'
          /\ From(rd.file, Utc(X), rd.off)'
      BY <1>8, <1>10, <2>1, <2>2, <2>3, <2>4, Zenon DEF From
    <2> QED BY <1>2, <1>8, <1>9, <1>10, <2>1, <2>2, <2>4, <2>5, Zenon DEF Carrying
  <1>13. Match'
    BY <1>1, <1>2 DEF Match
  <1> QED BY <1>1, <1>2, <1>10, <1>11, <1>12, <1>13, OnlyRd

\* close_function of either program.
LEMMA CloseSinkKeeps ==
  ASSUME Fits, DataInv, CloseSink PROVE DataInv'
  <1> DEFINE o == rd.off + rd.got
             t == TheFile
  <1>1. rd \in RdT /\ disk \in Seq(FileT) /\ InStep /\ Carrying /\ Match
    BY DEF DataInv, ClientType, ReaderSide
  <1>2. /\ rd.pc = "loop" /\ rd.buf = <<>> /\ rd' = [rd EXCEPT !.pc = "transfer", !.off = o, !.file = <<>>]
        /\ disk' = disk \/ disk' = Append(disk, t)
        /\ wr' = wr /\ ended' = ended /\ hb' = hb /\ db' = db
    BY Zenon DEF CloseSink, DiskClose, NullClose
  <1>3. Reading
    BY <1>2 DEF Reading
  <1>4. /\ rd.got \in Int /\ rd.off \in Int /\ rd.hdr \in Hdr /\ rd.number \in Int /\ rd.zc \in BOOLEAN
        /\ rd.file \in Seq(Byte)
    BY <1>1, RdIs
  <1>5. /\ From(rd.file, Utc(X), rd.off) /\ rd.hdr.utc = Utc(X) /\ rd.hdr.off = rd.off
        /\ From(rd.blk, Utc(X), NextByte) /\ (db.h # "RSTOP" => NextByte = Start(X) + Taken)
        /\ (rd.open <=> rd.blk # <<>>) /\ (rd.zc => ~rd.open)
    BY <1>1, <1>2, <1>3 DEF Carrying
  <1>6. o \in Int
    BY <1>4
  <1>7. t \in FileT /\ t.utc = rd.hdr.utc /\ t.off = rd.hdr.off /\ t.bytes = rd.file
    <2>1. rd.hdr.utc \in Nat /\ rd.hdr.off \in Int /\ rd.hdr.fsize \in Int
      BY <1>4, HdrIs
    <2> QED BY <1>4, <2>1 DEF TheFile, FileT
  <1> HIDE DEF t, o
  <1>8. /\ rd' \in RdT /\ rd'.pc = "transfer" /\ rd'.app = rd.app /\ rd'.zc = rd.zc
        /\ rd'.hdr = rd.hdr /\ rd'.off = o /\ rd'.got = rd.got
        /\ rd'.buf = <<>> /\ rd'.file = <<>> /\ rd'.blk = rd.blk /\ rd'.open = rd.open
    <2>1. <<>> \in Seq(Byte) /\ "transfer" \in RdPcs
      BY DEF RdPcs
    <2> QED BY <1>1, <1>2, <1>6, <2>1, Zenon DEF RdT
  <1>9. InStep'
    BY <1>1, <1>2, <1>8 DEF InStep, Reading, X
  <1>10. Carrying'
    <2>1. Utc(X)' = Utc(X) /\ Start(X)' = Start(X) /\ Taken' = Taken
      BY <1>2, <1>8 DEF Utc, Start, X, Taken
    <2>2. NextByte' = NextByte
      <3>1. NextByte' = o + 0 + 0
        BY <1>2, <1>8 DEF NextByte, Got
      <3>2. NextByte = o + 0
        BY <1>2 DEF NextByte, Got, o
      <3> QED BY <1>6, <3>1, <3>2
    <2>3. From(rd'.buf, Utc(X)', rd'.off + Got')
      BY <1>8, FromEmpty
    <2>4. From(rd.buf, Utc(X), rd.off + Got)' /\ From(rd.blk, Utc(X), NextByte)'
      BY <1>5, <1>8, <2>1, <2>2, <2>3, Zenon DEF From
    <2> QED BY <1>2, <1>5, <1>8, <2>1, <2>2, <2>4, Zenon DEF Carrying
  <1>11. Match' /\ disk' \in Seq(FileT)
    <2>1. CASE disk' = disk
      BY <1>1, <2>1 DEF Match
    <2>2. CASE disk' = Append(disk, t)
      <3> DEFINE n == Len(disk)
      <3>1. /\ n \in Nat /\ disk' \in Seq(FileT) /\ Len(disk') = n + 1 /\ disk'[n + 1] = t
            /\ \A k \in 1..n : disk'[k] = disk[k]
        BY <1>1, <1>7, <2>2
      <3>2. From(t.bytes, t.utc, t.off)
        BY <1>5, <1>7
      <3>3. \A k \in 1..n : From(disk[k].bytes, disk[k].utc, disk[k].off)
        BY <1>1 DEF Match
      <3> HIDE DEF n
      <3>4. \A k \in 1..(n + 1) : k \in 1..n \/ k = n + 1
        BY <3>1
      <3>5. \A k \in 1..(n + 1) : From(disk'[k].bytes, disk'[k].utc, disk'[k].off)
        BY <3>1, <3>2, <3>3, <3>4, Zenon
      <3>6. \A k \in 1..Len(disk') : From(disk'[k].bytes, disk'[k].utc, disk'[k].off)
        BY <3>1, <3>5
      <3> QED BY <3>1, <3>6, Zenon DEF Match, From
    <2> QED BY <1>2, <2>1, <2>2
  <1> QED BY <1>2, <1>8, <1>9, <1>10, <1>11, OnlyRd

\* The bytes of the block that the reader is at, which it has not taken yet.
Fetched(q, rest) ==
    /\ q \in RingT(Seq(Byte)) /\ RingOk(q, NBUFS, 1) /\ q.h = "READING"
    /\ q.w = db.w /\ q.blocks = db.blocks /\ q.xs = db.xs
    /\ q.clear = db.clear /\ q.r = db.r /\ q.rx = db.rx
    /\ rest \in Seq(Byte) /\ From(rest, Utc(X), NextByte)
    /\ X = db.rx + 1 /\ Starts(db)[X] \in Int /\ db.r \in Int
    /\ Len(db.blocks[db.r + 1]) \in Nat
    /\ NextByte = Start(X) + ((db.r - Starts(db)[X]) * BUFSZ
                              + (Len(db.blocks[db.r + 1]) - Len(rest)))
    /\ db.r # Ends(db)[X] => Len(db.blocks[db.r + 1]) = BUFSZ

LEMMA BlockOf ==
  ASSUME NEW q \in RingT(Seq(Byte)), NEW n, RingOk(q, n, 1), q.h = "READING", DataOf(q)
  PROVE  LET x == q.rx + 1
             b == q.blocks[q.r + 1]
         IN  /\ x \in 1..Len(q.xs) /\ Starts(q)[x] \in Int /\ q.r \in Int /\ b \in Seq(Byte)
             /\ From(b, Utc(x), Start(x) + (q.r - Starts(q)[x]) * BUFSZ)
             /\ q.r # Ends(q)[x] => Len(b) = BUFSZ
  <1> DEFINE m == Len(q.xs)
             len == Len(q.blocks)
             x == q.rx + 1
             r == q.r
  <1>1. /\ m \in Nat /\ len \in Nat /\ q.clear \in Int /\ q.rx \in Int /\ r \in Int /\ q.full \in Int
        /\ Starts(q) \in [1..m -> Int] /\ Ends(q) \in [1..m -> Int] /\ q.blocks \in Seq(Seq(Byte))
    BY RingIs
  <1>2. /\ Balance(len, q.full, q.clear, r, n, 1)
        /\ Position(m, Starts(q), Ends(q), q.clear, q.rx, "READING")
    BY DEF RingOk
  <1>3. r = q.clear /\ r \in 0..(len - 1)
    BY <1>1, <1>2 DEF Balance
  <1>4. x \in 1..m /\ InTransfer(q, x, r)
    BY <1>1, <1>2, <1>3 DEF Position, InTransfer
  <1>5. Starts(q)[x] \in Int
    BY <1>1, <1>4
  <1> DEFINE b == q.blocks[r + 1]
  <1>6. b \in Seq(Byte)
    <2>1. r + 1 \in 1..len
      BY <1>1, <1>3
    <2> QED BY <1>1, <2>1, ElementOfSeq
  <1>7. From(b, Utc(x), Start(x) + (r - Starts(q)[x]) * BUFSZ) /\ (r # Ends(q)[x] => Len(b) = BUFSZ)
    BY <1>3, <1>4, Zenon DEF DataOf
  <1> QED BY <1>1, <1>4, <1>5, <1>6, <1>7

LEMMA FetchIs ==
  ASSUME Fits, DataInv, rd.pc = "loop", db.h # "RSTOP", rd.open \/ db.full > 0,
         NEW q, q = (IF rd.open THEN db ELSE Opened(db)),
         NEW rest, rest = (IF rd.open THEN rd.blk ELSE Block(q, NBUFS))
  PROVE  Fetched(q, rest)
  <1>1. /\ rd \in RdT /\ InStep /\ Carrying /\ DataOf(db)
        /\ db \in RingT(Seq(Byte)) /\ RingOk(db, NBUFS, Open) /\ hb \in RingT(Hdr)
    BY DEF DataInv, ClientType, WriterSide, ReaderSide, Data
  <1>2. Reading
    BY DEF Reading
  <1>3. /\ NextByte = Start(X) + Taken /\ From(rd.blk, Utc(X), NextByte)
        /\ rd.open <=> rd.blk # <<>>
    BY <1>1, <1>2 DEF Carrying
  <1>4. X = db.rx + 1
    BY <1>1, <1>2 DEF InStep, X
  <1>5. BUFSZ \in Nat /\ NBUFS \in Int /\ NBUFS \in Nat \ {0} /\ Start(X) \in Nat
    BY <1>2, RunRead DEF Fits
  <1> DEFINE b == db.blocks[db.r + 1]
             S == Starts(db)[X]
             r == db.r
  <1>6. CASE rd.open
    <2>1. q = db /\ rest = rd.blk
      BY <1>6
    <2>2. RingOk(db, NBUFS, 1) /\ db.h = "READING"
      BY <1>1, <1>6 DEF Open, InStep
    <2>3. /\ S \in Int /\ r \in Int /\ b \in Seq(Byte)
          /\ r # Ends(db)[X] => Len(b) = BUFSZ
      BY <1>1, <1>4, <2>2, BlockOf
    <2>4. Len(b) \in Nat
      BY <2>3, LenIs
    <2>5. rd.blk \in Seq(Byte)
      BY <1>1, RdIs
    <2>6. Taken = (r - S) * BUFSZ + (Len(b) - Len(rd.blk))
      BY <1>6, <2>2 DEF Taken
    <2> QED BY <1>1, <1>3, <1>4, <2>1, <2>2, <2>3, <2>4, <2>5, <2>6, Zenon DEF Fetched
  <1>7. CASE ~rd.open
    <2>1. q = Opened(db) /\ rest = Block(q, NBUFS)
      BY <1>7
    <2>2. RingOk(db, NBUFS, 0) /\ db.full > 0
      BY <1>1, <1>7 DEF Open
    <2>3. db.h \in {"READER", "READING"}
      <3>1. db.h \in HStates /\ db.h # "VIEWER"
        BY <1>1, <1>2, RingIs DEF InStep
      <3> QED BY <3>1 DEF HStates
    <2>4. /\ q \in RingT(Seq(Byte)) /\ RingOk(q, NBUFS, 1) /\ q.h = "READING"
          /\ q.w = db.w /\ q.blocks = db.blocks /\ q.xs = db.xs
          /\ q.clear = db.clear /\ q.r = db.r /\ q.rx = db.rx
          /\ db.clear < Len(db.blocks)
          /\ db.h = "READER" => db.r = Starts(db)[db.rx + 1]
      BY <1>1, <1>5, <2>1, <2>2, <2>3, OpenedIs
    <2>5. DataOf(q) /\ Starts(q) = Starts(db) /\ Ends(q) = Ends(db)
      BY <1>1, <2>4, DataStays, Zenon
    <2>6. /\ S \in Int /\ r \in Int /\ b \in Seq(Byte)
          /\ From(b, Utc(X), Start(X) + (r - S) * BUFSZ)
          /\ r # Ends(db)[X] => Len(b) = BUFSZ
      <3> DEFINE x == q.rx + 1
                 c == q.blocks[q.r + 1]
      <3>1. /\ Starts(q)[x] \in Int /\ q.r \in Int /\ c \in Seq(Byte)
            /\ From(c, Utc(x), Start(x) + (q.r - Starts(q)[x]) * BUFSZ)
            /\ q.r # Ends(q)[x] => Len(c) = BUFSZ
        BY <2>4, <2>5, BlockOf, Zenon
      <3>2. x = X /\ c = b /\ Starts(q)[x] = S /\ q.r = r /\ Ends(q)[x] = Ends(db)[X]
        BY <1>4, <2>4, <2>5
      <3> HIDE DEF x, c, b, S, r
      <3> QED BY <3>1, <3>2
    <2>7. rest = b
      <3>1. q.clear < Len(q.blocks)
        BY <2>4
      <3>2. Block(q, NBUFS) = q.blocks[q.r + 1]
        BY <1>5, <2>4, <3>1, BlockIs
      <3> QED BY <2>1, <2>4, <3>2
    <2>8. Len(b) \in Nat
      BY <2>6, LenIs
    <2>9. Taken = (r - S) * BUFSZ
      <3>1. CASE db.h = "READER"
        <4>1. r = S
          BY <1>4, <2>4, <3>1
        <4>2. (r - S) * BUFSZ = 0
          BY <1>5, <2>6, <4>1
        <4> QED BY <3>1, <4>2 DEF Taken
      <3>2. CASE db.h # "READER"
        <4>1. Taken = (r - S) * BUFSZ + 0
          BY <1>7, <3>2 DEF Taken
        <4> DEFINE d == r - S
        <4>2. d \in Int
          BY <2>6
        <4> HIDE DEF d
        <4>3. d * BUFSZ \in Int
          BY <1>5, <4>2
        <4> QED BY <4>1, <4>3 DEF d
      <3> QED BY <3>1, <3>2
    <2>10. NextByte = Start(X) + (r - S) * BUFSZ
      BY <1>3, <2>9
    <2>11. From(rest, Utc(X), NextByte)
      BY <2>6, <2>7, <2>10
    <2>12. (r - S) * BUFSZ = (r - S) * BUFSZ + (Len(b) - Len(rest))
      <3> DEFINE d == (r - S) * BUFSZ
                 l == Len(b)
      <3>1. d \in Int
        BY <1>5, <2>6, Times
      <3>2. l \in Nat /\ Len(rest) = l
        BY <2>7, <2>8
      <3> HIDE DEF d, l
      <3>3. d = d + (l - Len(rest))
        BY <3>1, <3>2
      <3> QED BY <3>3, Zenon DEF d, l
    <2> HIDE DEF b, S, r
    <2>13. NextByte = Start(X) + ((r - S) * BUFSZ + (Len(b) - Len(rest)))
      BY <2>10, <2>12
    <2> QED BY <1>4, <2>4, <2>6, <2>7, <2>8, <2>11, <2>13, Zenon DEF Fetched, b, S, r
  <1> QED BY <1>6, <1>7

\* A block that is used up is cleared.
UsedUp(z, p) ==
    /\ z \in RingT(Seq(Byte)) /\ RingOk(z, NBUFS, 0) /\ SameData(db, z) /\ z.clear >= db.clear
    /\ z.h \in {"RSTOP", "READING"}
    /\ z.h = "RSTOP" => hb.rx = z.rx
    /\ z.h = "READING" => hb.rx = z.rx + 1 /\ p = Start(X) + (z.r - Starts(z)[X]) * BUFSZ

LEMMA UsedUpIs ==
  ASSUME Fits, DataInv, Reading, NEW q, NEW rest, Fetched(q, rest)
  PROVE  UsedUp(Cleared(q), NextByte + Len(rest))
  <1> DEFINE z == Cleared(q)
             b == db.blocks[db.r + 1]
             S == Starts(db)[X]
             E == Ends(db)[X]
             r == db.r
             l == Len(b)
             a == Start(X)
             lr == Len(rest)
  <1>1. /\ q \in RingT(Seq(Byte)) /\ RingOk(q, NBUFS, 1) /\ q.h = "READING"
        /\ q.w = db.w /\ q.blocks = db.blocks /\ q.xs = db.xs
        /\ q.clear = db.clear /\ q.r = r /\ q.rx = db.rx
        /\ rest \in Seq(Byte) /\ X = db.rx + 1 /\ S \in Int /\ r \in Int /\ l \in Nat
        /\ NextByte = a + ((r - S) * BUFSZ + (l - lr))
        /\ r # E => l = BUFSZ
    BY Zenon DEF Fetched
  <1>2. BUFSZ \in Nat /\ NBUFS \in Int /\ a \in Nat /\ lr \in Nat /\ q.clear \in Int /\ hb.rx = X
    <2>1. a \in Nat
      BY RunRead
    <2>2. lr \in Nat
      BY <1>1, LenIs
    <2>3. q.clear \in Int
      BY <1>1, RingIs
    <2> QED BY <2>1, <2>2, <2>3 DEF Fits, X
  <1>3. Starts(q) = Starts(db) /\ Ends(q) = Ends(db)
    BY <1>1 DEF Starts, Ends
  <1>4. /\ z \in RingT(Seq(Byte)) /\ RingOk(z, NBUFS, 0)
        /\ z.w = q.w /\ z.blocks = q.blocks /\ z.xs = q.xs
        /\ z.clear = q.clear + 1 /\ z.r = q.r + 1
        /\ Ends(q)[q.rx + 1] = q.r => z.h = "RSTOP" /\ z.rx = q.rx + 1
        /\ Ends(q)[q.rx + 1] # q.r => z.h = "READING" /\ z.rx = q.rx
    BY <1>1, <1>2, ClearedIs
  <1> HIDE DEF z
  <1>5. Starts(z) = Starts(db)
    BY <1>3, <1>4 DEF Starts
  <1>6. /\ E = r => z.h = "RSTOP" /\ z.rx = db.rx + 1
        /\ E # r => z.h = "READING" /\ z.rx = db.rx
    BY <1>1, <1>3, <1>4
  <1>7. SameData(db, z) /\ z.clear >= db.clear
    BY <1>1, <1>2, <1>4 DEF SameData
  <1>8. z.r = r + 1 /\ Starts(z)[X] = S
    BY <1>1, <1>4, <1>5
  <1> HIDE DEF b, S, E, r, l, a, lr
  <1>9. E # r => NextByte + lr = a + (z.r - Starts(z)[X]) * BUFSZ
    <2> SUFFICES ASSUME E # r PROVE NextByte + lr = a + ((r + 1) - S) * BUFSZ
      BY <1>8
    <2> DEFINE d == r - S
               t == d * BUFSZ
    <2>1. d \in Int /\ (r + 1) - S = d + 1
      BY <1>1
    <2>2. NextByte = a + (t + (l - lr)) /\ l = BUFSZ
      BY <1>1
    <2> HIDE DEF d
    <2>3. (d + 1) * BUFSZ = t + BUFSZ /\ t \in Int
      BY <1>2, <2>1, Times
    <2> HIDE DEF t
    <2>4. NextByte + lr = a + (t + BUFSZ)
      BY <1>1, <1>2, <2>2, <2>3
    <2> QED BY <2>1, <2>3, <2>4
  <1>10. UsedUp(z, NextByte + lr)
    <2>1. E = r \/ E # r
      OBVIOUS
    <2> QED BY <1>1, <1>2, <1>4, <1>6, <1>7, <1>9, <2>1 DEF UsedUp, a
  <1> QED BY <1>10 DEF z, lr

\* io_block_function gets a block.
LEMMA LoopStoreBlockKeeps ==
  ASSUME Fits, DataInv, LoopStoreBlock PROVE DataInv'
  <1> DEFINE q == Opened(db)
             b == Block(q, NBUFS)
             f == Sunk(b)
             g == rd.got + Len(b)
  <1>1. rd \in RdT /\ disk \in Seq(FileT) /\ InStep /\ Carrying /\ Match /\ Headers
        /\ hb \in RingT(Hdr) /\ RingOk(hb, NHDR, 0)
    BY DEF DataInv, ClientType, WriterSide, ReaderSide
  <1>2. /\ rd.pc = "loop" /\ rd.zc /\ db.h # "RSTOP" /\ db.full > 0
        /\ db' = Cleared(q) /\ rd' = [rd EXCEPT !.file = f, !.got = g]
        /\ wr' = wr /\ disk' = disk /\ ended' = ended /\ hb' = hb
    BY Zenon DEF LoopStoreBlock, InLoop, Readable, Eod
  <1>3. Reading /\ rd.open = FALSE /\ rd.buf = <<>> /\ rd.blk = <<>>
    <2>1. rd.open \in BOOLEAN
      BY <1>1, RdIs
    <2> QED BY <1>1, <1>2, <2>1 DEF Reading, Carrying
  <1>4. Fetched(q, b)
    <2>1. q = IF rd.open THEN db ELSE Opened(db)
      BY <1>3
    <2>2. b = IF rd.open THEN rd.blk ELSE Block(q, NBUFS)
      BY <1>3
    <2> HIDE DEF q, b
    <2> QED BY <1>2, <2>1, <2>2, FetchIs
  <1> HIDE DEF q, b
  <1>5. b \in Seq(Byte) /\ From(b, Utc(X), NextByte)
    BY <1>4 DEF Fetched
  <1>6. UsedUp(db', NextByte + Len(b))
    BY <1>2, <1>3, <1>4, UsedUpIs
  <1>7. /\ rd.got \in Int /\ rd.off \in Int /\ rd.got >= 0 /\ Len(b) \in Nat
        /\ Utc(X) \in Nat
    BY <1>1, <1>2, <1>3, <1>5, RdIs, LenIs, RunRead DEF Carrying
  <1>8. NextByte = rd.off + rd.got
    <2>1. NextByte = rd.off + rd.got + 0
      BY <1>2, <1>3 DEF NextByte, Got
    <2> QED BY <1>7, <2>1
  <1>9. /\ f \in Seq(Byte) /\ From(f, Utc(X), rd.off)
        /\ rd.app = "dbdisk" => Len(f) = g
    BY <1>1, <1>2, <1>5, <1>7, <1>8, SunkIs
  <1>10. g \in Int /\ g >= 0 /\ rd.off + g + 0 = NextByte + Len(b)
    BY <1>7, <1>8
  <1> HIDE DEF f, g
  <1>11. /\ rd' \in RdT /\ rd'.pc = rd.pc /\ rd'.app = rd.app /\ rd'.zc = rd.zc
         /\ rd'.hdr = rd.hdr /\ rd'.off = rd.off /\ rd'.got = g
         /\ rd'.buf = rd.buf /\ rd'.file = f /\ rd'.blk = rd.blk /\ rd'.open = rd.open
    BY <1>1, <1>2, <1>9, <1>10, Zenon DEF RdT
  <1>12. /\ db' \in RingT(Seq(Byte)) /\ RingOk(db', NBUFS, 0) /\ SameData(db, db')
         /\ db'.clear >= db.clear /\ db'.h \in {"RSTOP", "READING"}
         /\ db'.h = "RSTOP" => hb.rx = db'.rx
         /\ db'.h = "READING" =>
               hb.rx = db'.rx + 1 /\ NextByte + Len(b) = Start(X) + (db'.r - Starts(db')[X]) * BUFSZ
    BY <1>6 DEF UsedUp
  <1>13. InStep'
    <2>1. hb'.h = "RSTOP" /\ X >= 1 /\ X' = X
      BY <1>1, <1>2, <1>3 DEF InStep, X
    <2>2. db'.rx \in Int
      BY <1>12, RingIs
    <2> QED BY <1>2, <1>3, <1>11, <1>12, <2>1, <2>2 DEF InStep, Reading, X
  <1>14. Carrying'
    <2>1. Utc(X)' = Utc(X) /\ Start(X)' = Start(X) /\ X' = X /\ Starts(db)' = Starts(db')
      BY <1>2 DEF Utc, Start, X, Starts
    <2>2. NextByte' = NextByte + Len(b)
      <3>1. NextByte' = rd.off + g + 0
        BY <1>2, <1>3, <1>11 DEF NextByte, Got
      <3> QED BY <1>10, <3>1
    <2>3. db'.h = "READING" => Taken' = (db'.r - Starts(db')[X]) * BUFSZ
      <3> DEFINE t == (db'.r - Starts(db')[X]) * BUFSZ
      <3>1. db'.h = "READING" => Taken' = t + 0
        BY <1>3, <1>11, <2>1, Zenon DEF Taken
      <3>2. db'.h = "READING" => t \in Int
        <4>1. Starts(db')[X] \in Int /\ db'.r \in Int
          <5>1. Starts(db') = Starts(db)
            BY <1>12 DEF SameData, Starts
          <5>2. Starts(db)[X] \in Int
            BY <1>4 DEF Fetched
          <5> QED BY <1>12, <5>1, <5>2, RingIs
        <4>2. BUFSZ \in Nat
          BY DEF Fits
        <4> QED BY <4>1, <4>2
      <3> HIDE DEF t
      <3>3. db'.h = "READING" => Taken' = t
        BY <3>1, <3>2
      <3> QED BY <3>3 DEF t
    <2>4. db'.h # "RSTOP" => NextByte' = Start(X)' + Taken'
      BY <1>12, <2>1, <2>2, <2>3
    <2>5. From(rd'.buf, Utc(X)', rd'.off + Got') /\ From(rd'.blk, Utc(X)', NextByte')
      BY <1>3, <1>11, FromEmpty
    <2>6. rd.hdr.utc = Utc(X) /\ rd.hdr.off = rd.off
      BY <1>1, <1>2, <1>3 DEF Carrying
    <2>7. From(rd.buf, Utc(X), rd.off + Got)' /\ From(rd.blk, Utc(X), NextByte)'
          /\ From(rd.file, Utc(X), rd.off)'
      BY <1>9, <1>11, <2>1, <2>5, Zenon DEF From
    <2> QED BY <1>2, <1>3, <1>9, <1>10, <1>11, <2>1, <2>4, <2>6, <2>7, Zenon DEF Carrying
  <1>15. Match'
    BY <1>1, <1>2 DEF Match
  <1>16. Open' = 0
    BY <1>3, <1>11 DEF Open
  <1>17. SameData(hb, hb') /\ hb' \in RingT(Hdr) /\ RingOk(hb', NHDR, 0) /\ hb'.h # "READING"
         /\ disk' \in Seq(FileT)
    BY <1>1, <1>2 DEF SameData, Headers
  <1> QED BY <1>2, <1>11, <1>12, <1>13, <1>14, <1>15, <1>16, <1>17, ReaderKeeps

\* ipcio_read copies from a block.
LEMMA LoopFetchKeeps ==
  ASSUME Fits, DataInv, LoopFetch PROVE DataInv'
  <1> DEFINE q == IF rd.open THEN db ELSE Opened(db)
             rest == IF rd.open THEN rd.blk ELSE Block(q, NBUFS)
             need == Chunk - Len(rd.buf)
             lr == Len(rest)
             n == IF need < lr THEN need ELSE lr
             head == SubSeq(rest, 1, n)
             left == SubSeq(rest, n + 1, lr)
             buf == rd.buf \o head
             open == left # <<>>
             lf == Len(rd.buf)
             b == db.blocks[db.r + 1]
             S == Starts(db)[X]
             t == (db.r - S) * BUFSZ
             a == Start(X)
  <1>1. rd \in RdT /\ disk \in Seq(FileT) /\ InStep /\ Carrying /\ Match /\ Headers
        /\ hb \in RingT(Hdr) /\ RingOk(hb, NHDR, 0) /\ db \in RingT(Seq(Byte))
    BY DEF DataInv, ClientType, WriterSide, ReaderSide
  <1>2. /\ rd.pc = "loop" /\ ~rd.zc /\ db.h # "RSTOP" /\ Len(rd.buf) < Chunk
        /\ rd.open \/ db.full > 0
        /\ db' = (IF left = <<>> THEN Cleared(q) ELSE q)
        /\ rd' = [rd EXCEPT !.buf = buf, !.blk = left, !.open = open]
        /\ wr' = wr /\ disk' = disk /\ ended' = ended /\ hb' = hb
    BY Zenon DEF LoopFetch, InLoop, Readable, Eod
  <1>3. Reading
    BY <1>2 DEF Reading
  <1>4. Fetched(q, rest)
    BY <1>2, FetchIs
  <1> HIDE DEF q, rest
  <1>5. /\ q \in RingT(Seq(Byte)) /\ RingOk(q, NBUFS, 1) /\ q.h = "READING"
        /\ q.w = db.w /\ q.blocks = db.blocks /\ q.xs = db.xs
        /\ q.clear = db.clear /\ q.r = db.r /\ q.rx = db.rx
        /\ rest \in Seq(Byte) /\ From(rest, Utc(X), NextByte)
        /\ X = db.rx + 1 /\ S \in Int /\ db.r \in Int /\ Len(b) \in Nat
        /\ NextByte = a + (t + (Len(b) - lr))
    BY <1>4, Zenon DEF Fetched
  <1>6. /\ rd.got \in Int /\ rd.off \in Int /\ rd.buf \in Seq(Byte) /\ lf \in Nat /\ lr \in Nat
        /\ rd.want \in Int
    BY <1>1, <1>5, RdIs, LenIs
  <1>7. NextByte = rd.off + rd.got + lf /\ Got = rd.got
    BY <1>2 DEF NextByte, Got
  <1>8. n \in 0..lr
    <2>1. Chunk \in Int
      <3> DEFINE w == rd.want
                 g == rd.got
                 c == IF w = 0 \/ w - g > CHUNK THEN CHUNK ELSE w - g
      <3>1. w \in Int /\ g \in Int /\ CHUNK \in Int
        BY <1>6 DEF Fits
      <3>2. Chunk = c
        BY Zenon DEF Chunk
      <3> HIDE DEF w, g
      <3>3. c \in Int
        BY <3>1
      <3> QED BY <3>2, <3>3
    <2>2. need \in Int /\ need > 0
      <3> HIDE DEF lf
      <3>1. Chunk - lf \in Int /\ Chunk - lf > 0
        BY <1>2, <1>6, <2>1 DEF lf
      <3> QED BY <3>1, Zenon DEF lf
    <2> HIDE DEF need, lr
    <2> QED BY <1>6, <2>2
  <1> HIDE DEF n
  <1>9. /\ head \in Seq(Byte) /\ Len(head) = n /\ From(head, Utc(X), NextByte)
        /\ left \in Seq(Byte) /\ Len(left) = lr - n /\ From(left, Utc(X), NextByte + n)
    <2>1. NextByte \in Int
      BY <1>6, <1>7
    <2> QED BY <1>5, <1>8, <2>1, FromParts
  <1> HIDE DEF head, left
  <1>10. buf \in Seq(Byte) /\ Len(buf) = lf + n /\ From(buf, Utc(X), rd.off + rd.got)
    <2>1. From(rd.buf, Utc(X), rd.off + rd.got)
      BY <1>1, <1>3, <1>7 DEF Carrying
    <2>2. rd.off + rd.got \in Int /\ From(head, Utc(X), rd.off + rd.got + Len(rd.buf))
      BY <1>6, <1>7, <1>9
    <2>3. From(buf, Utc(X), rd.off + rd.got) /\ buf \in Seq(Byte) /\ Len(buf) = Len(rd.buf) + Len(head)
      BY <1>6, <1>9, <2>1, <2>2, FromConcat
    <2> QED BY <1>9, <2>3
  <1> HIDE DEF buf
  <1>11. open \in BOOLEAN /\ (left = <<>> <=> Len(left) = 0)
    <2>1. left = <<>> <=> Len(left) = 0
      BY <1>9, EmptySeq
    <2> QED BY <2>1
  <1>12. /\ rd' \in RdT /\ rd'.pc = rd.pc /\ rd'.app = rd.app /\ rd'.zc = rd.zc
         /\ rd'.hdr = rd.hdr /\ rd'.off = rd.off /\ rd'.got = rd.got
         /\ rd'.buf = buf /\ rd'.file = rd.file /\ rd'.blk = left /\ rd'.open = open
    <2> HIDE DEF open
    <2> QED BY <1>1, <1>2, <1>9, <1>10, <1>11, Zenon DEF RdT
  <1>13. Utc(X)' = Utc(X) /\ Start(X)' = a /\ X' = X /\ Starts(db)' = Starts(db')
    BY <1>2 DEF Utc, Start, X, Starts
  <1>14. NextByte' = NextByte + n /\ Got' = rd.got
    <2>1. NextByte' = rd.off + rd.got + Len(buf) /\ Got' = rd.got
      BY <1>2, <1>12 DEF NextByte, Got
    <2> HIDE DEF lf
    <2> QED BY <1>6, <1>7, <1>8, <1>10, <2>1
  <1>15. /\ rd.hdr.utc = Utc(X) /\ rd.hdr.off = rd.off /\ rd.got >= 0
         /\ From(rd.file, Utc(X), rd.off) /\ (rd.app = "dbdisk" => Len(rd.file) = rd.got)
    BY <1>1, <1>2, <1>3 DEF Carrying
  <1>16. BUFSZ \in Nat /\ t \in Int /\ a \in Nat
    <2>1. BUFSZ \in Nat /\ a \in Nat
      BY <1>3, RunRead DEF Fits
    <2> DEFINE d == db.r - S
    <2>2. d \in Int
      BY <1>5
    <2> HIDE DEF d
    <2>3. d * BUFSZ \in Int
      BY <2>1, <2>2
    <2> QED BY <2>1, <2>3 DEF d
  <1>17. CASE left = <<>>
    <2>1. db' = Cleared(q) /\ open = FALSE /\ lr = n
      <3> HIDE DEF lr
      <3>1. lr = n
        BY <1>6, <1>8, <1>9, <1>11, <1>17
      <3> QED BY <1>2, <1>17, <3>1
    <2>2. UsedUp(db', NextByte + n)
      <3>1. UsedUp(Cleared(q), NextByte + Len(rest))
        BY <1>3, <1>4, UsedUpIs
      <3> QED BY <2>1, <3>1
    <2>3. /\ db' \in RingT(Seq(Byte)) /\ RingOk(db', NBUFS, 0) /\ SameData(db, db')
          /\ db'.clear >= db.clear /\ db'.h \in {"RSTOP", "READING"}
          /\ db'.h = "RSTOP" => hb.rx = db'.rx
          /\ db'.h = "READING" =>
                hb.rx = db'.rx + 1 /\ NextByte + n = a + (db'.r - Starts(db')[X]) * BUFSZ
      BY <2>2 DEF UsedUp
    <2>4. Open' = 0
      BY <1>12, <2>1 DEF Open
    <2>5. InStep'
      <3>1. hb'.h = "RSTOP" /\ X >= 1
        BY <1>1, <1>2, <1>3 DEF InStep
      <3>2. db'.rx \in Int
        BY <2>3, RingIs
      <3>3. hb.rx = db'.rx + IF db'.h # "RSTOP" THEN 1 ELSE 0
        BY <2>3, <3>2
      <3>4. /\ rd'.open = FALSE /\ rd'.pc = "loop" /\ hb'.rx = hb.rx /\ X' >= 1 /\ hb'.h = "RSTOP"
            /\ db'.h # "VIEWER"
        BY <1>2, <1>12, <1>13, <2>1, <2>3, <3>1
      <3> QED BY <3>3, <3>4 DEF InStep, Reading
    <2>6. db'.h # "RSTOP" => NextByte' = Start(X)' + Taken'
      <3> DEFINE t2 == (db'.r - Starts(db')[X]) * BUFSZ
      <3>1. db'.h = "READING" => Taken' = t2 + 0
        BY <1>12, <1>13, <2>1, Zenon DEF Taken
      <3>2. t2 \in Int
        <4>1. Starts(db') = Starts(db)
          BY <2>3 DEF SameData, Starts
        <4>2. db'.r \in Int
          BY <2>3, RingIs
        <4> DEFINE d == db'.r - Starts(db')[X]
        <4>3. d \in Int
          BY <1>5, <4>1, <4>2
        <4> HIDE DEF d
        <4>4. d * BUFSZ \in Int
          BY <1>16, <4>3
        <4> QED BY <4>4 DEF d
      <3> HIDE DEF t2
      <3>3. db'.h = "READING" => NextByte' = a + t2
        BY <1>14, <2>3 DEF t2
      <3> QED BY <1>13, <2>3, <3>1, <3>2, <3>3
    <2>7. Carrying'
      <3>1. From(rd'.buf, Utc(X)', rd'.off + Got')
        BY <1>10, <1>12, <1>13, <1>14
      <3>2. From(rd'.blk, Utc(X)', NextByte')
        BY <1>12, <1>17, FromEmpty
      <3>3. From(rd.buf, Utc(X), rd.off + Got)' /\ From(rd.blk, Utc(X), NextByte)'
            /\ From(rd.file, Utc(X), rd.off)'
        BY <1>12, <1>13, <1>15, <3>1, <3>2, Zenon DEF From
      <3> QED BY <1>2, <1>12, <1>13, <1>15, <1>17, <2>1, <2>6, <3>3, Zenon DEF Carrying
    <2>8. Match'
      BY <1>1, <1>2 DEF Match
    <2>9. SameData(hb, hb') /\ hb' \in RingT(Hdr) /\ RingOk(hb', NHDR, 0) /\ hb'.h # "READING"
          /\ disk' \in Seq(FileT)
      BY <1>1, <1>2 DEF SameData, Headers
    <2> QED BY <1>2, <1>12, <2>3, <2>4, <2>5, <2>7, <2>8, <2>9, ReaderKeeps
  <1>18. CASE left # <<>>
    <2>1. db' = q /\ open = TRUE
      BY <1>2, <1>18
    <2>2. SameData(db, db') /\ db'.clear >= db.clear
      <3>1. db.clear \in Int
        BY <1>1, RingIs
      <3> QED BY <1>5, <2>1, <3>1 DEF SameData
    <2>3. Open' = 1
      BY <1>12, <2>1 DEF Open
    <2>4. InStep'
      <3>1. hb'.h = "RSTOP" /\ X >= 1
        BY <1>1, <1>2, <1>3 DEF InStep
      <3> QED BY <1>2, <1>3, <1>5, <1>12, <1>13, <2>1, <3>1 DEF InStep, Reading, X
    <2>5. NextByte' = Start(X)' + Taken'
      <3>1. Starts(db') = Starts(db)
        BY <2>2 DEF SameData, Starts
      <3>2. Taken' = (db'.r - Starts(db')[X]) * BUFSZ + (Len(db'.blocks[db'.r + 1]) - Len(left))
        BY <1>5, <1>12, <1>13, <2>1, Zenon DEF Taken
      <3>3. Taken' = t + (Len(b) - (lr - n))
        BY <1>5, <1>9, <2>1, <3>1, <3>2
      <3> HIDE DEF t, b, lr, a
      <3> QED BY <1>5, <1>6, <1>8, <1>13, <1>14, <1>16, <3>3
    <2>6. Carrying'
      <3>1. From(rd'.buf, Utc(X)', rd'.off + Got')
        BY <1>10, <1>12, <1>13, <1>14
      <3>2. From(rd'.blk, Utc(X)', NextByte')
        BY <1>9, <1>12, <1>13, <1>14
      <3>3. From(rd.buf, Utc(X), rd.off + Got)' /\ From(rd.blk, Utc(X), NextByte)'
            /\ From(rd.file, Utc(X), rd.off)'
        BY <1>12, <1>13, <1>15, <3>1, <3>2, Zenon DEF From
      <3> QED BY <1>2, <1>12, <1>13, <1>15, <1>18, <2>1, <2>5, <3>3, Zenon DEF Carrying
    <2>7. Match'
      BY <1>1, <1>2 DEF Match
    <2>8. SameData(hb, hb') /\ hb' \in RingT(Hdr) /\ RingOk(hb', NHDR, 0) /\ hb'.h # "READING"
          /\ disk' \in Seq(FileT)
      BY <1>1, <1>2 DEF SameData, Headers
    <2>9. db' \in RingT(Seq(Byte)) /\ RingOk(db', NBUFS, Open')
      BY <1>5, <2>1, <2>3
    <2> QED BY <1>2, <1>12, <2>2, <2>4, <2>6, <2>7, <2>8, <2>9, ReaderKeeps
  <1> QED BY <1>17, <1>18

-----------------------------------------------------------------------------
(* The invariant.                                                          *)

LEMMA NewRingIs ==
  ASSUME NEW B, NEW n \in Nat
  PROVE  /\ NewRing \in RingT(B) /\ RingOk(NewRing, n, 0) /\ NewRing.blocks = <<>>
         /\ NewRing.xs = <<>> /\ NewRing.w = "DISCON" /\ NewRing.h = "VIEWER" /\ NewRing.rx = 0
         /\ Len(NewRing.blocks) = 0 /\ Len(NewRing.xs) = 0
  <1> DEFINE z == NewRing
  <1>1. /\ z.blocks = <<>> /\ z.xs = <<>> /\ z.w = "DISCON" /\ z.full = 0 /\ z.clear = 0
        /\ z.r = 0 /\ z.rx = 0 /\ z.h = "VIEWER"
    BY DEF NewRing
  <1>2. z \in RingT(B)
    <2>1. <<>> \in Seq(B) /\ <<>> \in Seq(Xfer)
      OBVIOUS
    <2> QED BY <2>1 DEF NewRing, RingT
  <1> HIDE DEF z
  <1>3. Len(z.blocks) = 0 /\ Len(z.xs) = 0
    BY <1>1
  <1>4. Layout(0, 0, "DISCON", Starts(z), Ends(z)) /\ Position(0, Starts(z), Ends(z), 0, 0, "VIEWER")
    BY DEF Layout, Position
  <1>5. Balance(0, 0, 0, 0, n, 0)
    BY DEF Balance
  <1>6. RingOk(z, n, 0)
    BY <1>1, <1>3, <1>4, <1>5 DEF RingOk
  <1> QED BY <1>1, <1>2, <1>3, <1>6 DEF z

LEMMA DataInvStarts ==
  ASSUME Fits, Init PROVE DataInv
  <1>1. /\ hb = NewRing /\ db = NewRing /\ wr = NoWriter /\ rd = NoReader
        /\ disk = <<>> /\ ended = <<>>
    BY DEF Init
  <1>2. NHDR \in Nat /\ NBUFS \in Nat /\ BUFSZ \in Nat
    BY DEF Fits
  <1>3. /\ hb \in RingT(Hdr) /\ RingOk(hb, NHDR, 0) /\ hb.blocks = <<>> /\ hb.xs = <<>>
        /\ hb.w = "DISCON" /\ hb.h = "VIEWER" /\ hb.rx = 0
        /\ Len(hb.blocks) = 0 /\ Len(hb.xs) = 0
    BY <1>1, <1>2, NewRingIs
  <1>4. /\ db \in RingT(Seq(Byte)) /\ RingOk(db, NBUFS, 0) /\ db.blocks = <<>> /\ db.xs = <<>>
        /\ db.w = "DISCON" /\ db.h = "VIEWER" /\ db.rx = 0
        /\ Len(db.blocks) = 0 /\ Len(db.xs) = 0
    BY <1>1, <1>2, NewRingIs
  <1>5. /\ wr \in WrT /\ wr.pc = "none" /\ wr.job = 0 /\ wr.buf = <<>> /\ wr.blk = <<>>
        /\ wr.open = FALSE
    <2>1. NoWriter \in WrT
      BY DEF WrT, NoWriter, WrPcs
    <2> QED BY <1>1, <2>1 DEF NoWriter
  <1>6. /\ rd \in RdT /\ rd.pc = "none" /\ rd.buf = <<>> /\ rd.blk = <<>> /\ rd.file = <<>>
        /\ rd.open = FALSE
    <2>1. NoReader \in RdT
      BY DEF RdT, NoReader, RdPcs, Hdr
    <2> QED BY <1>1, <2>1 DEF NoReader
  <1>7. disk \in Seq(FileT) /\ ended \in Seq(Run) /\ Len(disk) = 0 /\ Len(ended) = 0
    BY <1>1
  <1>8. ClientType
    BY <1>3, <1>4, <1>5, <1>6, <1>7 DEF ClientType
  <1>9. Open = 0
    BY <1>6 DEF Open
  <1>10. Data /\ Headers
    BY <1>3, <1>4 DEF Data, DataOf, Headers
  <1>11. Counts
    BY <1>3, <1>4, <1>5, <1>7 DEF Counts, Waiting, Active
  <1>12. HasJob /\ Place
    BY <1>5 DEF HasJob, Place
  <1>13. Holding
    <2>1. Len(wr.blk) <= BUFSZ
      BY <1>2, <1>5
    <2> QED BY <1>5, <2>1 DEF Holding, Active
  <1>14. InStep /\ Carrying /\ Match
    BY <1>3, <1>4, <1>6, <1>7 DEF InStep, Carrying, Match, Reading
  <1> QED BY <1>3, <1>4, <1>8, <1>9, <1>10, <1>11, <1>12, <1>13, <1>14
          DEF DataInv, WriterSide, ReaderSide

LEMMA DataInvKept ==
  ASSUME Fits, DataInv, [Next]_vars PROVE DataInv'
  <1>1. ASSUME NEW job \in Jobs, StartDiskdb(job) \/ StartJunkdb(job) PROVE DataInv'
    BY <1>1, StartDiskdbKeeps, StartJunkdbKeeps
  <1>2. CASE Writer
    BY <1>2, WriteHeaderKeeps, WriteHeaderFailsKeeps, LoopReadKeeps, LoopFillKeeps,
       LoopWriteKeeps, LoopBlockKeeps, LoopDoneKeeps, CloseFileKeeps, CloseJunkKeeps,
       StopWriterKeeps DEF Writer
  <1>3. ASSUME NEW sink \in Sinks, StartDbdisk(sink) \/ StartDbnull(sink) PROVE DataInv'
    BY <1>3, StartDbdiskKeeps, StartDbnullKeeps
  <1>4. CASE Reader
    BY <1>3, <1>4, ReadHeaderKeeps, ReadHeaderFailsKeeps, OpenSinkKeeps, LoopFetchKeeps,
       LoopStoreKeeps, LoopStoreBlockKeeps, CloseSinkKeeps, ReadDoneKeeps, QuitKeeps,
       RelockKeeps DEF Reader
  <1>5. CASE UNCHANGED vars
    <2>1. hb' = hb /\ db' = db /\ wr' = wr /\ rd' = rd /\ disk' = disk /\ ended' = ended
      BY <1>5 DEF vars
    <2>2. wr \in WrT /\ Counts /\ HasJob /\ Place /\ Holding
      BY DEF DataInv, ClientType, WriterSide
    <2>3. Counts' /\ HasJob' /\ Place'
      BY <2>1, <2>2, Zenon DEF Counts, Waiting, Active, HasJob, Place, At, Utc, Start
    <2>4. Holding'
      BY <2>1, <2>2, Zenon DEF Holding, Active, Put, Base, Room, Utc, Start, From
    <2> QED BY <2>1, <2>2, <2>3, <2>4, OnlyWr
  <1> QED BY <1>1, <1>2, <1>3, <1>4, <1>5 DEF Next

\* Every file that dada_dbdisk stores holds the bytes that its header names: those
\* of the observation UTC_START from OBS_OFFSET on.  The header and the data come
\* through two rings; chunks, blocks, files, ends of data and restarts of either
\* client cut the bytes, for any sizes of them.
THEOREM FilesAreRight == Spec => []FilesMatch
  <1>1. Init => DataInv
    BY FitsAssumption, DataInvStarts
  <1>2. DataInv /\ [Next]_vars => DataInv'
    BY FitsAssumption, DataInvKept
  <1>3. DataInv => FilesMatch
    BY Zenon DEF DataInv, ReaderSide, Match, From, FilesMatch
  <1> QED BY <1>1, <1>2, <1>3, PTL DEF Spec

-----------------------------------------------------------------------------
(* The files of an observation follow on each other.                       *)

\* The calls of the writer leave the reader's place and state alone.
LEMMA ReaderUntouched ==
  ASSUME NEW B, NEW q \in RingT(B), NEW b, NEW eod, NEW w
  PROVE  /\ Started(q).h = q.h /\ Started(q).rx = q.rx
         /\ Filled(q, b, eod).h = q.h /\ Filled(q, b, eod).rx = q.rx
         /\ Filled(Started(q), b, eod).h = q.h /\ Filled(Started(q), b, eod).rx = q.rx
         /\ [q EXCEPT !.w = w].h = q.h /\ [q EXCEPT !.w = w].rx = q.rx
  <1>1. {"h", "rx"} \subseteq DOMAIN q
    BY DEF RingT
  <1>2. ASSUME NEW z, {"h", "rx"} \subseteq DOMAIN z
        PROVE  Filled(z, b, eod).h = z.h /\ Filled(z, b, eod).rx = z.rx
    <2> DEFINE bl == Append(z.blocks, b)
               fu == z.full + 1
               ww == IF eod THEN "WRITER" ELSE z.w
               xs == IF eod THEN [z.xs EXCEPT ![Len(z.xs)].e = Len(z.blocks)] ELSE z.xs
    <2>1. Filled(z, b, eod) = [z EXCEPT !.blocks = bl, !.full = fu, !.w = ww, !.xs = xs]
      BY Zenon DEF Filled
    <2> HIDE DEF bl, fu, ww, xs
    <2> QED BY <1>2, <2>1
  <1>3. /\ Started(q).h = q.h /\ Started(q).rx = q.rx
        /\ {"h", "rx"} \subseteq DOMAIN Started(q)
    <2> DEFINE xs == Append(q.xs, [s |-> Len(q.blocks), e |-> -1])
    <2>1. Started(q) = IF q.w # "WCHANGE" THEN q ELSE [q EXCEPT !.w = "WRITING", !.xs = xs]
      BY Zenon DEF Started
    <2> HIDE DEF xs
    <2> QED BY <1>1, <2>1
  <1>4. Filled(q, b, eod).h = q.h /\ Filled(q, b, eod).rx = q.rx
    BY <1>1, <1>2
  <1>5. Filled(Started(q), b, eod).h = q.h /\ Filled(Started(q), b, eod).rx = q.rx
    <2> DEFINE z == Started(q)
    <2> HIDE DEF z
    <2>1. z.h = q.h /\ z.rx = q.rx /\ {"h", "rx"} \subseteq DOMAIN z
      BY <1>3 DEF z
    <2>2. Filled(z, b, eod).h = q.h /\ Filled(z, b, eod).rx = q.rx
      BY <1>2, <2>1
    <2> QED BY <2>2 DEF z
  <1>6. [q EXCEPT !.w = w].h = q.h /\ [q EXCEPT !.w = w].rx = q.rx
    BY <1>1
  <1> QED BY <1>3, <1>4, <1>5, <1>6

\* A run keeps its job when what it has written grows.
LEMMA JobStays ==
  ASSUME ended \in Seq(Run), ended' \in Seq(Run), NEW j \in 1..Len(ended), NEW v,
         \/ ended' = [ended EXCEPT ![j].bytes = v]
         \/ ended' = [ended EXCEPT ![j].done = v]
  PROVE  SameRuns
  <1> DEFINE r == ended[j]
             t == IF ended' = [ended EXCEPT ![j].bytes = v]
                  THEN [r EXCEPT !.bytes = v] ELSE [r EXCEPT !.done = v]
  <1>1. r \in Run
    BY ElementOfSeq
  <1>2. ended' = [ended EXCEPT ![j] = t]
    BY Zenon
  <1> HIDE DEF r
  <1>3. t.job = r.job
    BY <1>1 DEF Run
  <1> HIDE DEF t
  <1>4. Len(ended') = Len(ended)
    <2>1. DOMAIN ended' = DOMAIN ended
      BY <1>2
    <2>2. DOMAIN ended = 1..Len(ended) /\ DOMAIN ended' = 1..Len(ended')
          /\ Len(ended) \in Nat /\ Len(ended') \in Nat
      BY LenIs
    <2> QED BY <2>1, <2>2
  <1>5. \A x \in 1..Len(ended) : ended'[x].job = ended[x].job
    <2>1. DOMAIN ended = 1..Len(ended)
      OBVIOUS
    <2> QED BY <1>2, <1>3, <2>1, Zenon DEF r
  <1> QED BY <1>4, <1>5 DEF SameRuns

\* The reader is in a transfer whose header a run has sent.
LEMMA HeadersRead ==
  ASSUME DataInv
  PROVE  hb.rx \in Nat /\ Len(ended) \in Nat /\ hb.rx <= Len(ended)
  <1>1. /\ hb \in RingT(Hdr) /\ RingOk(hb, NHDR, 0) /\ Headers /\ Counts /\ ended \in Seq(Run)
    BY DEF DataInv, ClientType, WriterSide
  <1>2. hb.rx \in 0..Len(hb.xs) /\ Len(hb.xs) \in Nat
    BY <1>1, RingIs DEF RingOk, Position
  <1>3. Len(hb.blocks) = Len(hb.xs) /\ Len(hb.blocks) = Len(ended) - Waiting(hb)
        /\ Waiting(hb) \in {0, 1}
    BY <1>1 DEF Headers, Counts, Waiting
  <1>4. Len(ended) \in Nat
    BY <1>1, LenIs
  <1> QED BY <1>2, <1>3, <1>4

\* The runs there were keep their jobs.
OldRuns ==
    /\ Len(ended') \in Nat /\ Len(ended) <= Len(ended')
    /\ \A x \in 1..Len(ended) : ended'[x].job = ended[x].job

LEMMA WriterChain ==
  ASSUME DataInv, ChainInv, rd' = rd, disk' = disk, hb'.rx = hb.rx, db'.h = db.h,
         OldRuns, Distinct'
  PROVE  ChainInv'
  <1>1. hb.rx \in Nat /\ Len(ended) \in Nat /\ hb.rx <= Len(ended)
    BY HeadersRead
  <1>2. \A x \in 1..Len(ended) : Utc(x)' = Utc(x)
    BY Zenon DEF OldRuns, Utc
  <1>3. Known'
    <2>1. \A k \in 1..Len(disk) : \E x \in 1..hb.rx : disk[k].utc = Utc(x)'
      <3>1. \A x \in 1..hb.rx : x \in 1..Len(ended)
        BY <1>1
      <3> QED BY <1>2, <3>1, Zenon DEF ChainInv, Known
    <2> QED BY <2>1, Zenon DEF Known, Utc
  <1>4. Limit'
    BY Zenon DEF ChainInv, Limit
  <1>5. Follows'
    <2>1. CASE rd.pc \notin {"loop", "transfer"}
      BY <2>1 DEF Follows
    <2>2. CASE rd.pc \in {"loop", "transfer"}
      <3>1. X \in 1..Len(ended) /\ X' = X
        <4>1. X >= 1
          BY <2>2 DEF DataInv, ReaderSide, InStep, Reading
        <4> QED BY <1>1, <4>1 DEF X
      <3>2. Utc(X)' = Utc(X)
        BY <1>2, <3>1, Zenon DEF Utc
      <3>3. Eod(db)' = Eod(db)
        BY DEF Eod
      <3>4. Follows
        BY DEF ChainInv
      <3> QED BY <3>2, <3>3, <3>4, Zenon DEF Follows
    <2> QED BY <2>1, <2>2
  <1>6. FilesChain'
    BY Zenon DEF ChainInv, FilesChain
  <1> QED BY <1>3, <1>4, <1>5, <1>6 DEF ChainInv

\* The write client goes on with its run.
LEMMA RunGoesOn ==
  ASSUME DataInv, ChainInv, rd' = rd, disk' = disk, hb'.rx = hb.rx, db'.h = db.h,
         SameRuns \/ ended' = ended
  PROVE  ChainInv'
  <1>1. Len(ended) \in Nat
    BY HeadersRead
  <1>2. Len(ended') = Len(ended) /\ \A x \in 1..Len(ended) : ended'[x].job = ended[x].job
    BY Zenon DEF SameRuns
  <1>3. OldRuns
    BY <1>1, <1>2 DEF OldRuns
  <1>4. Distinct'
    <2>1. Distinct
      BY DEF ChainInv
    <2> QED BY <1>2, <2>1, Zenon DEF Distinct
  <1> QED BY <1>3, <1>4, WriterChain

\* No two runs are for the same observation.
LEMMA StartChains ==
  ASSUME DataInv, ChainInv, NEW job \in Jobs, StartWriter(job) PROVE ChainInv'
  <1> DEFINE run == [job |-> job, done |-> FALSE, bytes |-> <<>>]
             n == Len(ended)
  <1>1. /\ hb \in RingT(Hdr) /\ db \in RingT(Seq(Byte)) /\ ended \in Seq(Run)
    BY DEF DataInv, ClientType
  <1>2. /\ \A j \in 1..n : ended[j].job # job
        /\ hb' = [hb EXCEPT !.w = "WCHANGE"] /\ db' = [db EXCEPT !.w = "WCHANGE"]
        /\ ended' = Append(ended, run) /\ rd' = rd /\ disk' = disk
    BY Zenon DEF StartWriter, HduLockWrite
  <1>3. hb'.rx = hb.rx /\ db'.h = db.h
    BY <1>1, <1>2, ReaderUntouched
  <1>4. run.job = job
    OBVIOUS
  <1> HIDE DEF run
  <1>5. /\ n \in Nat /\ Len(ended') = n + 1 /\ ended'[n + 1] = run
        /\ \A x \in 1..n : ended'[x] = ended[x]
    BY <1>1, <1>2, LenIs
  <1> HIDE DEF n
  <1>6. OldRuns
    <2>1. n + 1 \in Nat /\ n <= n + 1
      BY <1>5
    <2> QED BY <1>5, <2>1, Zenon DEF OldRuns, n
  <1>7. Distinct'
    <2>1. \A x \in 1..(n + 1) : x \in 1..n \/ x = n + 1
      BY <1>5
    <2>2. \A a, b \in 1..n : ended[a].job = ended[b].job => a = b
      BY Zenon DEF ChainInv, Distinct, n
    <2>3. \A x \in 1..n : ended'[x].job = ended[x].job /\ ended[x].job # job
      BY <1>2, <1>5, Zenon
    <2>4. ended'[n + 1].job = job
      BY <1>4, <1>5
    <2>5. \A a, b \in 1..(n + 1) : ended'[a].job = ended'[b].job => a = b
      BY <2>1, <2>2, <2>3, <2>4, Zenon
    <2> QED BY <1>5, <2>5, Zenon DEF Distinct
  <1> QED BY <1>2, <1>3, <1>6, <1>7, WriterChain

LEMMA WriterChains ==
  ASSUME Fits, DataInv, DataInv', ChainInv, Writer PROVE ChainInv'
  <1>1. /\ hb \in RingT(Hdr) /\ db \in RingT(Seq(Byte))
        /\ ended \in Seq(Run) /\ ended' \in Seq(Run)
    BY DEF DataInv, ClientType
  <1>2. wr.pc # "none" => wr.job \in 1..Len(ended)
    BY RunOf DEF DataInv, WriterSide
  <1>3. CASE WriteHeader
    <2> DEFINE hdr == IF wr.app = "diskdb" THEN FileHeader ELSE JunkHeader
               eod == TRUE
    <2>1. /\ hb' = Filled(Started(hb), hdr, eod)
          /\ db' = db /\ rd' = rd /\ disk' = disk /\ ended' = ended
      BY <1>3, Zenon DEF WriteHeader, HeaderSent
    <2> HIDE DEF hdr, eod
    <2>2. hb'.rx = hb.rx
      BY <1>1, <2>1, ReaderUntouched
    <2> QED BY <2>1, <2>2, RunGoesOn
  <1>4. CASE WriteHeaderFails \/ LoopDone \/ CloseFile \/ CloseJunk
    <2>1. hb' = hb /\ db' = db /\ rd' = rd /\ disk' = disk /\ ended' = ended
      BY <1>4 DEF WriteHeaderFails, LoopDone, CloseFile, CloseJunk
    <2> QED BY <2>1, RunGoesOn
  <1>5. CASE LoopRead
    <2> DEFINE v == ended[wr.job].bytes \o Source(Ask(CHUNK)).bytes
    <2>1. /\ wr.pc = "loop" /\ ended' = [ended EXCEPT ![wr.job].bytes = v]
          /\ hb' = hb /\ db' = db /\ rd' = rd /\ disk' = disk
      BY <1>5, Zenon DEF LoopRead
    <2> HIDE DEF v
    <2>2. SameRuns
      BY <1>1, <1>2, <2>1, JobStays
    <2> QED BY <2>1, <2>2, RunGoesOn
  <1>6. CASE LoopFill
    <2> DEFINE eod == FALSE
    <2>1. db' = Filled(db, wr.blk, eod) /\ hb' = hb /\ rd' = rd /\ disk' = disk /\ ended' = ended
      BY <1>6, Zenon DEF LoopFill
    <2> HIDE DEF eod
    <2>2. db'.h = db.h
      BY <1>1, <2>1, ReaderUntouched
    <2> QED BY <2>1, <2>2, RunGoesOn
  <1>7. CASE LoopWrite
    <2>1. db' = Started(db) /\ hb' = hb /\ rd' = rd /\ disk' = disk /\ ended' = ended
      BY <1>7 DEF LoopWrite
    <2>2. db'.h = db.h
      BY <1>1, <2>1, ReaderUntouched
    <2> QED BY <2>1, <2>2, RunGoesOn
  <1>8. CASE LoopBlock
    <2> DEFINE b == Source(Ask(BUFSZ)).bytes
               eod == Len(b) < BUFSZ
               v == ended[wr.job].bytes \o b
    <2>1. /\ wr.pc = "loop" /\ ended' = [ended EXCEPT ![wr.job].bytes = v]
          /\ db' = Filled(Started(db), b, eod) /\ hb' = hb /\ rd' = rd /\ disk' = disk
      BY <1>8, Zenon DEF LoopBlock
    <2> HIDE DEF v, b, eod
    <2>2. SameRuns
      BY <1>1, <1>2, <2>1, JobStays
    <2>3. db'.h = db.h
      BY <1>1, <2>1, ReaderUntouched
    <2> QED BY <2>1, <2>2, <2>3, RunGoesOn
  <1>9. CASE StopWriter
    <2> DEFINE q == DataEnded
    <2>1. /\ wr.pc = "stop" /\ ended' = [ended EXCEPT ![wr.job].done = TRUE]
          /\ (wr.open \/ db.w = "WRITER" \/ Room(db, NBUFS))
          /\ hb' = [hb EXCEPT !.w = "DISCON"] /\ db' = [q EXCEPT !.w = "DISCON"]
          /\ rd' = rd /\ disk' = disk
      BY <1>9, Zenon DEF StopWriter, Unlocked
    <2>2. SameRuns
      BY <1>1, <1>2, <2>1, JobStays
    <2>3. q \in RingT(Seq(Byte)) /\ q.h = db.h
      BY <2>1, DataEndedIs DEF FilledDb
    <2> HIDE DEF q
    <2>4. hb'.rx = hb.rx
      BY <1>1, <2>1, ReaderUntouched
    <2>5. db'.h = db.h
      BY <2>1, <2>3, ReaderUntouched
    <2> QED BY <2>1, <2>2, <2>4, <2>5, RunGoesOn
  <1> QED BY <1>3, <1>4, <1>5, <1>6, <1>7, <1>8, <1>9 DEF Writer

\* What the steps of the read client have in common.
LEMMA SameFiles ==
  ASSUME ChainInv, ended' = ended, disk' = disk, hb'.rx = hb.rx
  PROVE  Distinct' /\ Known' /\ FilesChain'
  <1>1. Distinct'
    BY Zenon DEF ChainInv, Distinct
  <1>2. Known'
    BY Zenon DEF ChainInv, Known, Utc
  <1>3. FilesChain'
    BY Zenon DEF ChainInv, FilesChain
  <1> QED BY <1>1, <1>2, <1>3

\* The read client is not in a transfer.
LEMMA SinkIdles ==
  ASSUME ChainInv, ended' = ended, disk' = disk, hb'.rx = hb.rx,
         rd'.pc \notin {"loop", "transfer"}
  PROVE  ChainInv'
  <1>1. Limit' /\ Follows'
    BY DEF Limit, Follows
  <1> QED BY <1>1, SameFiles DEF ChainInv

\* The read client goes on with its file.
LEMMA SinkMoves ==
  ASSUME ChainInv, ended' = ended, disk' = disk, hb'.rx = hb.rx,
         rd.pc = "loop" \/ (rd.pc = "transfer" /\ ~Eod(db)), rd'.pc = "loop",
         rd'.app = rd.app, rd'.zc = rd.zc, rd'.off = rd.off, Limit'
  PROVE  ChainInv'
  <1>1. Follows'
    <2>1. Follows
      BY DEF ChainInv
    <2> QED BY <2>1, Zenon DEF Follows, Utc, X
  <1> QED BY <1>1, SameFiles DEF ChainInv

LEMMA IdleChains ==
  ASSUME DataInv, ChainInv,
         \/ ReadHeaderFails \/ ReadDone \/ Quit \/ Relock
         \/ \E sink \in Sinks : StartDbdisk(sink) \/ StartDbnull(sink)
  PROVE  ChainInv'
  <1>1. hb \in RingT(Hdr) /\ rd \in RdT
    BY DEF DataInv, ClientType
  <1>2. {"pc", "app", "zc"} \subseteq DOMAIN rd /\ {"h", "rx"} \subseteq DOMAIN hb
    BY <1>1 DEF RdT, RingT
  <1>3. ended' = ended /\ disk' = disk
    BY DEF ReadHeaderFails, ReadDone, Quit, Relock, StartDbdisk, StartDbnull
  <1>4. hb'.rx = hb.rx
    <2>1. hb' = hb \/ \E h : hb' = [hb EXCEPT !.h = h]
      BY DEF ReadHeaderFails, ReadDone, Quit, Relock, StartDbdisk, StartDbnull,
             HduLockRead, HduUnlockRead
    <2> QED BY <1>2, <2>1
  <1>5. rd'.pc \notin {"loop", "transfer"}
    <2>1. CASE ReadHeaderFails \/ ReadDone \/ Relock
      <3>1. \E p \in {"unlock", "read"} : rd' = [rd EXCEPT !.pc = p]
        BY <2>1 DEF ReadHeaderFails, ReadDone, Relock
      <3> QED BY <1>2, <3>1
    <2>2. CASE Quit
      <3>1. rd' = NoReader /\ NoReader.pc = "none"
        BY <2>2 DEF Quit, NoReader
      <3> QED BY <3>1
    <2>3. CASE \E sink \in Sinks : StartDbdisk(sink) \/ StartDbnull(sink)
      <3>1. \E a, z : rd' = [NoReader EXCEPT !.pc = "read", !.app = a, !.zc = z]
        BY <2>3, Zenon DEF StartDbdisk, StartDbnull
      <3>2. {"pc", "app", "zc"} \subseteq DOMAIN NoReader
        BY DEF NoReader
      <3> DEFINE no == NoReader
      <3> HIDE DEF no
      <3>3. \A a, z : [no EXCEPT !.pc = "read", !.app = a, !.zc = z].pc = "read"
        BY <3>2 DEF no
      <3> QED BY <3>1, <3>3 DEF no
    <2> QED BY <2>1, <2>2, <2>3
  <1> QED BY <1>3, <1>4, <1>5, SinkIdles

\* No file is of the observation whose header is read.
LEMMA ReadHeaderChains ==
  ASSUME Fits, OwnUtc, DataInv, ChainInv, ReadHeader PROVE ChainInv'
  <1> DEFINE q == Opened(hb)
             h == Block(q, NHDR)
             o == h.off
             x == hb.rx + 1
  <1>1. /\ rd \in RdT /\ hb \in RingT(Hdr) /\ RingOk(hb, NHDR, 0) /\ disk \in Seq(FileT)
        /\ ended \in Seq(Run) /\ InStep /\ Headers /\ Counts
    BY DEF DataInv, ClientType, WriterSide, ReaderSide
  <1>2. /\ rd.pc = "read" /\ hb.h # "RSTOP" /\ hb.full > 0
        /\ hb' = Cleared(q) /\ rd' = [rd EXCEPT !.pc = "transfer", !.hdr = h, !.off = o]
        /\ disk' = disk /\ ended' = ended
    BY Zenon DEF ReadHeader, Readable, Eod
  <1>3. rd'.pc = "transfer"
    <2> HIDE DEF h, o
    <2> QED BY <1>1, <1>2 DEF RdT
  <1>4. hb'.rx = x /\ x \in 1..Len(hb.xs)
    <2>1. hb.h = "READER"
      <3>1. hb.h \in HStates
        BY <1>1, RingIs
      <3>2. hb.h # "VIEWER" /\ hb.h # "READING"
        BY <1>1, <1>2 DEF InStep, Headers
      <3> QED BY <1>2, <3>1, <3>2 DEF HStates
    <2>2. NHDR \in Int
      BY DEF Fits
    <2>3. /\ q \in RingT(Hdr) /\ RingOk(q, NHDR, 1) /\ q.h = "READING" /\ q.xs = hb.xs
          /\ q.r = hb.r /\ q.rx = hb.rx /\ x \in 1..Len(hb.xs) /\ hb.r = Starts(hb)[x]
      BY <1>1, <1>2, <2>1, <2>2, OpenedIs
    <2> HIDE DEF q
    <2>4. Starts(hb)[x] = x - 1 /\ Ends(hb)[x] = x - 1
      <3> HIDE DEF x
      <3>1. Len(hb.xs) = Len(hb.blocks)
        BY <1>1 DEF Headers
      <3> QED BY <1>1, <2>3, <3>1 DEF Headers
    <2>5. Ends(q)[q.rx + 1] = q.r
      BY <2>3, <2>4 DEF Ends
    <2> QED BY <1>2, <2>2, <2>3, <2>5, ClearedIs
  <1>5. /\ hb.rx \in Nat /\ x <= Len(ended) /\ Len(ended) \in Nat
        /\ x \in 1..Len(ended) /\ \A y \in 1..hb.rx : y \in 1..Len(ended) /\ y \in 1..x /\ y # x
    <2>1. hb.rx \in Nat /\ Len(ended) \in Nat
      BY HeadersRead
    <2>2. x <= Len(ended)
      <3> HIDE DEF x
      <3>1. Len(hb.xs) = Len(ended) - Waiting(hb) /\ Waiting(hb) \in {0, 1}
        BY <1>1 DEF Headers, Counts, Waiting
      <3> QED BY <1>4, <2>1, <3>1
    <2> QED BY <1>2, <1>4, <2>1, <2>2
  <1> HIDE DEF q, h, o, x
  <1>6. Distinct' /\ FilesChain'
    BY <1>2, Zenon DEF ChainInv, Distinct, FilesChain
  <1>7. Known'
    <2>1. \A k \in 1..Len(disk) : \E y \in 1..x : disk[k].utc = Utc(y)
      BY <1>5, Zenon DEF ChainInv, Known
    <2>2. \A k \in 1..Len(disk) : \E y \in 1..x : disk[k].utc = Utc(y)'
      BY <1>2, <2>1, Zenon DEF Utc
    <2> QED BY <1>2, <1>4, <2>2, Zenon DEF Known, Utc
  <1>8. ASSUME NEW k \in 1..Len(disk), disk[k].utc = Utc(x) PROVE FALSE
    <2>1. PICK y \in 1..hb.rx : disk[k].utc = Utc(y)
      BY DEF ChainInv, Known
    <2>2. y \in 1..Len(ended) /\ x \in 1..Len(ended) /\ y # x
      BY <1>5
    <2>3. ended[x].job \in Jobs /\ ended[y].job \in Jobs
      <3>1. ended[x] \in Run /\ ended[y] \in Run
        BY <1>1, <2>2, ElementOfSeq
      <3> QED BY <3>1 DEF Run
    <2>4. ended[x].job.files[1].utc = ended[y].job.files[1].utc
      BY <1>8, <2>1 DEF Utc
    <2>5. ended[x].job = ended[y].job
      BY <2>3, <2>4, Zenon DEF OwnUtc
    <2> QED BY <2>2, <2>5, Zenon DEF ChainInv, Distinct
  <1>9. Limit'
    BY <1>3 DEF Limit
  <1>10. Follows'
    <2>1. X' = x
      BY <1>4 DEF X
    <2>2. Utc(X)' = Utc(x)
      BY <1>2, <2>1, Zenon DEF Utc
    <2>3. Len(disk) > 0 => Len(disk) \in 1..Len(disk)
      <3>1. Len(disk) \in Nat
        BY <1>1, LenIs
      <3> QED BY <3>1
    <2>4. ~(Len(disk) > 0 /\ disk[Len(disk)].utc = Utc(x))
      BY <1>8, <2>3
    <2> QED BY <1>2, <2>2, <2>4, Zenon DEF Follows
  <1> QED BY <1>6, <1>7, <1>9, <1>10 DEF ChainInv

\* A file ends on a multiple of the resolution.
LEMMA OpenSinkChains ==
  ASSUME Fits, DataInv, ChainInv, OpenSink PROVE ChainInv'
  <1>1. rd \in RdT /\ Carrying
    BY DEF DataInv, ClientType, ReaderSide
  <1>2. /\ rd.pc = "transfer" /\ ~Eod(db) /\ hb' = hb /\ disk' = disk /\ ended' = ended
    BY DEF OpenSink
  <1>3. Opened1
    BY <1>1, OpenSinkIs
  <1> DEFINE f == FileSize(rd.off, rd.hdr.fsize)
  <1>4. f \in Nat /\ (f > 0 => (rd.off + f) % RES = 0)
    <2>1. rd.off \in Int /\ rd.hdr.fsize \in Int
      BY <1>1, RdIs, HdrIs
    <2> QED BY <2>1, FileSizeIs
  <1> HIDE DEF f
  <1>5. /\ rd'.pc = "loop" /\ rd'.app = rd.app /\ rd'.zc = rd.zc /\ rd'.off = rd.off
        /\ rd'.got = 0 /\ rd'.buf = <<>>
        /\ rd.app = "dbdisk" => rd'.want = f /\ rd'.hdr.fsize = f
    BY <1>1, <1>2, <1>3, Zenon DEF Opened1, Carrying, f
  <1>6. Limit'
    <2>1. f >= 0 /\ (f > 0 => rd'.got + Len(rd'.buf) <= f)
      BY <1>4, <1>5
    <2> QED BY <1>4, <1>5, <2>1, Zenon DEF Limit
  <1> QED BY <1>2, <1>5, <1>6, SinkMoves

\* A file gets no more than FILE_SIZE bytes.
LEMMA LoopStoreChains ==
  ASSUME Fits, DataInv, ChainInv, LoopStore PROVE ChainInv'
  <1> DEFINE f == Sunk(rd.buf)
             g == rd.got + Len(rd.buf)
  <1>1. rd \in RdT /\ {"file", "got", "buf"} \subseteq DOMAIN rd
    BY DEF DataInv, ClientType, RdT
  <1>2. /\ rd.pc = "loop" /\ ~rd.zc /\ rd' = [rd EXCEPT !.file = f, !.got = g, !.buf = <<>>]
        /\ disk' = disk /\ ended' = ended /\ hb' = hb
    BY Zenon DEF LoopStore, InLoop
  <1>3. rd.got \in Int /\ Len(rd.buf) \in Nat /\ rd.buf \in Seq(Byte)
    BY <1>1, RdIs, LenIs
  <1>4. g \in Int /\ g + 0 = rd.got + Len(rd.buf)
    BY <1>3
  <1> HIDE DEF f, g
  <1>5. /\ rd'.pc = rd.pc /\ rd'.app = rd.app /\ rd'.zc = rd.zc /\ rd'.off = rd.off
        /\ rd'.want = rd.want /\ rd'.hdr = rd.hdr /\ rd'.got = g /\ rd'.buf = <<>>
    BY <1>1, <1>2, Zenon DEF RdT
  <1>6. Limit'
    <2>1. Limit
      BY DEF ChainInv
    <2>2. Len(rd'.buf) = 0
      BY <1>5
    <2>3. rd'.got + Len(rd'.buf) = rd.got + Len(rd.buf)
      BY <1>4, <1>5, <2>2
    <2> QED BY <1>2, <1>5, <2>1, <2>3, Zenon DEF Limit
  <1> QED BY <1>2, <1>5, <1>6, SinkMoves

LEMMA LoopStoreBlockChains ==
  ASSUME Fits, DataInv, ChainInv, LoopStoreBlock PROVE ChainInv'
  <1> DEFINE b == Block(Opened(db), NBUFS)
             f == Sunk(b)
             g == rd.got + Len(b)
  <1>1. rd \in RdT
    BY DEF DataInv, ClientType
  <1>2. /\ rd.pc = "loop" /\ rd.zc /\ rd' = [rd EXCEPT !.file = f, !.got = g]
        /\ disk' = disk /\ ended' = ended /\ hb' = hb
    BY Zenon DEF LoopStoreBlock, InLoop
  <1> HIDE DEF b, f, g
  <1>3. /\ rd'.pc = rd.pc /\ rd'.app = rd.app /\ rd'.zc = rd.zc /\ rd'.off = rd.off
        /\ rd'.want = rd.want /\ rd'.hdr = rd.hdr
    BY <1>1, <1>2, Zenon DEF RdT
  <1>4. Limit'
    <2>1. Limit
      BY DEF ChainInv
    <2> QED BY <1>2, <1>3, <2>1, Zenon DEF Limit
  <1> QED BY <1>2, <1>3, <1>4, SinkMoves

LEMMA LoopFetchChains ==
  ASSUME Fits, DataInv, ChainInv, LoopFetch PROVE ChainInv'
  <1> DEFINE q == IF rd.open THEN db ELSE Opened(db)
             rest == IF rd.open THEN rd.blk ELSE Block(q, NBUFS)
             need == Chunk - Len(rd.buf)
             lr == Len(rest)
             n == IF need < lr THEN need ELSE lr
             head == SubSeq(rest, 1, n)
             left == SubSeq(rest, n + 1, lr)
             buf == rd.buf \o head
             open == left # <<>>
             lf == Len(rd.buf)
  <1>1. rd \in RdT
    BY DEF DataInv, ClientType
  <1>2. /\ rd.pc = "loop" /\ ~rd.zc /\ db.h # "RSTOP" /\ Len(rd.buf) < Chunk
        /\ rd.open \/ db.full > 0
        /\ rd.want = 0 \/ rd.got < rd.want
        /\ rd' = [rd EXCEPT !.buf = buf, !.blk = left, !.open = open]
        /\ disk' = disk /\ ended' = ended /\ hb' = hb
    BY Zenon DEF LoopFetch, InLoop, Readable, Eod
  <1>3. rest \in Seq(Byte)
    BY <1>2, FetchIs DEF Fetched
  <1> HIDE DEF q, rest
  <1>4. /\ rd.got \in Int /\ rd.buf \in Seq(Byte) /\ lf \in Nat /\ lr \in Nat
        /\ rd.want \in Int /\ CHUNK \in Int
    <2>1. rd.got \in Int /\ rd.buf \in Seq(Byte) /\ rd.want \in Int
      BY <1>1, RdIs
    <2>2. lf \in Nat /\ lr \in Nat
      BY <1>3, <2>1, LenIs
    <2>3. CHUNK \in Int
      BY DEF Fits
    <2> QED BY <2>1, <2>2, <2>3
  <1>5. Chunk \in Int /\ (rd.want # 0 => rd.got + Chunk <= rd.want)
    <2> DEFINE w == rd.want
               g == rd.got
               c == IF w = 0 \/ w - g > CHUNK THEN CHUNK ELSE w - g
    <2>1. w \in Int /\ g \in Int /\ CHUNK \in Int
      BY <1>4
    <2>2. Chunk = c
      BY Zenon DEF Chunk
    <2> HIDE DEF w, g
    <2>3. c \in Int /\ (w # 0 => g + c <= w)
      BY <2>1
    <2> QED BY <2>2, <2>3 DEF w, g
  <1>6. n \in 0..lr /\ n <= need /\ need = Chunk - lf
    <2>1. need \in Int /\ need > 0
      <3> HIDE DEF lf
      <3>1. Chunk - lf \in Int /\ Chunk - lf > 0
        BY <1>2, <1>4, <1>5 DEF lf
      <3> QED BY <3>1, Zenon DEF lf
    <2>2. need = Chunk - lf
      OBVIOUS
    <2> HIDE DEF need, lr
    <2> QED BY <1>4, <2>1, <2>2
  <1> HIDE DEF n, need
  <1>7. head \in Seq(Byte) /\ Len(head) = n
    BY <1>3, <1>6
  <1> HIDE DEF head, left, open
  <1>8. Len(buf) = lf + n
    BY <1>4, <1>7
  <1> HIDE DEF buf
  <1>9. /\ rd'.pc = rd.pc /\ rd'.app = rd.app /\ rd'.zc = rd.zc /\ rd'.off = rd.off
        /\ rd'.want = rd.want /\ rd'.hdr = rd.hdr /\ rd'.got = rd.got /\ rd'.buf = buf
    BY <1>1, <1>2, Zenon DEF RdT
  <1>10. Limit'
    <2>1. Limit
      BY DEF ChainInv
    <2>2. rd.want > 0 => rd.got + Len(buf) <= rd.want
      <3> DEFINE l == Len(buf)
                 g == rd.got
                 w == rd.want
                 c == Chunk
      <3>1. l = lf + n /\ need = c - lf /\ n <= need /\ n \in 0..lr /\ lf \in Nat /\ lr \in Nat
            /\ g \in Int /\ w \in Int /\ c \in Int /\ (w # 0 => g + c <= w)
        BY <1>4, <1>5, <1>6, <1>8
      <3> HIDE DEF l, g, w, c, lf, lr
      <3>2. w > 0 => g + l <= w
        BY <3>1
      <3> QED BY <3>2 DEF l, g, w
    <2> QED BY <1>2, <1>9, <2>1, <2>2, Zenon DEF Limit
  <1> QED BY <1>2, <1>9, <1>10, SinkMoves

\* A file that is full is FILE_SIZE bytes long; the next one starts at its end.
LEMMA FullFile ==
  ASSUME DataInv, ChainInv, rd.pc = "loop", rd.app = "dbdisk", ~rd.zc, rd.buf = <<>>, ~InLoop
  PROVE  rd.got = rd.hdr.fsize /\ (rd.off + rd.got) % RES = 0
  <1> DEFINE w == rd.want
             g == rd.got
  <1>1. w \in Int /\ g \in Int
    BY RdIs DEF DataInv, ClientType
  <1>2. w # 0 /\ ~(g < w)
    BY DEF InLoop
  <1>3. /\ w >= 0 /\ rd.hdr.fsize = w
        /\ w > 0 => (rd.off + w) % RES = 0
        /\ w > 0 => g + 0 <= w
    BY DEF ChainInv, Limit
  <1> HIDE DEF w, g
  <1>4. w = g /\ w > 0
    BY <1>1, <1>2, <1>3
  <1> QED BY <1>3, <1>4 DEF g

LEMMA CloseSinkChains ==
  ASSUME Fits, DataInv, ChainInv, CloseSink PROVE ChainInv'
  <1> DEFINE o == rd.off + rd.got
             t == TheFile
             n == Len(disk)
  <1>1. rd \in RdT /\ disk \in Seq(FileT) /\ InStep /\ Carrying /\ hb.rx \in Nat
    BY HeadersRead DEF DataInv, ClientType, ReaderSide
  <1>2. /\ rd.pc = "loop" /\ rd.buf = <<>> /\ (Eod(db) \/ ~InLoop)
        /\ rd' = [rd EXCEPT !.pc = "transfer", !.off = o, !.file = <<>>]
        /\ disk' = IF rd.app = "dbdisk" /\ rd.got # 0 THEN Append(disk, t) ELSE disk
        /\ ended' = ended /\ hb' = hb /\ db' = db
    BY Zenon DEF CloseSink, DiskClose, NullClose
  <1>3. Reading /\ X \in 1..hb.rx /\ X' = X /\ Utc(X)' = Utc(X)
    <2>1. Reading
      BY <1>2 DEF Reading
    <2>2. X >= 1
      BY <1>1, <2>1 DEF InStep
    <2>3. X' = X /\ Utc(X)' = Utc(X)
      BY <1>2, Zenon DEF X, Utc
    <2> QED BY <1>1, <2>1, <2>2, <2>3 DEF X
  <1>4. rd.got \in Int /\ rd.off \in Int /\ n \in Nat
    BY <1>1, RdIs, LenIs
  <1>5. t.utc = Utc(X) /\ t.off = rd.off /\ t.zc = rd.zc /\ t.fsize = rd.hdr.fsize /\ t \in FileT
    <2>1. rd.hdr.utc = Utc(X) /\ rd.hdr.off = rd.off
      BY <1>1, <1>2, <1>3 DEF Carrying
    <2>2. /\ rd.hdr \in Hdr /\ rd.number \in Int /\ rd.zc \in BOOLEAN /\ rd.file \in Seq(Byte)
      BY <1>1, RdIs
    <2>3. rd.hdr.utc \in Nat /\ rd.hdr.off \in Int /\ rd.hdr.fsize \in Int
      BY <2>2, HdrIs
    <2> QED BY <2>1, <2>2, <2>3 DEF TheFile, FileT
  <1>6. o = rd.off + rd.got /\ o \in Int
    BY <1>4
  <1> HIDE DEF t, o
  <1>7. rd'.pc = "transfer" /\ rd'.app = rd.app /\ rd'.zc = rd.zc /\ rd'.off = o
    BY <1>1, <1>2, Zenon DEF RdT
  <1>8. Limit'
    BY <1>7 DEF Limit
  <1>9. Follows
    BY DEF ChainInv
  <1>10. CASE ~(rd.app = "dbdisk" /\ rd.got # 0)
    <2>1. disk' = disk
      BY <1>2, <1>10
    <2>2. rd.app = "dbdisk" => o = rd.off
      BY <1>4, <1>6, <1>10
    <2>3. Follows'
      <3>1. n > 0 /\ disk[n].utc = Utc(X) =>
               /\ rd.app = "dbdisk" /\ disk[n].zc = rd.zc
               /\ ~disk[n].zc => rd.off = disk[n].off + disk[n].fsize /\ rd.off % RES = 0
        BY <1>2, <1>9, Zenon DEF Follows
      <3>2. n > 0 /\ disk[n].utc = Utc(X) =>
               /\ rd'.app = "dbdisk" /\ disk[n].zc = rd'.zc
               /\ ~disk[n].zc => rd'.off = disk[n].off + disk[n].fsize /\ rd'.off % RES = 0
        BY <1>7, <2>2, <3>1, Zenon
      <3> QED BY <1>3, <2>1, <3>2, Zenon DEF Follows
    <2> QED BY <1>2, <1>8, <2>1, <2>3, SameFiles DEF ChainInv
  <1>11. CASE rd.app = "dbdisk" /\ rd.got # 0
    <2>1. disk' = Append(disk, t)
      BY <1>2, <1>11
    <2>2. /\ Len(disk') = n + 1 /\ disk'[n + 1] = t
          /\ \A k \in 1..n : disk'[k] = disk[k]
      BY <1>1, <1>4, <1>5, <2>1
    <2> HIDE DEF n
    <2>3. \A k \in 1..(n + 1) : k \in 1..n \/ k = n + 1
      BY <1>4
    <2>4. Distinct'
      BY <1>2, Zenon DEF ChainInv, Distinct
    <2>5. Known'
      <3>1. \A k \in 1..n : \E x \in 1..hb.rx : disk'[k].utc = Utc(x)
        BY <2>2, Zenon DEF ChainInv, Known, n
      <3>2. disk'[n + 1].utc = Utc(X)
        BY <1>5, <2>2
      <3>3. \A k \in 1..(n + 1) : \E x \in 1..hb.rx : disk'[k].utc = Utc(x)
        BY <1>3, <2>3, <3>1, <3>2, Zenon
      <3> QED BY <1>2, <2>2, <3>3, Zenon DEF Known, Utc
    <2>6. FilesChain'
      <3> DEFINE Next2(k) == disk'[k].utc = disk'[k + 1].utc /\ ~disk'[k].zc =>
                               /\ disk'[k + 1].off = disk'[k].off + disk'[k].fsize
                               /\ disk'[k + 1].off % RES = 0
      <3>1. ASSUME NEW k \in 1..n, k # n PROVE Next2(k)
        <4>1. k \in 1..(n - 1) /\ k + 1 \in 1..n
          BY <1>4, <3>1
        <4>2. disk'[k] = disk[k] /\ disk'[k + 1] = disk[k + 1]
          BY <2>2, <4>1
        <4> QED BY <4>1, <4>2, Zenon DEF ChainInv, FilesChain, n
      <3>2. ASSUME n \in 1..n PROVE Next2(n)
        <4>1. n > 0
          BY <3>2
        <4>2. disk'[n] = disk[n]
          BY <2>2, <3>2
        <4>3. n > 0 /\ disk[n].utc = Utc(X) =>
               (~disk[n].zc => rd.off = disk[n].off + disk[n].fsize /\ rd.off % RES = 0)
          BY <1>2, <1>9, Zenon DEF Follows, n
        <4> QED BY <1>5, <2>2, <4>1, <4>2, <4>3, Zenon
      <3>3. \A k \in 1..n : Next2(k)
        BY <3>1, <3>2, Zenon
      <3>4. Len(disk') - 1 = n
        BY <1>4, <2>2
      <3> QED BY <3>3, <3>4, Zenon DEF FilesChain
    <2>7. Follows'
      <3>1. CASE Eod(db)
        <4>1. Eod(db)' /\ rd'.pc # "loop"
          BY <1>2, <1>7, <3>1 DEF Eod
        <4> QED BY <4>1, Zenon DEF Follows
      <3>2. CASE ~Eod(db)
        <4>1. ~t.zc => o = t.off + t.fsize /\ o % RES = 0
          <5>1. ~rd.zc => rd.got = rd.hdr.fsize /\ (rd.off + rd.got) % RES = 0
            BY <1>2, <1>11, <3>2, FullFile
          <5> QED BY <1>5, <1>6, <5>1
        <4>2. disk'[Len(disk')] = t
          BY <2>2
        <4> QED BY <1>5, <1>7, <1>11, <4>1, <4>2, Zenon DEF Follows
      <3> QED BY <3>1, <3>2
    <2> QED BY <1>8, <2>4, <2>5, <2>6, <2>7 DEF ChainInv
  <1> QED BY <1>10, <1>11

LEMMA ChainInvStarts ==
  ASSUME Init PROVE ChainInv
  <1>1. disk = <<>> /\ ended = <<>> /\ rd = NoReader
    BY DEF Init
  <1>2. Len(disk) = 0 /\ Len(ended) = 0 /\ rd.pc = "none"
    BY <1>1 DEF NoReader
  <1>3. Distinct /\ Known /\ FilesChain
    BY <1>2 DEF Distinct, Known, FilesChain
  <1>4. Limit /\ Follows
    BY <1>2 DEF Limit, Follows
  <1> QED BY <1>3, <1>4 DEF ChainInv

LEMMA ChainInvKept ==
  ASSUME Fits, OwnUtc, DataInv, DataInv', ChainInv, [Next]_vars PROVE ChainInv'
  <1>1. ASSUME NEW job \in Jobs, StartDiskdb(job) \/ StartJunkdb(job) PROVE ChainInv'
    BY <1>1, StartChains DEF StartDiskdb, StartJunkdb
  <1>2. CASE Writer
    BY <1>2, WriterChains
  <1>3. CASE Reader
    <2>1. ASSUME ReadHeaderFails \/ ReadDone \/ Quit \/ Relock
                 \/ \E sink \in Sinks : StartDbdisk(sink) \/ StartDbnull(sink)
          PROVE  ChainInv'
      BY <2>1, IdleChains
    <2> QED BY <1>3, <2>1, ReadHeaderChains, OpenSinkChains, LoopFetchChains, LoopStoreChains,
               LoopStoreBlockChains, CloseSinkChains DEF Reader
  <1>4. CASE UNCHANGED vars
    BY <1>4, RunGoesOn DEF vars
  <1> QED BY <1>1, <1>2, <1>3, <1>4 DEF Next

\* The files that dada_dbdisk stores of one observation follow on each other: each
\* starts FILE_SIZE bytes after the one before and on a multiple of the resolution,
\* wherever chunks, blocks and the end of data cut the bytes.
THEOREM FilesFollow ==
  ASSUME OwnUtc
  PROVE  Spec => []FilesChain
  <1>1. Init => DataInv /\ ChainInv
    BY FitsAssumption, DataInvStarts, ChainInvStarts
  <1>2. DataInv /\ ChainInv /\ [Next]_vars => DataInv' /\ ChainInv'
    BY FitsAssumption, DataInvKept, ChainInvKept
  <1>3. ChainInv => FilesChain
    BY DEF ChainInv
  <1> QED BY <1>1, <1>2, <1>3, PTL DEF Spec

=============================================================================
