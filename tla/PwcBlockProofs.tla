--------------------------- MODULE PwcBlockProofs ---------------------------
(***************************************************************************)
(* Theorems about the main loop of a primary write client over one HDU,    *)
(* for any number of connections and commands, any size of the buffers and *)
(* any faults of the instrument and of ipcio: no command is lost, the      *)
(* state tells the truth about the data, and dated commands take effect at *)
(* their byte.                                                             *)
(***************************************************************************)
EXTENDS PwcBlock, PwcProofs

Starts == {"start", "started"}
DataLabels == {"loop", "buffer", "transit", "rest"}
BlockLabels == {"block_loop", "block", "xfer", "block_header", "block_transit"}
Labels == {"prepare", "get", "getting", "prepared", "unprepared", "failed", "stop",
           "unstopped", "round", "exit"} \cup Starts \cup DataLabels \cup BlockLabels

PwcmRec == [mode : Modes, pc : Labels, command : Commands, header_valid : BOOLEAN,
            transit_byte : Int, bytes_to_write : Nat, total : Int, buf_bytes : Int,
            buffer_size : Int, utc_buffer : Nat, stored : BOOLEAN, rval : Int]
DbRec == [rdwrt : {"0", "w", "W"}, pos : Int, read : Int, asked : Nat, early : Int,
          tail : {"due", "done", "twice", "lost"}, valid : Int,
          ring : {"WRITER", "WCHANGE", "WRITING"}, open : Int, curbuf : BOOLEAN,
          bytes : Int]

MainTypes == PwcType /\ pwcm \in PwcmRec /\ db \in DbRec

\* The command opens an empty Data Block.
OpenedFor(code) ==
    /\ code \in {"clock", "start"}
    /\ db.rdwrt = IF code = "start" THEN "W" ELSE "w"
    /\ code = "start" => db.ring = "WCHANGE"
    /\ db.pos = 0 /\ db.read = 0 /\ db.valid = 0 /\ db.open = 0 /\ db.tail = "done"

\* How the Data Block is open is what the state says, from the time it was
\* opened for a command to the end of the transfer.
OpenAsStated ==
    /\ pwcm.pc \in Starts => OpenedFor(pwcm.command.code)
    /\ pwcm.pc \in DataLabels \cup BlockLabels =>
         \/ state = "recording" /\ db.rdwrt = "W"
         \/ state = "clocking" /\ db.rdwrt = "w"
    /\ pwcm.pc \in DataLabels => pwcm.mode = "data"
    /\ pwcm.pc \in BlockLabels => pwcm.mode # "data"
    /\ At("xfer") => db.rdwrt = "W" /\ pwcm.mode = "xfer"

\* The bytes that a command leaves room for, and the byte it asks for.
RoomLeft ==
    pwcm.transit_byte # 0 =>
        /\ pwcm.transit_byte = pwcm.total + pwcm.bytes_to_write
        /\ db.asked # 0 => pwcm.transit_byte = db.asked

\* What is left of the last buffer belongs to the command that takes effect now.
CutShort ==
    At("rest") \/ (At("transit") /\ pwcm.transit_byte # 0 /\ pwcm.bytes_to_write = 0)

\* Bytes written and samples read, at each label of the transfer of data.
Aligned ==
    /\ 0 <= pwcm.buf_bytes /\ pwcm.buf_bytes <= pwcm.buffer_size
    /\ db.early \in {0, 1} /\ 0 <= db.pos /\ pwcm.total = db.pos + db.early
    /\ RoomLeft
    /\ At("rest") => /\ pwcm.transit_byte = 0
                     /\ db.asked # 0 => db.pos = db.asked - db.early
    /\ db.tail = "done" => db.pos = db.read
    /\ db.tail = "due" =>
         /\ db.pos = db.read - (pwcm.buffer_size - pwcm.buf_bytes)
         /\ pwcm.buf_bytes = pwcm.buffer_size \/ CutShort

\* Zero copy without XFERs: no block stays open, all that is written in the
\* recording state is valid, and a command that is reached ends the data there.
BlockAligned ==
    /\ db.open = 0 /\ db.pos = pwcm.total /\ RoomLeft
    /\ state = "recording" =>
         /\ db.valid = db.pos
         /\ \/ db.ring \in {"WCHANGE", "WRITING"}
            \/ /\ pwcm.pc \in {"block_header", "block_transit"}
               /\ pwcm.transit_byte # 0 /\ pwcm.bytes_to_write = 0
    /\ state = "clocking" =>
         /\ db.asked # 0 /\ pwcm.transit_byte # 0 => pwcm.bytes_to_write > 0
         /\ pwcm.pc \in {"block_header", "block_transit"} =>
              pwcm.transit_byte # 0 /\ pwcm.bytes_to_write = 0
         /\ At("block_loop") /\ pwcm.command.code = "record_stop" /\ db.asked # 0 =>
              db.valid = db.asked

WholeBlocks == pwcm.mode = "block" /\ "short" \notin Faults

\* The inductive invariant.
IInv ==
    /\ MainTypes /\ CommandsKept /\ OpenAsStated
    /\ pwcm.pc \in DataLabels /\ db.tail # "lost" => Aligned
    /\ pwcm.pc \in BlockLabels /\ WholeBlocks => BlockAligned
    /\ At("failed") => pwcm.rval < 0
    /\ At("stop") /\ WholeBlocks /\ pwcm.rval = 0 /\ db.asked # 0 /\ ~quit =>
         db.valid = db.asked

-----------------------------------------------------------------------------
(* The records of the main loop: their fields, and values they are given.   *)

LEMMA PwcmFields ==
    ASSUME NEW r \in PwcmRec
    PROVE  /\ r.mode \in Modes /\ r.pc \in Labels /\ r.command \in Commands
           /\ r.header_valid \in BOOLEAN /\ r.transit_byte \in Int
           /\ r.bytes_to_write \in Nat /\ r.total \in Int /\ r.buf_bytes \in Int
           /\ r.buffer_size \in Int /\ r.utc_buffer \in Nat /\ r.stored \in BOOLEAN
           /\ r.rval \in Int
  BY DEF PwcmRec

LEMMA DbFields ==
    ASSUME NEW r \in DbRec
    PROVE  /\ r.rdwrt \in {"0", "w", "W"} /\ r.pos \in Int /\ r.read \in Int
           /\ r.asked \in Nat /\ r.early \in Int /\ r.valid \in Int
           /\ r.tail \in {"due", "done", "twice", "lost"}
           /\ r.ring \in {"WRITER", "WCHANGE", "WRITING"}
           /\ r.open \in Int /\ r.curbuf \in BOOLEAN /\ r.bytes \in Int
  BY DEF DbRec

LEMMA FieldValues ==
    /\ "prepare" \in Labels /\ "get" \in Labels /\ "getting" \in Labels
    /\ "prepared" \in Labels /\ "unprepared" \in Labels /\ "start" \in Labels
    /\ "started" \in Labels /\ "failed" \in Labels /\ "stop" \in Labels
    /\ "unstopped" \in Labels /\ "round" \in Labels /\ "exit" \in Labels
    /\ "loop" \in Labels /\ "buffer" \in Labels /\ "transit" \in Labels
    /\ "rest" \in Labels /\ "block_loop" \in Labels /\ "block" \in Labels
    /\ "xfer" \in Labels /\ "block_header" \in Labels /\ "block_transit" \in Labels
    /\ -3 \in Int /\ -2 \in Int /\ -1 \in Int /\ 0 \in Int /\ 0 \in Nat
    /\ "w" \in {"0", "w", "W"} /\ "W" \in {"0", "w", "W"} /\ "0" \in {"0", "w", "W"}
    /\ "WRITER" \in {"WRITER", "WCHANGE", "WRITING"}
    /\ "WCHANGE" \in {"WRITER", "WCHANGE", "WRITING"}
    /\ "WRITING" \in {"WRITER", "WCHANGE", "WRITING"}
    /\ "done" \in {"due", "done", "twice", "lost"}
    /\ "lost" \in {"due", "done", "twice", "lost"}
    /\ TRUE \in BOOLEAN /\ FALSE \in BOOLEAN
  BY DEF Labels, Starts, DataLabels, BlockLabels

LEMMA InvTypes ==
    ASSUME IInv
    PROVE  /\ pwcm \in PwcmRec /\ pwcm.command \in Commands /\ db \in DbRec
           /\ command \in Commands /\ command.byte_count \in Nat
           /\ pwcm.command.byte_count \in Nat /\ pwcm.command.utc \in Nat
           /\ state \in States /\ utc_start \in Nat /\ quit \in BOOLEAN
           /\ PwcType /\ CommandsKept /\ BUFFER \in Nat \ {0}
  <1>1. pwcm \in PwcmRec /\ db \in DbRec /\ PwcType /\ CommandsKept
    BY DEF IInv, MainTypes
  <1>2. command \in Commands /\ pwcm.command \in Commands
    BY <1>1, PwcmFields DEF PwcType, SlotType
  <1> QED BY <1>1, <1>2, MainAssumption DEF PwcType, Commands

LEMMA ShutIs ==
    /\ Shut \in DbRec /\ Shut.pos = 0 /\ Shut.read = 0 /\ Shut.valid = 0
    /\ Shut.open = 0 /\ Shut.tail = "done" /\ Shut.asked = 0
  BY DEF Shut, DbRec

-----------------------------------------------------------------------------
(* Where a step goes.                                                      *)

\* To a label at which nothing is said of the data, or to an end.
LEMMA Ends ==
    ASSUME PwcType', CommandsKept', pwcm' \in PwcmRec, db' \in DbRec,
           pwcm'.pc \notin Starts \cup DataLabels \cup BlockLabels,
           pwcm'.pc = "failed" => pwcm'.rval < 0,
           pwcm'.pc = "stop" => \/ pwcm'.rval # 0 \/ quit' \/ pwcm'.mode # "block"
                                \/ db'.asked = 0 \/ db'.valid = db'.asked
    PROVE  IInv'
  <1>1. OpenAsStated'
    BY DEF OpenAsStated, At, Starts, DataLabels, BlockLabels
  <1> QED BY <1>1 DEF IInv, MainTypes, At, WholeBlocks

\* Nowhere: what the main loop keeps stays as it is.
LEMMA Stays ==
    ASSUME IInv, PwcType', CommandsKept', pwcm' \in PwcmRec, UNCHANGED <<state, db>>,
           quit => quit', pwcm'.pc = pwcm.pc, pwcm'.mode = pwcm.mode,
           pwcm'.command = pwcm.command, pwcm'.transit_byte = pwcm.transit_byte,
           pwcm'.bytes_to_write = pwcm.bytes_to_write, pwcm'.total = pwcm.total,
           pwcm'.buf_bytes = pwcm.buf_bytes, pwcm'.buffer_size = pwcm.buffer_size,
           pwcm'.rval = pwcm.rval
    PROVE  IInv'
  BY DEF IInv, MainTypes, OpenAsStated, OpenedFor, Aligned, RoomLeft, CutShort,
         BlockAligned, WholeBlocks, At

\* On with the transfer of data.
LEMMA DataGoesOn ==
    ASSUME PwcType', CommandsKept', pwcm' \in PwcmRec, db' \in DbRec,
           pwcm'.pc \in DataLabels, pwcm'.mode = "data",
           \/ state' = "recording" /\ db'.rdwrt = "W"
           \/ state' = "clocking" /\ db'.rdwrt = "w",
           db'.tail # "lost" => Aligned'
    PROVE  IInv'
  <1>1. OpenAsStated'
    BY DEF OpenAsStated, At, Starts, DataLabels, BlockLabels
  <1> QED BY <1>1 DEF IInv, MainTypes, At, WholeBlocks, DataLabels, BlockLabels

\* On with the transfer of blocks.
LEMMA BlocksGoOn ==
    ASSUME PwcType', CommandsKept', pwcm' \in PwcmRec, db' \in DbRec,
           pwcm'.pc \in BlockLabels, pwcm'.mode # "data",
           pwcm'.pc = "xfer" => db'.rdwrt = "W" /\ pwcm'.mode = "xfer",
           \/ state' = "recording" /\ db'.rdwrt = "W"
           \/ state' = "clocking" /\ db'.rdwrt = "w",
           WholeBlocks' => BlockAligned'
    PROVE  IInv'
  <1>1. OpenAsStated'
    BY DEF OpenAsStated, At, Starts, DataLabels, BlockLabels
  <1> QED BY <1>1 DEF IInv, MainTypes, At, WholeBlocks, DataLabels, BlockLabels

\* What the invariant says where data flows.
LEMMA InData ==
    ASSUME IInv, pwcm.pc \in DataLabels
    PROVE  /\ pwcm.mode = "data" /\ (db.tail # "lost" => Aligned)
           /\ \/ state = "recording" /\ db.rdwrt = "W"
              \/ state = "clocking" /\ db.rdwrt = "w"
  BY DEF IInv, OpenAsStated

LEMMA InBlocks ==
    ASSUME IInv, pwcm.pc \in BlockLabels
    PROVE  /\ pwcm.mode # "data" /\ (WholeBlocks => BlockAligned)
           /\ \/ state = "recording" /\ db.rdwrt = "W"
              \/ state = "clocking" /\ db.rdwrt = "w"
  BY DEF IInv, OpenAsStated

-----------------------------------------------------------------------------
(* One lemma for every step of the main loop.                              *)

LEMMA PrepareKeeps ==
    ASSUME IInv, Prepare
    PROVE  IInv'
  <1>1. PwcType' /\ CommandsKept'
    BY InvTypes, NoCallKeeps DEF Prepare
  <1>2. pwcm' \in PwcmRec
    BY ZenonT(60), InvTypes, FieldValues DEF Prepare, Goto, Returns, PwcmRec
  <1>3. db' \in DbRec
    BY InvTypes, ShutIs DEF Prepare
  <1>4. pwcm'.pc \in {"exit", "get", "unprepared"}
    BY InvTypes DEF Prepare, Goto, Returns, PwcmRec
  <1> QED BY <1>1, <1>2, <1>3, <1>4, Ends DEF Starts, DataLabels, BlockLabels

LEMMA PrepareLoopKeeps ==
    ASSUME IInv, PrepareLoop
    PROVE  IInv'
  <1>1. PwcType' /\ CommandsKept'
    BY InvTypes, NoCallKeeps DEF PrepareLoop
  <1>2. pwcm' \in PwcmRec /\ db' \in DbRec
    BY ZenonT(60), InvTypes, FieldValues DEF PrepareLoop, Goto, PwcmRec
  <1>3. pwcm'.pc \in {"exit", "getting"}
    BY InvTypes DEF PrepareLoop, Goto, PwcmRec
  <1> QED BY <1>1, <1>2, <1>3, Ends DEF Starts, DataLabels, BlockLabels

LEMMA PrepareWaitsKeeps ==
    ASSUME IInv, PrepareWaits
    PROVE  IInv'
  <1>1. /\ PwcType' /\ CommandsKept'
        /\ UNCHANGED <<state, db, pwcm, quit>>
    BY InvTypes, StateKeeps DEF PwcType, PrepareWaits, GetWait, mainvars
  <1> QED BY <1>1, InvTypes, Stays

LEMMA PrepareGetsKeeps ==
    ASSUME IInv, PrepareGets
    PROVE  IInv'
  <1>1. PwcType' /\ CommandsKept'
    BY InvTypes, TakeKeeps DEF PrepareGets
  <1>2. pwcm' \in PwcmRec /\ db' \in DbRec
    BY ZenonT(60), InvTypes, FieldValues DEF PrepareGets, PwcmRec
  <1>3. pwcm'.pc \in {"exit", "prepared"}
    BY InvTypes DEF PrepareGets, PwcmRec
  <1> QED BY <1>1, <1>2, <1>3, Ends DEF Starts, DataLabels, BlockLabels

LEMMA PrepareDoesKeeps ==
    ASSUME IInv, PrepareDoes
    PROVE  IInv'
  <1> DEFINE opened == [Shut EXCEPT
                           !.rdwrt = IF pwcm.command.code = "clock" THEN "w" ELSE "W",
                           !.ring = IF pwcm.command.code = "clock" THEN "WRITER"
                                    ELSE "WCHANGE"]
  <1>0. state' \in States /\ utc_start' \in Nat
    <2>1. "idle" \in States /\ "prepared" \in States
      BY DEF States
    <2> QED BY <2>1, InvTypes, SetStateKeeps DEF PrepareDoes, Sets
  <1>1. PwcType' /\ CommandsKept'
    BY <1>0, InvTypes, StateKeeps DEF PrepareDoes, PwcType
  <1>2. opened \in DbRec
    BY ZenonT(60), ShutIs, FieldValues DEF DbRec
  <1>3. CASE pwcm.command.code \in {"clock", "start"} /\ db' = opened /\ Goto("start")
    <2>1. /\ opened.rdwrt = IF pwcm.command.code = "clock" THEN "w" ELSE "W"
          /\ opened.ring = IF pwcm.command.code = "clock" THEN "WRITER" ELSE "WCHANGE"
          /\ opened.pos = 0 /\ opened.read = 0 /\ opened.valid = 0 /\ opened.open = 0
          /\ opened.tail = "done"
      BY ShutIs DEF DbRec
    <2>2. pwcm' \in PwcmRec
      BY ZenonT(60), <1>3, InvTypes, FieldValues DEF Goto, PwcmRec
    <2>3. pwcm'.pc = "start" /\ pwcm'.command = pwcm.command
      BY <1>3, InvTypes DEF Goto, PwcmRec
    <2> HIDE DEF opened
    <2>4. OpenedFor(pwcm.command.code)'
      BY <1>3, <2>1, <2>3 DEF OpenedFor
    <2>5. OpenAsStated'
      BY <2>3, <2>4 DEF OpenAsStated, OpenedFor, At, DataLabels, BlockLabels
    <2> QED BY <1>1, <1>2, <1>3, <2>2, <2>3, <2>5 DEF IInv, MainTypes, At, DataLabels,
               BlockLabels
  <1>4. CASE ~(pwcm.command.code \in {"clock", "start"} /\ db' = opened /\ Goto("start"))
    <2>0. db' = db /\ (Sets("idle", "get") \/ Goto("get") \/ Returns("unprepared", -2))
      BY ZenonT(60), <1>4 DEF PrepareDoes
    <2>1. pwcm' \in PwcmRec /\ pwcm'.pc \in {"get", "unprepared"}
      <3>1. pwcm' \in PwcmRec
        BY ZenonT(60), <2>0, InvTypes, FieldValues DEF Sets, Goto, Returns, PwcmRec
      <3> QED BY <2>0, <3>1, InvTypes DEF Sets, Goto, Returns, PwcmRec
    <2> QED BY <1>1, <2>0, <2>1, InvTypes, Ends DEF Starts, DataLabels, BlockLabels
  <1> QED BY <1>3, <1>4

LEMMA StoresUtcKeeps ==
    ASSUME IInv, StoresUtc
    PROVE  IInv'
  <1>1. PwcType' /\ CommandsKept' /\ UNCHANGED <<state, quit, db>>
    <2>1. (IF At("started") THEN pwcm.utc_buffer ELSE 0) \in Nat
      BY InvTypes, PwcmFields
    <2> QED BY <2>1, InvTypes, StoreUtcKeeps DEF StoresUtc
  <1>2. pwcm' \in PwcmRec
    BY ZenonT(60), InvTypes, FieldValues DEF StoresUtc, PwcmRec
  <1> QED BY <1>1, <1>2, InvTypes, Stays DEF StoresUtc, PwcmRec

LEMMA StartTransferKeeps ==
    ASSUME IInv, StartTransfer
    PROVE  IInv'
  <1>0. At("start") /\ pwcm.pc = "start" /\ OpenedFor(pwcm.command.code)
    BY DEF StartTransfer, At, IInv, OpenAsStated, Starts
  <1>1. /\ PwcType' /\ CommandsKept' /\ UNCHANGED <<state, db, quit>>
    <2>1. utc_start' \in Nat
      BY InvTypes, MainAssumption, TimesAreNat DEF StartTransfer
    <2> QED BY <2>1, InvTypes, StateKeeps DEF StartTransfer, PwcType
  <1>2. CASE Returns("failed", -2)
    <2>1. pwcm' \in PwcmRec /\ pwcm'.pc = "failed" /\ pwcm'.rval = -2
      <3>1. pwcm' \in PwcmRec
        BY ZenonT(60), <1>2, InvTypes, FieldValues DEF Returns, PwcmRec
      <3> QED BY <1>2, <3>1, InvTypes DEF Returns, PwcmRec
    <2> QED BY <1>1, <2>1, InvTypes, Ends DEF Starts, DataLabels, BlockLabels
  <1>3. CASE ~Returns("failed", -2)
    <2>1. PICK utc \in {0, FirstUtc}, valid \in BOOLEAN :
            pwcm' = [pwcm EXCEPT !.header_valid = valid, !.utc_buffer = utc,
                                 !.pc = "started"]
      BY ZenonT(60), <1>3 DEF StartTransfer, HeaderValid
    <2>2. utc \in Nat
      BY MainAssumption, TimesAreNat
    <2>3. pwcm' \in PwcmRec
      BY ZenonT(60), <2>1, <2>2, InvTypes, FieldValues DEF PwcmRec
    <2>4. pwcm'.pc = "started" /\ pwcm'.command = pwcm.command
      BY <2>1, InvTypes DEF PwcmRec
    <2>5. OpenAsStated'
      BY <1>0, <1>1, <2>4 DEF OpenAsStated, OpenedFor, At, DataLabels, BlockLabels
    <2> QED BY <1>1, <2>3, <2>4, <2>5, InvTypes DEF IInv, MainTypes, At, DataLabels,
               BlockLabels
  <1> QED BY <1>2, <1>3

LEMMA StartedKeeps ==
    ASSUME IInv, Started
    PROVE  IInv'
  <1> DEFINE new == IF pwcm.command.code = "start" THEN "recording" ELSE "clocking"
             label == IF ~MayChange(state, new) THEN "failed"
                      ELSE IF pwcm.mode = "data" THEN "loop" ELSE "block_loop"
  <1>0. pwcm.pc = "started" /\ OpenedFor(pwcm.command.code)
    BY DEF Started, At, IInv, OpenAsStated, Starts
  <1>1. /\ PwcType' /\ CommandsKept'
        /\ state' = IF MayChange(state, new) THEN new ELSE state
    <2>1. new \in States /\ SetState(new)
      BY DEF Started, States
    <2> HIDE DEF new
    <2>2. /\ state' = IF MayChange(state, new) THEN new ELSE state
          /\ state' \in States /\ utc_start' \in Nat
      BY <2>1, InvTypes, SetStateKeeps
    <2> QED BY <2>2, InvTypes, StateKeeps DEF Started, PwcType
  <1>2. /\ label \in {"loop", "block_loop", "failed"}
        /\ label # "failed" => state' = new
        /\ label = "loop" => pwcm.mode = "data"
        /\ label = "block_loop" => pwcm.mode # "data"
    BY <1>1
  <1>3. PICK first \in FirstBytes :
          pwcm' = [pwcm EXCEPT
              !.stored = FALSE, !.total = first, !.rval = -1, !.pc = label,
              !.transit_byte = pwcm.command.byte_count,
              !.bytes_to_write = pwcm.command.byte_count,
              !.buf_bytes = 0, !.buffer_size = 0]
    BY ZenonT(60) DEF Started
  <1> HIDE DEF label
  <1>4. first \in Int /\ (pwcm.mode # "xfer" => first = 0)
    BY InvTypes DEF FirstBytes
  <1>5. pwcm' \in PwcmRec
    <2>1. pwcm.command.byte_count \in Int /\ label \in Labels
      BY <1>2, InvTypes, FieldValues
    <2> QED BY ZenonT(60), <1>3, <1>4, <2>1, InvTypes, FieldValues DEF PwcmRec
  <1>6. db' = [db EXCEPT !.asked = 0, !.early = 0]
    BY DEF Started
  <1>7. db' \in DbRec
    BY ZenonT(60), <1>6, InvTypes, FieldValues DEF DbRec
  <1>8. /\ db'.asked = 0 /\ db'.early = 0 /\ db'.rdwrt = db.rdwrt /\ db'.ring = db.ring
        /\ db'.pos = 0 /\ db'.read = 0 /\ db'.valid = 0 /\ db'.open = 0
        /\ db'.tail = "done"
    BY <1>0, <1>6, InvTypes DEF DbRec, OpenedFor
  <1>9. /\ pwcm'.pc = label /\ pwcm'.mode = pwcm.mode /\ pwcm'.total = first
        /\ pwcm'.transit_byte = pwcm.command.byte_count
        /\ pwcm'.bytes_to_write = pwcm.command.byte_count
        /\ pwcm'.buf_bytes = 0 /\ pwcm'.buffer_size = 0 /\ pwcm'.rval = -1
    BY <1>3, InvTypes DEF PwcmRec
  <1>10. CASE label = "failed"
    BY <1>1, <1>5, <1>7, <1>9, <1>10, Ends DEF Starts, DataLabels, BlockLabels
  <1>11. label # "failed" => /\ \/ state' = "recording" /\ db'.rdwrt = "W"
                                \/ state' = "clocking" /\ db'.rdwrt = "w"
                             /\ state' = "recording" => db'.ring = "WCHANGE"
    BY <1>0, <1>2, <1>8 DEF OpenedFor
  <1>12. CASE label = "loop"
    <2>1. Aligned'
      BY <1>2, <1>4, <1>8, <1>9, <1>12, InvTypes DEF Aligned, RoomLeft, At
    <2> QED BY <1>1, <1>2, <1>5, <1>7, <1>9, <1>11, <1>12, <2>1, DataGoesOn DEF DataLabels
  <1>13. CASE label = "block_loop"
    <2>1. ASSUME pwcm.mode = "block" PROVE BlockAligned'
      BY <1>4, <1>8, <1>9, <1>11, <1>13, <2>1, InvTypes DEF BlockAligned, RoomLeft, At
    <2> QED BY <1>1, <1>2, <1>5, <1>7, <1>9, <1>11, <1>13, <2>1, BlocksGoOn
            DEF BlockLabels, WholeBlocks
  <1> QED BY <1>2, <1>10, <1>12, <1>13

LEMMA TransferQuitsKeeps ==
    ASSUME IInv, NEW loop, TransferQuits(loop)
    PROVE  IInv'
  <1>1. PwcType' /\ CommandsKept' /\ UNCHANGED <<quit, db>> /\ quit
    BY InvTypes, NoCallKeeps DEF TransferQuits
  <1>2. pwcm' \in PwcmRec
    BY ZenonT(60), InvTypes, FieldValues DEF TransferQuits, Returns, PwcmRec
  <1>3. pwcm'.pc = "stop"
    BY InvTypes DEF TransferQuits, Returns, PwcmRec
  <1> QED BY <1>1, <1>2, <1>3, InvTypes, Ends DEF Starts, DataLabels, BlockLabels

LEMMA TakeUnexpectedKeeps ==
    ASSUME IInv, NEW loop, TakeUnexpected(loop)
    PROVE  IInv'
  <1>1. PwcType' /\ CommandsKept' /\ UNCHANGED db
    BY InvTypes, TakeKeeps DEF TakeUnexpected
  <1>2. pwcm' \in PwcmRec
    BY ZenonT(60), InvTypes, FieldValues DEF TakeUnexpected, PwcmRec
  <1>3. pwcm'.pc = "failed" /\ pwcm'.rval = -2
    BY InvTypes DEF TakeUnexpected, PwcmRec
  <1> QED BY <1>1, <1>2, <1>3, InvTypes, Ends DEF Starts, DataLabels, BlockLabels

-----------------------------------------------------------------------------
(* The transfer of data.                                                   *)

LEMMA NoCommandKeeps ==
    ASSUME IInv, NoCommand("loop", "buffer")
    PROVE  IInv'
  <1>1. PwcType' /\ CommandsKept' /\ UNCHANGED <<state, db>>
    BY InvTypes, NoCallKeeps DEF NoCommand
  <1>2. pwcm' \in PwcmRec
    BY ZenonT(60), InvTypes, FieldValues DEF NoCommand, Goto, PwcmRec
  <1>3. /\ pwcm.pc = "loop" /\ pwcm'.pc = "buffer" /\ pwcm'.mode = pwcm.mode
        /\ pwcm'.transit_byte = pwcm.transit_byte
        /\ pwcm'.bytes_to_write = pwcm.bytes_to_write /\ pwcm'.total = pwcm.total
        /\ pwcm'.buf_bytes = pwcm.buf_bytes /\ pwcm'.buffer_size = pwcm.buffer_size
    BY InvTypes DEF NoCommand, Goto, At, PwcmRec
  <1>4. ASSUME Aligned PROVE Aligned'
    BY <1>1, <1>3, <1>4 DEF Aligned, RoomLeft, CutShort, At
  <1> QED BY <1>1, <1>2, <1>3, <1>4, InvTypes, InData, DataGoesOn DEF DataLabels

LEMMA TakeUtcStartKeeps ==
    ASSUME IInv, TakeUtcStart("loop", "buffer")
    PROVE  IInv'
  <1>1. PwcType' /\ CommandsKept' /\ UNCHANGED <<state, db>>
    BY InvTypes, TakeKeeps DEF TakeUtcStart
  <1>2. PICK valid \in BOOLEAN, utc \in Nat :
          pwcm' = [pwcm EXCEPT !.command = command, !.header_valid = valid,
                               !.utc_buffer = utc, !.pc = "buffer"]
    <2>1. pwcm.header_valid \in BOOLEAN /\ pwcm.utc_buffer \in Nat /\ command.utc \in Nat
      BY InvTypes, PwcmFields DEF Commands
    <2>2. (IF pwcm.utc_buffer = 0 THEN command.utc ELSE pwcm.utc_buffer) \in Nat
      BY <2>1
    <2>3. \E valid \in BOOLEAN :
            pwcm' = [pwcm EXCEPT !.command = command, !.header_valid = valid,
              !.utc_buffer = IF pwcm.utc_buffer = 0 THEN command.utc ELSE @, !.pc = "buffer"]
      BY ZenonT(60), <2>1 DEF TakeUtcStart, HeaderValid
    <2> QED BY ZenonT(60), <2>2, <2>3
  <1>3. pwcm' \in PwcmRec
    BY ZenonT(60), <1>2, InvTypes, FieldValues DEF PwcmRec
  <1>4. /\ pwcm.pc = "loop" /\ pwcm'.pc = "buffer" /\ pwcm'.mode = pwcm.mode
        /\ pwcm'.transit_byte = pwcm.transit_byte
        /\ pwcm'.bytes_to_write = pwcm.bytes_to_write /\ pwcm'.total = pwcm.total
        /\ pwcm'.buf_bytes = pwcm.buf_bytes /\ pwcm'.buffer_size = pwcm.buffer_size
    BY <1>2, InvTypes DEF TakeUtcStart, At, PwcmRec
  <1>5. ASSUME Aligned PROVE Aligned'
    BY <1>1, <1>4, <1>5 DEF Aligned, RoomLeft, CutShort, At
  <1> QED BY <1>1, <1>3, <1>4, <1>5, InvTypes, InData, DataGoesOn DEF DataLabels

LEMMA TakeCommandKeeps ==
    ASSUME IInv, TakeCommand
    PROVE  IInv'
  <1> DEFINE n == command.byte_count
             total == IF pwcm.total = 0 THEN 1 ELSE pwcm.total
             later == n > pwcm.total
             asked == IF later THEN n ELSE 0
             early == IF later THEN db.early ELSE db.early + (total - pwcm.total)
  <1>0. /\ n \in Nat /\ pwcm.total \in Int /\ pwcm.total \in {pwcm.total} /\ total \in Int
        /\ asked \in Nat /\ early \in Int /\ (later => n - pwcm.total \in Nat)
        /\ db.early \in Int /\ db.pos \in Int /\ n \in Int
    BY InvTypes, PwcmFields, DbFields
  <1>1. PwcType' /\ CommandsKept' /\ UNCHANGED state
    BY InvTypes, TakeKeeps DEF TakeCommand
  <1>2. pwcm' = IF later
                THEN [pwcm EXCEPT !.command = command, !.pc = "buffer",
                        !.transit_byte = n, !.bytes_to_write = n - pwcm.total]
                ELSE [pwcm EXCEPT !.command = command, !.pc = "buffer",
                        !.total = total, !.transit_byte = total, !.bytes_to_write = 0]
    BY Zenon DEF TakeCommand
  <1>3. db' = IF later THEN [db EXCEPT !.asked = asked]
              ELSE [db EXCEPT !.asked = asked, !.early = early]
    BY ZenonT(60) DEF TakeCommand
  <1>4. pwcm.pc = "loop"
    BY DEF TakeCommand, At
  <1> HIDE DEF n, total, asked, early
  <1>5. pwcm' \in PwcmRec
    BY ZenonT(60), <1>0, <1>2, InvTypes, FieldValues DEF PwcmRec
  <1>6. db' \in DbRec
    BY ZenonT(60), <1>0, <1>3, InvTypes DEF DbRec
  <1>7. /\ pwcm'.pc = "buffer" /\ pwcm'.mode = pwcm.mode
        /\ pwcm'.total = IF later THEN pwcm.total ELSE total
        /\ pwcm'.transit_byte = IF later THEN n ELSE total
        /\ pwcm'.bytes_to_write = IF later THEN n - pwcm.total ELSE 0
        /\ pwcm'.buf_bytes = pwcm.buf_bytes /\ pwcm'.buffer_size = pwcm.buffer_size
    BY <1>2, InvTypes DEF PwcmRec
  <1>8. /\ db'.rdwrt = db.rdwrt /\ db'.pos = db.pos /\ db'.read = db.read
        /\ db'.tail = db.tail /\ db'.asked = asked
        /\ db'.early = IF later THEN db.early ELSE early
    BY <1>3, InvTypes DEF DbRec
  <1>9. ASSUME Aligned PROVE Aligned'
    <2>1. /\ db'.early \in {0, 1} /\ 0 <= db'.pos /\ pwcm'.total = db'.pos + db'.early
      <3>1. db.early \in {0, 1} /\ 0 <= db.pos /\ pwcm.total = db.pos + db.early
        BY <1>9 DEF Aligned
      <3>2. early = IF later THEN db.early
                    ELSE IF pwcm.total = 0 THEN db.early + 1 ELSE db.early
        BY <1>0 DEF early, total
      <3>3. pwcm.total = 0 => db.early = 0 /\ db.pos = 0
        BY <1>0, <3>1
      <3>4. total = IF pwcm.total = 0 THEN 1 ELSE pwcm.total
        BY DEF total
      <3> HIDE DEF later
      <3> QED BY <1>0, <1>7, <1>8, <3>1, <3>2, <3>3, <3>4
    <2>2. RoomLeft'
      BY <1>0, <1>7, <1>8 DEF RoomLeft, asked
    <2>3. ~CutShort /\ ~At("rest")'
      BY <1>4, <1>7 DEF CutShort, At
    <2> QED BY <1>7, <1>8, <1>9, <2>1, <2>2, <2>3 DEF Aligned
  <1> QED BY <1>1, <1>4, <1>5, <1>6, <1>7, <1>8, <1>9, InData, DataGoesOn DEF DataLabels

LEMMA BufferNotDueKeeps ==
    ASSUME IInv, BufferNotDue
    PROVE  IInv'
  <1>1. PwcType' /\ CommandsKept' /\ UNCHANGED <<state, db>>
    BY InvTypes, NoCallKeeps DEF BufferNotDue
  <1>2. pwcm' \in PwcmRec
    BY ZenonT(60), InvTypes, FieldValues DEF BufferNotDue, Goto, PwcmRec
  <1>3. /\ pwcm.pc = "buffer" /\ pwcm'.pc = "transit" /\ pwcm'.mode = pwcm.mode
        /\ pwcm'.transit_byte = pwcm.transit_byte
        /\ pwcm'.bytes_to_write = pwcm.bytes_to_write /\ pwcm'.total = pwcm.total
        /\ pwcm'.buf_bytes = pwcm.buf_bytes /\ pwcm'.buffer_size = pwcm.buffer_size
    BY InvTypes DEF BufferNotDue, Goto, At, PwcmRec
  <1>4. ASSUME Aligned PROVE Aligned'
    BY <1>1, <1>3, <1>4 DEF Aligned, RoomLeft, CutShort, At
  <1> QED BY <1>1, <1>2, <1>3, <1>4, InvTypes, InData, DataGoesOn DEF DataLabels

LEMMA BufferKeeps ==
    ASSUME IInv, Buffer
    PROVE  IInv'
  <1> DEFINE n == BufBytes
             left == IF pwcm.bytes_to_write > n THEN pwcm.bytes_to_write - n ELSE 0
             tail == IF db.tail \in {"twice", "lost"} THEN db.tail ELSE "due"
  <1>0. /\ pwcm.bytes_to_write \in Nat /\ pwcm.transit_byte \in Int /\ pwcm.total \in Int
        /\ n \in Int /\ 0 <= n /\ n <= BUFFER /\ BUFFER \in Int
        /\ n = IF pwcm.transit_byte # 0 /\ BUFFER > pwcm.bytes_to_write
               THEN pwcm.bytes_to_write ELSE BUFFER
        /\ left \in Nat /\ pwcm.total + n \in Int
        /\ db.pos \in Int /\ db.read \in Int /\ db.pos + n \in Int /\ db.read + BUFFER \in Int
        /\ tail \in {"due", "done", "twice", "lost"}
    BY InvTypes, PwcmFields, DbFields DEF BufBytes
  <1>1. PwcType' /\ CommandsKept' /\ UNCHANGED state
    BY InvTypes, NoCallKeeps DEF Buffer
  <1>2. PICK valid \in BOOLEAN :
          pwcm' = [pwcm EXCEPT !.header_valid = valid,
                     !.buffer_size = BUFFER, !.buf_bytes = n, !.total = pwcm.total + n,
                     !.bytes_to_write = left, !.pc = "transit"]
    BY ZenonT(60) DEF Buffer
  <1>3. db' = [db EXCEPT !.read = db.read + BUFFER, !.pos = db.pos + n, !.tail = tail]
    BY ZenonT(60) DEF Buffer
  <1>4. pwcm.pc = "buffer"
    BY DEF Buffer, At
  <1> HIDE DEF n, left, tail
  <1>5. pwcm' \in PwcmRec
    BY ZenonT(60), <1>0, <1>2, InvTypes, FieldValues DEF PwcmRec
  <1>6. db' \in DbRec
    BY ZenonT(60), <1>0, <1>3, InvTypes DEF DbRec
  <1>7. /\ pwcm'.pc = "transit" /\ pwcm'.mode = pwcm.mode
        /\ pwcm'.total = pwcm.total + n /\ pwcm'.transit_byte = pwcm.transit_byte
        /\ pwcm'.bytes_to_write = left
        /\ pwcm'.buf_bytes = n /\ pwcm'.buffer_size = BUFFER
    BY <1>2, InvTypes DEF PwcmRec
  <1>8. /\ db'.rdwrt = db.rdwrt /\ db'.pos = db.pos + n /\ db'.read = db.read + BUFFER
        /\ db'.tail = tail /\ db'.asked = db.asked /\ db'.early = db.early
    BY <1>3, InvTypes DEF DbRec
  <1>9. ASSUME Aligned PROVE Aligned'
    <2>1. db.tail \notin {"twice", "lost"} => db.pos = db.read
      <3>1. db.tail \in {"due", "done", "twice", "lost"} /\ ~CutShort
            /\ pwcm.buffer_size \in Int /\ pwcm.buf_bytes \in Int
        BY <1>4, InvTypes, PwcmFields, DbFields DEF CutShort, At
      <3> QED BY <1>0, <1>9, <3>1 DEF Aligned
    <2>2. pwcm.transit_byte = 0 \/ pwcm.bytes_to_write > 0
      BY DEF Buffer, Due
    <2>3. RoomLeft'
      BY <1>0, <1>7, <1>8, <1>9, <2>2 DEF Aligned, RoomLeft, left
    <2>4. n = BUFFER \/ CutShort'
      BY <1>0, <1>7, <2>2 DEF CutShort, At, left
    <2>5. tail \in {"due", "twice", "lost"} /\ (tail = "due" => db.tail \notin {"twice", "lost"})
      BY <1>0 DEF tail
    <2>6. /\ 0 <= pwcm'.buf_bytes /\ pwcm'.buf_bytes <= pwcm'.buffer_size
          /\ db'.early \in {0, 1} /\ 0 <= db'.pos /\ pwcm'.total = db'.pos + db'.early
      BY <1>0, <1>7, <1>8, <1>9 DEF Aligned
    <2>7. db'.tail = "due" => db'.pos = db'.read - (pwcm'.buffer_size - pwcm'.buf_bytes)
      BY <1>0, <1>7, <1>8, <2>1, <2>5
    <2> QED BY <1>7, <1>8, <2>3, <2>4, <2>5, <2>6, <2>7 DEF Aligned, At
  <1>10. db'.tail # "lost" => db.tail # "lost"
    BY <1>8 DEF tail
  <1> QED BY <1>1, <1>4, <1>5, <1>6, <1>7, <1>8, <1>9, <1>10, InData, DataGoesOn
          DEF DataLabels

LEMMA BufferEmptyKeeps ==
    ASSUME IInv, BufferEmpty
    PROVE  IInv'
  <1>1. PwcType' /\ CommandsKept' /\ UNCHANGED <<state, db>>
    BY InvTypes, NoCallKeeps DEF BufferEmpty
  <1>2. PICK valid \in BOOLEAN :
          pwcm' = [pwcm EXCEPT !.header_valid = valid, !.buffer_size = 0,
                               !.buf_bytes = 0, !.pc = "transit"]
    BY DEF BufferEmpty
  <1>3. pwcm' \in PwcmRec
    BY ZenonT(60), <1>2, InvTypes, FieldValues DEF PwcmRec
  <1>4. /\ pwcm.pc = "buffer" /\ pwcm'.pc = "transit" /\ pwcm'.mode = pwcm.mode
        /\ pwcm'.transit_byte = pwcm.transit_byte
        /\ pwcm'.bytes_to_write = pwcm.bytes_to_write /\ pwcm'.total = pwcm.total
        /\ pwcm'.buf_bytes = 0 /\ pwcm'.buffer_size = 0
    BY <1>2, InvTypes DEF BufferEmpty, At, PwcmRec
  <1>5. ASSUME Aligned PROVE Aligned'
    <2>1. pwcm.buf_bytes \in Int /\ pwcm.buffer_size \in Int /\ db.read \in Int
      BY InvTypes, PwcmFields, DbFields
    <2> QED BY <1>1, <1>4, <1>5, <2>1 DEF Aligned, RoomLeft, CutShort, At
  <1> QED BY <1>1, <1>3, <1>4, <1>5, InvTypes, InData, DataGoesOn DEF DataLabels

LEMMA BufferFailsKeeps ==
    ASSUME IInv, BufferFails
    PROVE  IInv'
  <1>1. PwcType' /\ CommandsKept'
    BY InvTypes, NoCallKeeps DEF BufferFails
  <1>2. PICK rval \in {-1, -2, -3} : Returns("failed", rval)
    BY DEF BufferFails
  <1>3. rval \in Int /\ rval < 0
    OBVIOUS
  <1>4. pwcm' \in PwcmRec
    BY ZenonT(60), <1>2, <1>3, InvTypes, FieldValues DEF Returns, PwcmRec
  <1>5. pwcm'.pc = "failed" /\ pwcm'.rval = rval
    BY <1>2, InvTypes DEF Returns, PwcmRec
  <1>6. db' \in DbRec
    <2>1. db.pos + 1 \in Int
      BY InvTypes, DbFields
    <2>2. [db EXCEPT !.pos = db.pos + 1] \in DbRec
      BY ZenonT(60), <2>1, InvTypes DEF DbRec
    <2> QED BY <2>2, InvTypes DEF BufferFails
  <1> QED BY <1>1, <1>3, <1>4, <1>5, <1>6, Ends DEF Starts, DataLabels, BlockLabels

LEMMA NotReachedKeeps ==
    ASSUME IInv, NotReached
    PROVE  IInv'
  <1>1. PwcType' /\ CommandsKept' /\ UNCHANGED <<state, db>>
    BY InvTypes, NoCallKeeps DEF NotReached
  <1>2. pwcm' \in PwcmRec
    BY ZenonT(60), InvTypes, FieldValues DEF NotReached, Goto, PwcmRec
  <1>3. /\ pwcm.pc = "transit" /\ pwcm'.pc = "loop" /\ pwcm'.mode = pwcm.mode
        /\ pwcm'.transit_byte = pwcm.transit_byte
        /\ pwcm'.bytes_to_write = pwcm.bytes_to_write /\ pwcm'.total = pwcm.total
        /\ pwcm'.buf_bytes = pwcm.buf_bytes /\ pwcm'.buffer_size = pwcm.buffer_size
    BY InvTypes DEF NotReached, Goto, At, PwcmRec
  <1>4. ASSUME Aligned PROVE Aligned'
    <2>1. ~CutShort
      BY <1>3, <1>4, InvTypes, PwcmFields DEF Aligned, NotReached, Reached, RoomLeft,
         CutShort, At
    <2> QED BY <1>1, <1>3, <1>4, <2>1 DEF Aligned, RoomLeft, At
  <1> QED BY <1>1, <1>2, <1>3, <1>4, InvTypes, InData, DataGoesOn DEF DataLabels

\* A command that is reached has as many bytes before it as it asked for.
LEMMA ReachedTotal ==
    ASSUME pwcm \in PwcmRec, RoomLeft, Reached
    PROVE  /\ pwcm.total = pwcm.transit_byte /\ pwcm.bytes_to_write = 0
           /\ db.asked # 0 => pwcm.total = db.asked
  BY PwcmFields DEF RoomLeft, Reached

\* A change of state at the byte of a command, before the rest is written.
LEMMA ToTheRest ==
    ASSUME IInv, PwcType', CommandsKept', pwcm' \in PwcmRec, db' \in DbRec, At("transit"),
           Reached, \/ state' = "recording" /\ db'.rdwrt = "W"
                    \/ state' = "clocking" /\ db'.rdwrt = "w",
           pwcm'.pc = "rest", pwcm'.mode = pwcm.mode, pwcm'.transit_byte = 0,
           pwcm'.bytes_to_write = pwcm.bytes_to_write, pwcm'.total = pwcm.total,
           pwcm'.buf_bytes = pwcm.buf_bytes, pwcm'.buffer_size = pwcm.buffer_size,
           db'.pos = db.pos, db'.read = db.read, db'.asked = db.asked,
           db'.early = db.early, db'.tail = db.tail
    PROVE  IInv'
  <1>1. ASSUME Aligned PROVE Aligned'
    <2>1. db.asked # 0 => pwcm.total = db.asked
      BY <1>1, InvTypes, ReachedTotal DEF Aligned
    <2>2. db.pos \in Int /\ db.early \in Int /\ db.asked \in Int
      BY InvTypes, DbFields
    <2> QED BY <1>1, <2>1, <2>2 DEF Aligned, RoomLeft, CutShort, At
  <1> QED BY <1>1, InData, DataGoesOn DEF At, DataLabels

\* What RecordStart does: the Data Block goes from clocking to recording, or it
\* fails.
Starting(next) ==
    /\ db.rdwrt = "w" /\ SetState("recording")
    /\ db' = [db EXCEPT !.rdwrt = "W", !.ring = "WRITING", !.valid = db.pos]
    /\ pwcm' = [pwcm EXCEPT !.header_valid = TRUE, !.pc = next, !.transit_byte = 0]
StartFails ==
    /\ Returns("failed", -2) /\ UNCHANGED <<state, utc_start>>
    /\ db' = db \/ db' = [db EXCEPT !.rdwrt = "W", !.ring = "WRITING", !.valid = db.pos]

LEMMA RecordStartIs ==
    ASSUME IInv, NEW at \in {"transit", "block_transit"}, NEW next \in {"rest", "block_loop"},
           RecordStart(at, next)
    PROVE  /\ PwcType' /\ CommandsKept' /\ pwcm' \in PwcmRec /\ db' \in DbRec
           /\ At(at) /\ Reached /\ UNCHANGED quit
           /\ \/ /\ Starting(next) /\ state = "clocking" /\ state' = "recording"
              \/ StartFails
  <1>1. Starting(next) \/ StartFails
    BY ZenonT(60) DEF RecordStart, Starting, StartFails
  <1>2. At(at) /\ Reached /\ pwcm.pc \in DataLabels \cup BlockLabels
    BY DEF RecordStart, At, DataLabels, BlockLabels
  <1>3. db.rdwrt = "w" => state = "clocking"
    BY <1>2, InData, InBlocks
  <1>4. /\ state' \in States /\ utc_start' \in Nat
        /\ Starting(next) => state = "clocking" /\ state' = "recording"
    <2>1. "recording" \in States
      BY DEF States
    <2> QED BY <1>1, <1>3, <2>1, InvTypes, SetStateKeeps, StateChanges
            DEF Starting, StartFails
  <1>5. PwcType' /\ CommandsKept' /\ UNCHANGED quit
    BY <1>4, InvTypes, StateKeeps DEF RecordStart, PwcType
  <1>6. pwcm' \in PwcmRec
    <2>1. next \in Labels
      BY FieldValues
    <2> QED BY ZenonT(60), <1>1, <2>1, InvTypes, FieldValues
            DEF Starting, StartFails, Returns, PwcmRec
  <1>7. db' \in DbRec
    <2>1. db.pos \in Int
      BY InvTypes, DbFields
    <2> QED BY ZenonT(60), <1>1, <2>1, InvTypes, FieldValues DEF Starting, StartFails, DbRec
  <1> QED BY <1>1, <1>2, <1>4, <1>5, <1>6, <1>7

LEMMA RecordStartKeeps ==
    ASSUME IInv, RecordStart("transit", "rest")
    PROVE  IInv'
  <1>1. /\ PwcType' /\ CommandsKept' /\ pwcm' \in PwcmRec /\ db' \in DbRec
        /\ At("transit") /\ Reached
        /\ (Starting("rest") /\ state' = "recording") \/ StartFails
    BY RecordStartIs
  <1>2. CASE Starting("rest") /\ state' = "recording"
    <2>1. /\ pwcm'.pc = "rest" /\ pwcm'.mode = pwcm.mode /\ pwcm'.transit_byte = 0
          /\ pwcm'.bytes_to_write = pwcm.bytes_to_write /\ pwcm'.total = pwcm.total
          /\ pwcm'.buf_bytes = pwcm.buf_bytes /\ pwcm'.buffer_size = pwcm.buffer_size
      BY <1>2, InvTypes DEF Starting, PwcmRec
    <2>2. /\ db'.rdwrt = "W" /\ db'.pos = db.pos /\ db'.read = db.read
          /\ db'.asked = db.asked /\ db'.early = db.early /\ db'.tail = db.tail
      BY <1>2, InvTypes DEF Starting, DbRec
    <2> QED BY <1>1, <1>2, <2>1, <2>2, ToTheRest
  <1>3. CASE StartFails
    <2>1. pwcm'.pc = "failed" /\ pwcm'.rval = -2
      BY <1>3, InvTypes DEF StartFails, Returns, PwcmRec
    <2> QED BY <1>1, <2>1, Ends DEF Starts, DataLabels, BlockLabels
  <1> QED BY <1>1, <1>2, <1>3

LEMMA RecordStopKeeps ==
    ASSUME IInv, RecordStop
    PROVE  IInv'
  <1>0. At("transit") /\ Reached /\ pwcm.pc = "transit"
    BY DEF RecordStop, At
  <1>1. CASE /\ db.rdwrt = "W" /\ db' = [db EXCEPT !.rdwrt = "w"] /\ SetState("clocking")
             /\ pwcm' = [pwcm EXCEPT !.pc = "rest", !.transit_byte = 0]
    <2>1. state' = "clocking" /\ state' \in States /\ utc_start' \in Nat
      <3>1. state = "recording" /\ "clocking" \in States
        BY <1>0, <1>1, InData DEF DataLabels, States
      <3> QED BY <1>1, <3>1, InvTypes, SetStateKeeps, StateChanges
    <2>2. PwcType' /\ CommandsKept'
      BY <2>1, InvTypes, StateKeeps DEF RecordStop, PwcType
    <2>3. pwcm' \in PwcmRec
      BY ZenonT(60), <1>1, InvTypes, FieldValues DEF PwcmRec
    <2>4. db' \in DbRec
      BY ZenonT(60), <1>1, InvTypes, FieldValues DEF DbRec
    <2>5. /\ pwcm'.pc = "rest" /\ pwcm'.mode = pwcm.mode /\ pwcm'.transit_byte = 0
          /\ pwcm'.bytes_to_write = pwcm.bytes_to_write /\ pwcm'.total = pwcm.total
          /\ pwcm'.buf_bytes = pwcm.buf_bytes /\ pwcm'.buffer_size = pwcm.buffer_size
      BY <1>1, InvTypes DEF PwcmRec
    <2>6. /\ db'.rdwrt = "w" /\ db'.pos = db.pos /\ db'.read = db.read
          /\ db'.asked = db.asked /\ db'.early = db.early /\ db'.tail = db.tail
      BY <1>1, InvTypes DEF DbRec
    <2> QED BY <1>0, <2>1, <2>2, <2>3, <2>4, <2>5, <2>6, ToTheRest
  <1>2. CASE Returns("failed", -3) /\ UNCHANGED <<state, utc_start, db>>
    <2>1. PwcType' /\ CommandsKept'
      BY <1>2, InvTypes, StateKeeps DEF RecordStop, PwcType
    <2>2. pwcm' \in PwcmRec
      BY ZenonT(60), <1>2, InvTypes, FieldValues DEF Returns, PwcmRec
    <2>3. pwcm'.pc = "failed" /\ pwcm'.rval = -3
      BY <1>2, InvTypes DEF Returns, PwcmRec
    <2> QED BY <1>2, <2>1, <2>2, <2>3, InvTypes, Ends DEF Starts, DataLabels, BlockLabels
  <1> QED BY <1>1, <1>2 DEF RecordStop

LEMMA TransitReturnsKeeps ==
    ASSUME IInv, TransitReturns
    PROVE  IInv'
  <1>1. PwcType' /\ CommandsKept' /\ UNCHANGED db
    BY InvTypes, NoCallKeeps DEF TransitReturns
  <1>2. pwcm' \in PwcmRec
    BY ZenonT(60), InvTypes, FieldValues DEF TransitReturns, Returns, PwcmRec
  <1>3. /\ pwcm'.pc \in {"stop", "failed"} /\ (pwcm'.pc = "failed" => pwcm'.rval = -2)
        /\ pwcm'.mode = "data"
    <2>1. pwcm.mode = "data"
      BY InData DEF TransitReturns, At, DataLabels
    <2> QED BY <2>1, InvTypes DEF TransitReturns, Returns, PwcmRec
  <1> QED BY <1>1, <1>2, <1>3, InvTypes, Ends DEF Starts, DataLabels, BlockLabels

LEMMA WriteRestKeeps ==
    ASSUME IInv, WriteRest
    PROVE  IInv'
  <1> DEFINE n == pwcm.buffer_size - pwcm.buf_bytes
             goes == pwcm' = [pwcm EXCEPT !.buf_bytes = n, !.total = pwcm.total + n,
                                          !.pc = "loop"]
             tail == IF db.tail = "due" THEN "done"
                     ELSE IF n > 0 /\ db.tail = "done" THEN "twice" ELSE db.tail
  <1>0. /\ pwcm.buffer_size \in Int /\ pwcm.buf_bytes \in Int /\ n \in Int
        /\ pwcm.total + n \in Int /\ db.pos + n \in Int
        /\ pwcm.total \in Int /\ db.pos \in Int /\ db.read \in Int
        /\ tail \in {"due", "done", "twice", "lost"}
        /\ tail = "done" => db.tail = "due" \/ (db.tail = "done" /\ ~(n > 0))
        /\ tail # "due" /\ (tail # "lost" => db.tail # "lost")
    BY InvTypes, PwcmFields, DbFields
  <1>1. PwcType' /\ CommandsKept' /\ UNCHANGED state
    BY InvTypes, NoCallKeeps DEF WriteRest
  <1>2. pwcm.pc = "rest"
    BY DEF WriteRest, At
  <1>3. CASE Returns("failed", -3) /\ UNCHANGED db
    <2>1. pwcm' \in PwcmRec
      BY ZenonT(60), <1>3, InvTypes, FieldValues DEF Returns, PwcmRec
    <2>2. pwcm'.pc = "failed" /\ pwcm'.rval = -3
      BY <1>3, InvTypes DEF Returns, PwcmRec
    <2> QED BY <1>1, <1>3, <2>1, <2>2, InvTypes, Ends DEF Starts, DataLabels, BlockLabels
  <1>4. CASE /\ goes
             /\ \/ db' = [db EXCEPT !.pos = db.pos + n, !.tail = tail]
                \/ db' = [db EXCEPT !.tail = "lost"]
    <2> HIDE DEF tail
    <2>1. /\ pwcm'.pc = "loop" /\ pwcm'.mode = pwcm.mode
          /\ pwcm'.transit_byte = pwcm.transit_byte
          /\ pwcm'.bytes_to_write = pwcm.bytes_to_write /\ pwcm'.total = pwcm.total + n
          /\ pwcm'.buf_bytes = n /\ pwcm'.buffer_size = pwcm.buffer_size
      BY <1>4, InvTypes DEF PwcmRec
    <2> HIDE DEF n
    <2>2. pwcm' \in PwcmRec
      BY ZenonT(60), <1>0, <1>4, InvTypes, FieldValues DEF PwcmRec
    <2>3. db' \in DbRec
      BY ZenonT(60), <1>0, <1>4, InvTypes, FieldValues DEF DbRec
    <2>4. db'.rdwrt = db.rdwrt
      BY <1>4, InvTypes DEF DbRec
    <2>5. ASSUME db'.tail # "lost" PROVE Aligned'
      <3>1. /\ db'.pos = db.pos + n /\ db'.tail = tail /\ db'.read = db.read
            /\ db'.asked = db.asked /\ db'.early = db.early
        BY <1>4, <2>5, InvTypes DEF DbRec
      <3>2. Aligned /\ pwcm.transit_byte = 0
        BY <1>0, <1>2, <2>5, <3>1, InData DEF DataLabels, Aligned, At
      <3> QED BY <1>0, <1>2, <2>1, <3>1, <3>2 DEF Aligned, RoomLeft, At, n
    <2> QED BY <1>1, <1>2, <2>1, <2>2, <2>3, <2>4, <2>5, InData, DataGoesOn DEF DataLabels
  <1> QED BY ZenonT(60), <1>3, <1>4 DEF WriteRest

-----------------------------------------------------------------------------
(* The end of a transfer.                                                  *)

LEMMA ProcessErrorKeeps ==
    ASSUME IInv, ProcessError
    PROVE  IInv'
  <1> DEFINE new == ErrorState(state, pwcm.rval)
             label == IF At("failed") THEN "stop" ELSE "round"
  <1>1. PwcType' /\ CommandsKept'
    <2>1. new \in States /\ SetState(new)
      BY DEF ErrorState, States, ProcessError, Sets
    <2> HIDE DEF new
    <2>2. state' \in States /\ utc_start' \in Nat
      BY <2>1, InvTypes, SetStateKeeps
    <2> QED BY <2>2, InvTypes, StateKeeps DEF ProcessError, PwcType
  <1>2. pwcm' = [pwcm EXCEPT !.stored = FALSE, !.pc = label] /\ db' = db
    BY DEF ProcessError, Sets
  <1>3. label \in {"stop", "round"} /\ (label = "stop" => pwcm.rval < 0)
    BY DEF IInv
  <1> HIDE DEF label
  <1>4. pwcm' \in PwcmRec
    <2>1. label \in Labels
      BY <1>3, FieldValues
    <2> QED BY ZenonT(60), <1>2, <2>1, InvTypes, FieldValues DEF PwcmRec
  <1>5. pwcm'.pc = label /\ pwcm'.rval = pwcm.rval
    BY <1>2, InvTypes DEF PwcmRec
  <1>6. pwcm'.pc = "stop" => pwcm'.rval # 0
    BY <1>3, <1>5, InvTypes, PwcmFields
  <1> QED BY <1>1, <1>2, <1>3, <1>4, <1>5, <1>6, InvTypes, Ends
          DEF Starts, DataLabels, BlockLabels

LEMMA StopTransferKeeps ==
    ASSUME IInv, StopTransfer
    PROVE  IInv'
  <1>1. PwcType' /\ CommandsKept'
    <2>1. "idle" \in States
      BY DEF States
    <2>2. state' \in States /\ utc_start' \in Nat
      BY <2>1, InvTypes, SetStateKeeps DEF StopTransfer
    <2> QED BY <2>2, InvTypes, StateKeeps DEF StopTransfer, PwcType
  <1>2. pwcm' \in PwcmRec
    BY ZenonT(60), InvTypes, FieldValues DEF StopTransfer, PwcmRec
  <1>3. db' \in DbRec
    BY InvTypes, ShutIs DEF StopTransfer
  <1>4. pwcm'.pc \in {"unstopped", "round"}
    BY InvTypes DEF StopTransfer, PwcmRec
  <1> QED BY <1>1, <1>2, <1>3, <1>4, Ends DEF Starts, DataLabels, BlockLabels

LEMMA RoundKeeps ==
    ASSUME IInv, Round
    PROVE  IInv'
  <1>1. PwcType' /\ CommandsKept' /\ UNCHANGED db
    BY InvTypes, StateKeeps DEF Round, PwcType
  <1>2. pwcm' \in PwcmRec
    BY ZenonT(60), InvTypes, FieldValues DEF Round, PwcmRec
  <1>3. pwcm'.pc = "prepare"
    BY InvTypes DEF Round, PwcmRec
  <1> QED BY <1>1, <1>2, <1>3, InvTypes, Ends DEF Starts, DataLabels, BlockLabels

-----------------------------------------------------------------------------
(* ipcio.c: closing the Data Block, opening a block and closing it.        *)

LEMMA ClosedIs ==
    ASSUME NEW d \in DbRec
    PROVE  /\ Closed(d) \in DbRec
           /\ d.open = 0 => Closed(d).open = 0 /\ Closed(d).pos = d.pos
                            /\ Closed(d).valid = d.valid
           /\ Closed(d).asked = d.asked
  <1> DEFINE k == d.open * BUFFER
  <1>1. d.open \in Int /\ BUFFER \in Int /\ d.pos \in Int /\ d.valid \in Int
    BY MainAssumption DEF DbRec
  <1>2. k \in Int /\ (d.open = 0 => k = 0)
    BY <1>1
  <1>3. d.pos + k \in Int /\ d.valid + k \in Int
    BY <1>1, <1>2
  <1>4. Closed(d) \in DbRec
    BY ZenonT(60), <1>1, <1>2, <1>3, FieldValues DEF Closed, DbRec
  <1>5. CASE d.rdwrt = "W" /\ d.ring = "WRITING"
    <2> HIDE DEF k
    <2> QED BY <1>1, <1>2, <1>4, <1>5 DEF Closed, k
  <1>6. CASE ~(d.rdwrt = "W" /\ d.ring = "WRITING")
    BY <1>4, <1>6 DEF Closed
  <1> QED BY <1>5, <1>6

LEMMA OpenedIs ==
    ASSUME NEW d \in DbRec
    PROVE  /\ Opened(d) \in DbRec /\ Opened(d).open = d.open + 1
           /\ Opened(d).ring = IF d.ring = "WCHANGE" THEN "WRITING" ELSE d.ring
           /\ Opened(d).pos = d.pos /\ Opened(d).valid = d.valid
           /\ Opened(d).asked = d.asked /\ Opened(d).rdwrt = d.rdwrt
           /\ Opened(d).read = d.read
  <1>1. /\ d.open + 1 \in Int /\ (d.curbuf \/ d.open = 0) \in BOOLEAN
        /\ (IF d.ring = "WCHANGE" THEN "WRITING" ELSE d.ring)
             \in {"WRITER", "WCHANGE", "WRITING"}
    BY DEF DbRec
  <1>2. Opened(d) \in DbRec
    BY ZenonT(60), <1>1, FieldValues DEF Opened, DbRec
  <1> QED BY <1>2 DEF Opened

LEMMA ClosedBlockIs ==
    ASSUME NEW d \in DbRec, NEW n \in Int
    PROVE  /\ ClosedBlock(d, n) \in DbRec /\ ClosedBlock(d, n).open = d.open - 1
           /\ ClosedBlock(d, n).pos = d.pos + n
           /\ ClosedBlock(d, n).valid = IF d.ring = "WRITING" THEN d.valid + n ELSE d.valid
           /\ ClosedBlock(d, n).ring = IF d.ring = "WRITING" /\ n < BUFFER THEN "WRITER"
                                       ELSE d.ring
           /\ ClosedBlock(d, n).asked = d.asked /\ ClosedBlock(d, n).rdwrt = d.rdwrt
  <1>1. /\ d.open - 1 \in Int /\ (d.open > 1) \in BOOLEAN /\ d.pos + n \in Int
        /\ (IF d.ring = "WRITING" THEN d.valid + n ELSE d.valid) \in Int
        /\ (IF d.ring = "WRITING" /\ n < BUFFER THEN "WRITER" ELSE d.ring)
             \in {"WRITER", "WCHANGE", "WRITING"}
    BY DEF DbRec
  <1>2. ClosedBlock(d, n) \in DbRec
    BY ZenonT(60), <1>1, FieldValues DEF ClosedBlock, DbRec
  <1>3. /\ ClosedBlock(d, n).open = d.open - 1
        /\ ClosedBlock(d, n).pos = d.pos + n /\ ClosedBlock(d, n).asked = d.asked
        /\ ClosedBlock(d, n).rdwrt = d.rdwrt
    BY DEF ClosedBlock
  <1>4. /\ ClosedBlock(d, n).valid = IF d.ring = "WRITING" THEN d.valid + n ELSE d.valid
        /\ ClosedBlock(d, n).ring = IF d.ring = "WRITING" /\ n < BUFFER THEN "WRITER"
                                    ELSE d.ring
    BY DEF ClosedBlock
  <1> QED BY <1>2, <1>3, <1>4

-----------------------------------------------------------------------------
(* The transfer of blocks.                                                 *)

LEMMA BlockNoCommandKeeps ==
    ASSUME IInv, BlockNoCommand
    PROVE  IInv'
  <1>1. PwcType' /\ CommandsKept' /\ UNCHANGED <<state, db>>
    BY InvTypes, NoCallKeeps DEF BlockNoCommand, NoCommand
  <1>2. pwcm' \in PwcmRec
    BY ZenonT(60), InvTypes, FieldValues DEF BlockNoCommand, NoCommand, Goto, PwcmRec
  <1>3. /\ pwcm.pc = "block_loop" /\ pwcm'.pc = "block" /\ pwcm'.mode = pwcm.mode
        /\ pwcm'.transit_byte = pwcm.transit_byte
        /\ pwcm'.bytes_to_write = pwcm.bytes_to_write /\ pwcm'.total = pwcm.total
    BY InvTypes DEF BlockNoCommand, NoCommand, Goto, At, PwcmRec
  <1>4. ASSUME BlockAligned PROVE BlockAligned'
    BY <1>1, <1>3, <1>4 DEF BlockAligned, RoomLeft, At
  <1> QED BY <1>1, <1>2, <1>3, <1>4, InvTypes, InBlocks, BlocksGoOn
          DEF BlockLabels, WholeBlocks

LEMMA BlockUtcStartKeeps ==
    ASSUME IInv, BlockUtcStart
    PROVE  IInv'
  <1>0. TakeUtcStart("block_loop", "block")
    BY DEF BlockUtcStart
  <1>1. PwcType' /\ CommandsKept' /\ UNCHANGED <<state, db>>
    BY <1>0, InvTypes, TakeKeeps DEF TakeUtcStart
  <1>2. PICK valid \in BOOLEAN, utc \in Nat :
          pwcm' = [pwcm EXCEPT !.command = command, !.header_valid = valid,
                               !.utc_buffer = utc, !.pc = "block"]
    <2>1. pwcm.header_valid \in BOOLEAN /\ pwcm.utc_buffer \in Nat /\ command.utc \in Nat
      BY InvTypes, PwcmFields DEF Commands
    <2>2. (IF pwcm.utc_buffer = 0 THEN command.utc ELSE pwcm.utc_buffer) \in Nat
      BY <2>1
    <2>3. \E valid \in BOOLEAN :
            pwcm' = [pwcm EXCEPT !.command = command, !.header_valid = valid,
              !.utc_buffer = IF pwcm.utc_buffer = 0 THEN command.utc ELSE @, !.pc = "block"]
      BY ZenonT(60), <1>0, <2>1 DEF TakeUtcStart, HeaderValid
    <2> QED BY ZenonT(60), <2>2, <2>3
  <1>3. pwcm' \in PwcmRec
    BY ZenonT(60), <1>2, InvTypes, FieldValues DEF PwcmRec
  <1>4. /\ pwcm.pc = "block_loop" /\ pwcm'.pc = "block" /\ pwcm'.mode = pwcm.mode
        /\ pwcm'.transit_byte = pwcm.transit_byte
        /\ pwcm'.bytes_to_write = pwcm.bytes_to_write /\ pwcm'.total = pwcm.total
    BY <1>0, <1>2, InvTypes DEF TakeUtcStart, At, PwcmRec
  <1>5. ASSUME BlockAligned PROVE BlockAligned'
    BY <1>1, <1>4, <1>5 DEF BlockAligned, RoomLeft, At
  <1> QED BY <1>1, <1>3, <1>4, <1>5, InvTypes, InBlocks, BlocksGoOn
          DEF BlockLabels, WholeBlocks

LEMMA TakeBlockCommandKeeps ==
    ASSUME IInv, TakeBlockCommand
    PROVE  IInv'
  <1> DEFINE n == command.byte_count
             later == n > pwcm.total
             transit == IF later THEN n ELSE pwcm.total
             left == IF later THEN n - pwcm.total ELSE 0
             asked == IF later THEN n ELSE 0
  <1>0. /\ n \in Nat /\ pwcm.total \in Int /\ transit \in Int /\ left \in Nat
        /\ asked \in Nat
    BY InvTypes, PwcmFields
  <1>1. PwcType' /\ CommandsKept' /\ UNCHANGED state
    BY InvTypes, TakeKeeps DEF TakeBlockCommand
  <1>2. /\ pwcm' = [pwcm EXCEPT !.command = command, !.pc = "block",
                       !.transit_byte = transit, !.bytes_to_write = left]
        /\ db' = [db EXCEPT !.asked = asked] /\ pwcm.pc = "block_loop"
    BY Zenon DEF TakeBlockCommand, At
  <1> HIDE DEF n, transit, left, asked
  <1>3. pwcm' \in PwcmRec
    BY ZenonT(60), <1>0, <1>2, InvTypes, FieldValues DEF PwcmRec
  <1>4. db' \in DbRec
    BY ZenonT(60), <1>0, <1>2, InvTypes DEF DbRec
  <1>5. /\ pwcm'.pc = "block" /\ pwcm'.mode = pwcm.mode /\ pwcm'.total = pwcm.total
        /\ pwcm'.transit_byte = transit /\ pwcm'.bytes_to_write = left
    BY <1>2, InvTypes DEF PwcmRec
  <1>6. /\ db'.rdwrt = db.rdwrt /\ db'.pos = db.pos /\ db'.valid = db.valid
        /\ db'.ring = db.ring /\ db'.open = db.open /\ db'.asked = asked
    BY <1>2, InvTypes DEF DbRec
  <1>7. ASSUME BlockAligned PROVE BlockAligned'
    <2>1. RoomLeft' /\ (asked # 0 => left > 0)
      BY <1>0, <1>5, <1>6 DEF RoomLeft, transit, left, asked
    <2> QED BY <1>1, <1>2, <1>5, <1>6, <1>7, <2>1 DEF BlockAligned, At
  <1> QED BY <1>1, <1>2, <1>3, <1>4, <1>5, <1>6, <1>7, InvTypes, InBlocks, BlocksGoOn
          DEF BlockLabels, WholeBlocks

LEMMA BlockNotDueKeeps ==
    ASSUME IInv, BlockNotDue
    PROVE  IInv'
  <1>1. PwcType' /\ CommandsKept' /\ UNCHANGED <<state, db>>
    BY InvTypes, NoCallKeeps DEF BlockNotDue
  <1>2. pwcm' \in PwcmRec
    BY ZenonT(60), InvTypes, FieldValues DEF BlockNotDue, PwcmRec
  <1>3. /\ pwcm.pc = "block" /\ pwcm'.pc = "block_transit" /\ pwcm'.mode = pwcm.mode
        /\ pwcm'.transit_byte = pwcm.transit_byte
        /\ pwcm'.bytes_to_write = pwcm.bytes_to_write /\ pwcm'.total = pwcm.total
    BY InvTypes DEF BlockNotDue, At, PwcmRec
  <1>4. pwcm.transit_byte # 0 /\ pwcm.bytes_to_write = 0
    BY InvTypes, PwcmFields DEF BlockNotDue, Due
  <1>5. ASSUME BlockAligned PROVE BlockAligned'
    BY <1>1, <1>3, <1>4, <1>5 DEF BlockAligned, RoomLeft, At
  <1> QED BY <1>1, <1>2, <1>3, <1>5, InvTypes, InBlocks, BlocksGoOn
          DEF BlockLabels, WholeBlocks

LEMMA BlockRefusedKeeps ==
    ASSUME IInv, BlockRefused
    PROVE  IInv'
  <1>1. PwcType' /\ CommandsKept' /\ UNCHANGED db
    BY InvTypes, NoCallKeeps DEF BlockRefused
  <1>2. pwcm' \in PwcmRec
    BY ZenonT(60), InvTypes, FieldValues DEF BlockRefused, Returns, PwcmRec
  <1>3. pwcm'.pc = "failed" /\ pwcm'.rval = -3
    BY InvTypes DEF BlockRefused, Returns, PwcmRec
  <1> QED BY <1>1, <1>2, <1>3, InvTypes, Ends DEF Starts, DataLabels, BlockLabels

LEMMA BlockFailsKeeps ==
    ASSUME IInv, BlockFails
    PROVE  IInv'
  <1>1. PwcType' /\ CommandsKept'
    BY InvTypes, NoCallKeeps DEF BlockFails
  <1>2. pwcm' \in PwcmRec
    BY ZenonT(60), InvTypes, FieldValues DEF BlockFails, Returns, PwcmRec
  <1>3. pwcm'.pc = "failed" /\ pwcm'.rval = -3
    BY InvTypes DEF BlockFails, Returns, PwcmRec
  <1>4. db' \in DbRec
    BY InvTypes, OpenedIs, ClosedBlockIs DEF BlockFails
  <1> QED BY <1>1, <1>2, <1>3, <1>4, Ends DEF Starts, DataLabels, BlockLabels

LEMMA BlockKeeps ==
    ASSUME IInv, Block
    PROVE  IInv'
  <1> DEFINE d == [Opened(db) EXCEPT !.read = @ + BUFFER]
  <1>1. PwcType' /\ CommandsKept' /\ UNCHANGED state
    BY InvTypes, NoCallKeeps DEF Block
  <1>2. /\ pwcm.transit_byte = 0 \/ pwcm.bytes_to_write > 0
        /\ db.rdwrt = "W" /\ pwcm.pc = "block"
    BY DEF Block, Due, CanOpenBlock, At
  <1>3. PICK n \in BlockBytes :
          /\ pwcm' = [pwcm EXCEPT !.buf_bytes = Clipped(n), !.total = @ + Clipped(n),
                  !.bytes_to_write = IF @ > Clipped(n) THEN @ - Clipped(n) ELSE 0,
                  !.pc = IF pwcm.mode = "block" THEN "block_header" ELSE "xfer"]
          /\ db' = IF pwcm.mode = "block" THEN ClosedBlock(d, Clipped(n)) ELSE d
    BY DEF Block
  <1>4. /\ n \in Nat /\ Clipped(n) \in Int
        /\ Clipped(n) = IF pwcm.transit_byte # 0 /\ n > pwcm.bytes_to_write
                        THEN pwcm.bytes_to_write ELSE n
        /\ WholeBlocks => n = BUFFER
    BY InvTypes, PwcmFields DEF BlockBytes, Clipped, WholeBlocks
  <1>5. /\ d \in DbRec /\ d.open = db.open + 1 /\ d.pos = db.pos /\ d.valid = db.valid
        /\ d.ring = IF db.ring = "WCHANGE" THEN "WRITING" ELSE db.ring
        /\ d.asked = db.asked /\ d.rdwrt = db.rdwrt
    <2>1. Opened(db) \in DbRec /\ Opened(db).read + BUFFER \in Int
      BY InvTypes, OpenedIs, DbFields
    <2>2. d \in DbRec
      BY ZenonT(60), <2>1 DEF DbRec
    <2> QED BY InvTypes, <2>1, <2>2, OpenedIs
  <1> HIDE DEF d
  <1>6. pwcm' \in PwcmRec
    <2>1. /\ pwcm.total + Clipped(n) \in Int
          /\ (IF pwcm.bytes_to_write > Clipped(n) THEN pwcm.bytes_to_write - Clipped(n)
              ELSE 0) \in Nat
          /\ (IF pwcm.mode = "block" THEN "block_header" ELSE "xfer") \in Labels
      BY <1>4, InvTypes, PwcmFields, FieldValues
    <2> QED BY ZenonT(60), <1>3, <1>4, <2>1, InvTypes DEF PwcmRec
  <1>7. db' \in DbRec /\ db'.rdwrt = "W"
    BY <1>2, <1>3, <1>4, <1>5, ClosedBlockIs
  <1>8. /\ pwcm'.pc = IF pwcm.mode = "block" THEN "block_header" ELSE "xfer"
        /\ pwcm'.mode = pwcm.mode /\ pwcm'.transit_byte = pwcm.transit_byte
        /\ pwcm'.total = pwcm.total + Clipped(n)
        /\ pwcm'.bytes_to_write = IF pwcm.bytes_to_write > Clipped(n)
                                  THEN pwcm.bytes_to_write - Clipped(n) ELSE 0
    BY <1>3, InvTypes DEF PwcmRec
  <1>9. state = "recording" /\ pwcm.mode # "data" /\ pwcm.mode \in {"data", "block", "xfer"}
    BY <1>2, InvTypes, PwcmFields, InBlocks, MainAssumption DEF BlockLabels
  <1>10. ASSUME WholeBlocks PROVE BlockAligned'
    <2>1. /\ pwcm.total \in Int /\ pwcm.transit_byte \in Int /\ pwcm.bytes_to_write \in Nat
          /\ db.pos \in Int /\ db.valid \in Int /\ BUFFER \in Nat \ {0}
          /\ db.open \in Int /\ pwcm.mode = "block"
      BY <1>10, InvTypes, PwcmFields, DbFields DEF WholeBlocks
    <2>2. /\ db.open = 0 /\ db.pos = pwcm.total /\ RoomLeft
          /\ db.valid = db.pos /\ db.ring \in {"WCHANGE", "WRITING"}
      BY <1>2, <1>9, <1>10, InBlocks DEF BlockAligned, BlockLabels
    <2>3. n = BUFFER /\ d.ring = "WRITING"
      BY <1>4, <1>5, <1>10, <2>2
    <2>4. /\ db'.open = 0 /\ db'.pos = db.pos + Clipped(n) /\ db'.asked = db.asked
          /\ db'.valid = db.valid + Clipped(n)
          /\ db'.ring = IF Clipped(n) < BUFFER THEN "WRITER" ELSE "WRITING"
      <3> DEFINE k == Clipped(n)
      <3>1. k \in Int /\ db' = ClosedBlock(d, k)
        BY <1>3, <1>4, <2>1
      <3> HIDE DEF k
      <3>2. /\ db'.open = d.open - 1 /\ db'.pos = d.pos + k /\ db'.asked = d.asked
            /\ db'.valid = IF d.ring = "WRITING" THEN d.valid + k ELSE d.valid
            /\ db'.ring = IF d.ring = "WRITING" /\ k < BUFFER THEN "WRITER" ELSE d.ring
        BY <1>5, <3>1, ClosedBlockIs
      <3>3. /\ db'.open = 0 /\ db'.pos = db.pos + k /\ db'.asked = db.asked
            /\ db'.valid = db.valid + k
            /\ db'.ring = IF k < BUFFER THEN "WRITER" ELSE "WRITING"
        BY <1>5, <2>1, <2>2, <2>3, <3>1, <3>2
      <3> QED BY <3>3 DEF k
    <2>5. /\ db'.pos = pwcm'.total /\ RoomLeft' /\ db'.valid = db'.pos
          /\ \/ db'.ring = "WRITING"
             \/ pwcm'.transit_byte # 0 /\ pwcm'.bytes_to_write = 0
      BY <1>2, <1>4, <1>8, <2>1, <2>2, <2>3, <2>4 DEF RoomLeft
    <2> QED BY <1>1, <1>8, <1>9, <2>1, <2>4, <2>5 DEF BlockAligned
  <1> QED BY <1>1, <1>6, <1>7, <1>8, <1>9, <1>10, BlocksGoOn DEF BlockLabels, WholeBlocks

\* What process_xfer may make of the Data Block.
XferDb ==
    LET d == [db EXCEPT !.bytes = pwcm.buf_bytes]
        reopened == [Closed(d) EXCEPT !.rdwrt = "W", !.ring = "WCHANGE",
                                      !.curbuf = FALSE, !.bytes = 0]
    IN  \/ db' = db \/ db' = d \/ db' = ClosedBlock(db, pwcm.buf_bytes)
        \/ db' = reopened
        \/ db' = [reopened EXCEPT !.pos = @ + 1, !.valid = @ + 1, !.ring = "WRITING"]

LEMMA XferDbIs ==
    ASSUME pwcm \in PwcmRec, db \in DbRec, XferDb
    PROVE  db' \in DbRec /\ (db.rdwrt = "W" => db'.rdwrt = "W")
  <1> DEFINE d == [db EXCEPT !.bytes = pwcm.buf_bytes]
             c == [Closed(d) EXCEPT !.rdwrt = "W", !.ring = "WCHANGE",
                                    !.curbuf = FALSE, !.bytes = 0]
             e == [c EXCEPT !.pos = @ + 1, !.valid = @ + 1, !.ring = "WRITING"]
  <1>1. pwcm.buf_bytes \in Int
    BY DEF PwcmRec
  <1>2. d \in DbRec /\ d.rdwrt = db.rdwrt
    BY <1>1 DEF DbRec
  <1>3. CASE db' = db \/ db' = d \/ db' = ClosedBlock(db, pwcm.buf_bytes)
    <2> HIDE DEF d
    <2> QED BY <1>1, <1>2, <1>3, ClosedBlockIs
  <1>4. Closed(d) \in DbRec
    <2> HIDE DEF d
    <2> QED BY <1>2, ClosedIs
  <1>5. c \in DbRec /\ c.rdwrt = "W"
    <2> DEFINE x == Closed(d)
    <2>1. x \in DbRec
      BY <1>4
    <2> HIDE DEF x
    <2>2. [x EXCEPT !.rdwrt = "W", !.ring = "WCHANGE", !.curbuf = FALSE, !.bytes = 0] \in DbRec
      BY ZenonT(60), <2>1, FieldValues DEF DbRec
    <2>3. [x EXCEPT !.rdwrt = "W", !.ring = "WCHANGE", !.curbuf = FALSE, !.bytes = 0].rdwrt
               = "W"
      BY <2>1 DEF DbRec
    <2> QED BY ZenonT(60), <2>2, <2>3 DEF x
  <1>6. e \in DbRec /\ e.rdwrt = "W"
    <2> HIDE DEF c
    <2>1. c.pos + 1 \in Int /\ c.valid + 1 \in Int
      BY <1>5 DEF DbRec
    <2>2. e \in DbRec
      BY ZenonT(60), <1>5, <2>1, FieldValues DEF DbRec
    <2> QED BY <1>5, <2>2
  <1>7. CASE db' = c \/ db' = e
    <2> HIDE DEF c, e
    <2> QED BY <1>5, <1>6, <1>7
  <1> QED BY <1>3, <1>7 DEF XferDb

LEMMA XferKeeps ==
    ASSUME IInv, Xfer
    PROVE  IInv'
  <1>1. PwcType' /\ CommandsKept' /\ UNCHANGED state
    BY InvTypes, NoCallKeeps DEF Xfer
  <1>2. pwcm.pc = "xfer" /\ db.rdwrt = "W" /\ pwcm.mode = "xfer"
    BY DEF Xfer, At, IInv, OpenAsStated
  <1>3. db' \in DbRec /\ db'.rdwrt = "W"
    <2>1. XferDb
      BY DEF Xfer, XferContinues, XferEnds, XferDb
    <2> QED BY <1>2, <2>1, InvTypes, XferDbIs
  <1>4. \/ pwcm' = [pwcm EXCEPT !.pc = "block_header"]
        \/ pwcm' = [pwcm EXCEPT !.pc = "failed", !.rval = -2]
        \/ pwcm' = [pwcm EXCEPT !.total = pwcm.total + BUFFER, !.pc = "block_header"]
    BY DEF Xfer, XferContinues, XferEnds, FirstByte, Goto, Returns
  <1>5. pwcm' \in PwcmRec
    <2>1. pwcm.total + BUFFER \in Int
      BY InvTypes, PwcmFields
    <2> QED BY ZenonT(60), <1>4, <2>1, InvTypes, FieldValues DEF PwcmRec
  <1>6. /\ pwcm'.pc \in {"block_header", "failed"} /\ pwcm'.mode = "xfer"
        /\ pwcm'.pc = "failed" => pwcm'.rval = -2
    BY <1>2, <1>4, InvTypes DEF PwcmRec
  <1>7. state = "recording"
    BY <1>2, InBlocks DEF BlockLabels
  <1>8. CASE pwcm'.pc = "failed"
    BY <1>1, <1>3, <1>5, <1>6, <1>8, Ends DEF Starts, DataLabels, BlockLabels
  <1>9. CASE pwcm'.pc = "block_header"
    BY <1>1, <1>3, <1>5, <1>6, <1>7, <1>9, BlocksGoOn DEF BlockLabels, WholeBlocks
  <1> QED BY <1>6, <1>8, <1>9

LEMMA BlockHeaderKeeps ==
    ASSUME IInv, BlockHeader
    PROVE  IInv'
  <1>1. PwcType' /\ CommandsKept' /\ UNCHANGED <<state, db>>
    BY InvTypes, NoCallKeeps DEF BlockHeader
  <1>2. PICK valid \in BOOLEAN :
          pwcm' = [pwcm EXCEPT !.header_valid = valid, !.pc = "block_transit"]
    BY DEF BlockHeader
  <1>3. pwcm' \in PwcmRec
    BY ZenonT(60), <1>2, InvTypes, FieldValues DEF PwcmRec
  <1>4. /\ pwcm.pc = "block_header" /\ pwcm'.pc = "block_transit"
        /\ pwcm'.mode = pwcm.mode /\ pwcm'.transit_byte = pwcm.transit_byte
        /\ pwcm'.bytes_to_write = pwcm.bytes_to_write /\ pwcm'.total = pwcm.total
    BY <1>2, InvTypes DEF BlockHeader, At, PwcmRec
  <1>5. ASSUME BlockAligned PROVE BlockAligned'
    BY <1>1, <1>4, <1>5 DEF BlockAligned, RoomLeft, At
  <1> QED BY <1>1, <1>3, <1>4, <1>5, InvTypes, InBlocks, BlocksGoOn
          DEF BlockLabels, WholeBlocks

LEMMA BlockNotReachedKeeps ==
    ASSUME IInv, BlockNotReached
    PROVE  IInv'
  <1>1. PwcType' /\ CommandsKept' /\ UNCHANGED <<state, db>>
    BY InvTypes, NoCallKeeps DEF BlockNotReached
  <1>2. pwcm' \in PwcmRec
    BY ZenonT(60), InvTypes, FieldValues DEF BlockNotReached, Goto, PwcmRec
  <1>3. /\ pwcm.pc = "block_transit" /\ pwcm'.pc = "block_loop"
        /\ pwcm'.mode = pwcm.mode /\ pwcm'.transit_byte = pwcm.transit_byte
        /\ pwcm'.bytes_to_write = pwcm.bytes_to_write /\ pwcm'.total = pwcm.total
    BY InvTypes DEF BlockNotReached, Goto, At, PwcmRec
  <1>4. ASSUME BlockAligned PROVE BlockAligned'
    <2>1. ~(pwcm.transit_byte # 0 /\ pwcm.bytes_to_write = 0)
      BY <1>4, InvTypes, PwcmFields DEF BlockAligned, RoomLeft, BlockNotReached, Reached
    <2>2. state # "clocking"
      BY <1>3, <1>4, <2>1 DEF BlockAligned
    <2> QED BY <1>1, <1>3, <1>4, <2>1, <2>2 DEF BlockAligned, RoomLeft, At
  <1> QED BY <1>1, <1>2, <1>3, <1>4, InvTypes, InBlocks, BlocksGoOn
          DEF BlockLabels, WholeBlocks

LEMMA BlockRecordStartKeeps ==
    ASSUME IInv, BlockRecordStart
    PROVE  IInv'
  <1>1. /\ PwcType' /\ CommandsKept' /\ pwcm' \in PwcmRec /\ db' \in DbRec
        /\ At("block_transit") /\ Reached
        /\ \/ /\ Starting("block_loop") /\ state = "clocking" /\ state' = "recording"
           \/ StartFails
    BY RecordStartIs DEF BlockRecordStart
  <1>2. CASE Starting("block_loop") /\ state' = "recording"
    <2>1. /\ pwcm'.pc = "block_loop" /\ pwcm'.mode = pwcm.mode /\ pwcm'.transit_byte = 0
          /\ pwcm'.total = pwcm.total
      BY <1>2, InvTypes DEF Starting, PwcmRec
    <2>2. /\ db'.rdwrt = "W" /\ db'.pos = db.pos /\ db'.ring = "WRITING"
          /\ db'.valid = db.pos /\ db'.open = db.open
      BY <1>2, InvTypes DEF Starting, DbRec
    <2>3. ASSUME BlockAligned PROVE BlockAligned'
      BY <1>2, <2>1, <2>2, <2>3 DEF BlockAligned, RoomLeft
    <2> QED BY <1>1, <1>2, <2>1, <2>2, <2>3, InBlocks, BlocksGoOn
            DEF At, BlockLabels, WholeBlocks
  <1>3. CASE StartFails
    <2>1. pwcm'.pc = "failed" /\ pwcm'.rval = -2
      BY <1>3, InvTypes DEF StartFails, Returns, PwcmRec
    <2> QED BY <1>1, <2>1, Ends DEF Starts, DataLabels, BlockLabels
  <1> QED BY <1>1, <1>2, <1>3

LEMMA BlockRecordStopKeeps ==
    ASSUME IInv, BlockRecordStop
    PROVE  IInv'
  <1> DEFINE d == [Closed(db) EXCEPT !.rdwrt = "w", !.ring = "WRITER"]
  <1>0. /\ pwcm.pc = "block_transit" /\ Reached /\ pwcm.transit_byte # 0
    BY DEF BlockRecordStop, At, Reached
  <1>1. CASE /\ db.rdwrt = "W" /\ db' = d /\ SetState("clocking")
             /\ pwcm' = [pwcm EXCEPT !.pc = "block_loop", !.transit_byte = 0]
    <2>1. state = "recording" /\ state' = "clocking" /\ state' \in States /\ utc_start' \in Nat
      <3>1. state = "recording" /\ "clocking" \in States
        BY <1>0, <1>1, InBlocks DEF BlockLabels, States
      <3> QED BY <1>1, <3>1, InvTypes, SetStateKeeps, StateChanges
    <2>2. PwcType' /\ CommandsKept'
      BY <2>1, InvTypes, StateKeeps DEF BlockRecordStop, PwcType
    <2>3. pwcm' \in PwcmRec
      BY ZenonT(60), <1>1, InvTypes, FieldValues DEF PwcmRec
    <2>4. /\ d \in DbRec /\ d.rdwrt = "w" /\ d.asked = db.asked
          /\ db.open = 0 => d.open = 0 /\ d.pos = db.pos /\ d.valid = db.valid
      <3> DEFINE x == Closed(db)
      <3>1. /\ x \in DbRec /\ x.asked = db.asked
            /\ db.open = 0 => x.open = 0 /\ x.pos = db.pos /\ x.valid = db.valid
        BY InvTypes, ClosedIs
      <3> HIDE DEF x
      <3>2. [x EXCEPT !.rdwrt = "w", !.ring = "WRITER"] \in DbRec
        BY ZenonT(60), <3>1, FieldValues DEF DbRec
      <3>3. \A y : y = [x EXCEPT !.rdwrt = "w", !.ring = "WRITER"] =>
               /\ y.rdwrt = "w" /\ y.open = x.open /\ y.pos = x.pos
               /\ y.valid = x.valid /\ y.asked = x.asked
        BY <3>1 DEF DbRec
      <3>4. d = [x EXCEPT !.rdwrt = "w", !.ring = "WRITER"]
        BY Zenon DEF x
      <3> HIDE DEF d
      <3> QED BY <3>1, <3>2, <3>3, <3>4
    <2> HIDE DEF d
    <2>5. /\ pwcm'.pc = "block_loop" /\ pwcm'.mode = pwcm.mode /\ pwcm'.transit_byte = 0
          /\ pwcm'.total = pwcm.total
      BY <1>1, InvTypes DEF PwcmRec
    <2>6. ASSUME BlockAligned PROVE BlockAligned'
      <3>1. db.asked # 0 => pwcm.total = db.asked
        BY <1>0, <2>6, InvTypes, ReachedTotal DEF BlockAligned
      <3> QED BY <1>1, <2>1, <2>4, <2>5, <2>6, <3>1 DEF BlockAligned, RoomLeft
    <2> QED BY <1>0, <1>1, <2>1, <2>2, <2>3, <2>4, <2>5, <2>6, InBlocks, BlocksGoOn
            DEF BlockLabels, WholeBlocks
  <1>2. CASE Returns("failed", -3) /\ UNCHANGED <<state, utc_start, db>>
    <2>1. PwcType' /\ CommandsKept'
      BY <1>2, InvTypes, StateKeeps DEF BlockRecordStop, PwcType
    <2>2. pwcm' \in PwcmRec
      BY ZenonT(60), <1>2, InvTypes, FieldValues DEF Returns, PwcmRec
    <2>3. pwcm'.pc = "failed" /\ pwcm'.rval = -3
      BY <1>2, InvTypes DEF Returns, PwcmRec
    <2> QED BY <1>2, <2>1, <2>2, <2>3, InvTypes, Ends DEF Starts, DataLabels, BlockLabels
  <1> QED BY <1>1, <1>2 DEF BlockRecordStop

LEMMA BlockStopKeeps ==
    ASSUME IInv, BlockStop
    PROVE  IInv'
  <1>1. PwcType' /\ CommandsKept' /\ UNCHANGED <<state, quit>>
    BY InvTypes, NoCallKeeps DEF BlockStop
  <1>2. db' \in DbRec
    <2>1. XferDb
      BY DEF BlockStop, XferContinues, XferEnds, XferDb
    <2> QED BY <2>1, InvTypes, XferDbIs
  <1>3. \/ /\ pwcm.mode = "block" /\ pwcm' = [pwcm EXCEPT !.pc = "stop", !.rval = 0]
           /\ db' = db
        \/ /\ pwcm.mode = "xfer"
           /\ \/ pwcm' = [pwcm EXCEPT !.pc = "stop"]
              \/ pwcm' = [pwcm EXCEPT !.total = pwcm.total + BUFFER, !.pc = "stop"]
    BY DEF BlockStop, XferContinues, XferEnds, FirstByte, Goto, Returns
  <1>4. pwcm' \in PwcmRec
    <2>1. pwcm.total + BUFFER \in Int
      BY InvTypes, PwcmFields
    <2> QED BY ZenonT(60), <1>3, <2>1, InvTypes, FieldValues DEF PwcmRec
  <1>5. /\ pwcm'.pc = "stop" /\ pwcm'.mode = pwcm.mode
        /\ pwcm.mode = "block" => db' = db
        /\ pwcm.pc = "block_transit" /\ Reached /\ pwcm.transit_byte # 0
    BY <1>3, InvTypes DEF PwcmRec, BlockStop, At, Reached
  <1>6. ASSUME BlockAligned PROVE db.asked = 0 \/ db.valid = db.asked
    <2>1. pwcm.bytes_to_write = 0 /\ (db.asked # 0 => pwcm.total = db.asked)
      BY <1>5, <1>6, InvTypes, ReachedTotal DEF BlockAligned
    <2>2. state = "recording" \/ state = "clocking"
      BY <1>5, InBlocks DEF BlockLabels
    <2> QED BY <1>5, <1>6, <2>1, <2>2 DEF BlockAligned
  <1>7. WholeBlocks => BlockAligned
    BY <1>5, InBlocks DEF BlockLabels
  <1>8. OpenAsStated'
    BY <1>5 DEF OpenAsStated, At, Starts, DataLabels, BlockLabels
  <1> QED BY <1>1, <1>2, <1>4, <1>5, <1>6, <1>7, <1>8 DEF IInv, MainTypes, At, WholeBlocks,
          DataLabels, BlockLabels

LEMMA BlockUnexpectedKeeps ==
    ASSUME IInv, BlockUnexpected
    PROVE  IInv'
  <1>1. PwcType' /\ CommandsKept' /\ UNCHANGED db
    BY InvTypes, NoCallKeeps DEF BlockUnexpected
  <1>2. pwcm' \in PwcmRec
    BY ZenonT(60), InvTypes, FieldValues DEF BlockUnexpected, Returns, PwcmRec
  <1>3. pwcm'.pc = "failed" /\ pwcm'.rval = -2
    BY InvTypes DEF BlockUnexpected, Returns, PwcmRec
  <1> QED BY <1>1, <1>2, <1>3, InvTypes, Ends DEF Starts, DataLabels, BlockLabels

-----------------------------------------------------------------------------
(* Steps of the client threads.                                            *)

LEMMA ClientFrame ==
    ASSUME IInv, PwcType', CommandsKept', quit => quit', UNCHANGED <<state, mainvars>>
    PROVE  IInv'
  BY InvTypes, Stays DEF mainvars

LEMMA ClientCallKeeps ==
    ASSUME IInv, NEW c \in Clients, ClientCall(c), UNCHANGED mainvars
    PROVE  IInv'
  <1>1. PwcType' /\ ClientChanges
    BY InvTypes, CmdHeaderKeeps, CmdStartKeeps, CmdQuitKeeps, CmdPlainKeeps, CmdDatedKeeps,
       CmdSetUtcStartKeeps, CmdDurationKeeps DEF ClientCall
  <1>2. CommandsKept'
    BY <1>1, InvTypes DEF ClientChanges, CommandsKept
  <1>3. quit => quit'
    BY DEF ClientCall, CmdHeader, CmdStart, CmdQuit, CmdPlain, CmdDated, CmdSetUtcStart,
       CmdDuration
  <1> QED BY <1>1, <1>2, <1>3, ClientFrame DEF ClientChanges

LEMMA ClientStepKeeps ==
    ASSUME IInv, NEW c \in Clients, ClientStep(c), UNCHANGED mainvars
    PROVE  IInv'
  <1>1. PwcType' /\ SlotStep
    BY InvTypes, CommandWaitKeeps, CommandSetKeeps, DurationSetKeeps DEF ClientStep
  <1>2. CommandsKept'
    BY <1>1, InvTypes DEF SlotStep, CommandsKept, PwcType, CountType
  <1> QED BY <1>1, <1>2, ClientFrame DEF SlotStep

LEMMA RestKeeps ==
    ASSUME IInv, UNCHANGED <<pwcvars, mainvars>>
    PROVE  IInv'
  <1>1. PwcType' /\ CommandsKept' /\ UNCHANGED <<state, quit>>
    BY InvTypes, NoCallKeeps
  <1> QED BY <1>1, ClientFrame

-----------------------------------------------------------------------------
(* The theorems.                                                           *)

LEMMA InitIInv == MainInit => IInv
  <1> SUFFICES ASSUME MainInit PROVE IInv
    OBVIOUS
  <1>1. PwcType /\ CommandsKept /\ None \in Commands
    BY PwcInitType DEF MainInit
  <1>2. pwcm \in PwcmRec /\ pwcm.pc = "prepare"
    <2>1. PICK mode \in Modes :
            pwcm = [mode |-> mode, pc |-> "prepare", command |-> None,
                    header_valid |-> FALSE, transit_byte |-> 0, bytes_to_write |-> 0,
                    total |-> 0, buf_bytes |-> 0, buffer_size |-> 0,
                    utc_buffer |-> 0, stored |-> FALSE, rval |-> 0]
      BY DEF MainInit
    <2> QED BY <1>1, <2>1, FieldValues DEF PwcmRec
  <1>3. db \in DbRec
    BY ShutIs DEF MainInit
  <1>4. OpenAsStated
    BY <1>2 DEF OpenAsStated, At, Starts, DataLabels, BlockLabels
  <1> QED BY <1>1, <1>2, <1>3, <1>4 DEF IInv, MainTypes, At, DataLabels, BlockLabels

LEMMA StepIInv ==
    ASSUME IInv, [BlockNext]_<<pwcvars, mainvars>>
    PROVE  IInv'
  <1>1. ASSUME NEW c \in Clients, (ClientCall(c) \/ ClientStep(c)) /\ UNCHANGED mainvars
        PROVE  IInv'
    BY <1>1, ClientCallKeeps, ClientStepKeeps
  <1>2. CASE MainStep
    BY <1>2, PrepareKeeps, PrepareLoopKeeps, PrepareWaitsKeeps, PrepareGetsKeeps,
       PrepareDoesKeeps, StoresUtcKeeps, StartTransferKeeps, StartedKeeps,
       TransferQuitsKeeps, NoCommandKeeps,
       TakeUtcStartKeeps, TakeCommandKeeps, TakeUnexpectedKeeps, BufferKeeps,
       BufferNotDueKeeps, BufferEmptyKeeps, BufferFailsKeeps, NotReachedKeeps,
       RecordStartKeeps, RecordStopKeeps, TransitReturnsKeeps, WriteRestKeeps,
       ProcessErrorKeeps, StopTransferKeeps, RoundKeeps DEF MainStep
  <1>3. CASE BlockStep
    BY <1>3, TransferQuitsKeeps, TakeUnexpectedKeeps, BlockNoCommandKeeps,
       BlockUtcStartKeeps, TakeBlockCommandKeeps, BlockNotDueKeeps, BlockRefusedKeeps,
       BlockFailsKeeps, BlockKeeps, XferKeeps, BlockHeaderKeeps, BlockNotReachedKeeps,
       BlockRecordStartKeeps, BlockRecordStopKeeps, BlockStopKeeps, BlockUnexpectedKeeps
       DEF BlockStep, BlockQuits, BlockTakesUnexpected
  <1>4. CASE MainRest \/ BlockRest \/ UNCHANGED <<pwcvars, mainvars>>
    BY <1>4, RestKeeps DEF MainRest, BlockRest
  <1> QED BY <1>1, <1>2, <1>3, <1>4 DEF BlockNext, MainNext

LEMMA AlwaysIInv == BlockSpec => []IInv
  BY InitIInv, StepIInv, PTL DEF BlockSpec

\* No command that dada_pwc_command_set accepted is lost or replaced by another,
\* for any number of connections of control clients.
THEOREM MainCommandsKept == BlockSpec => []CommandsKept
  <1>1. IInv => CommandsKept
    BY DEF IInv
  <1> QED BY <1>1, AlwaysIInv, PTL

\* At the head of the loop of transfer_data the Data Block takes valid data exactly
\* when the clients are told "recording", whichever call of ipcio failed before.
THEOREM MainRecordingIsValid == BlockSpec => []RecordingIsValid
  <1>1. IInv => RecordingIsValid
    BY DEF IInv, OpenAsStated, RecordingIsValid, DataLabels, At
  <1> QED BY <1>1, AlwaysIInv, PTL

\* For buffers of any size and commands at any byte, in any order and however soon
\* after each other: what transfer_data has written are the samples it has read, up
\* to the first time that the rest of a buffer is written again for a second
\* command (dada_pwc_main.c:930-957) or is lost in a write that fails.
THEOREM MainStreamAligned == BlockSpec => []StreamAligned
  <1>1. IInv => StreamAligned
    <2> SUFFICES ASSUME IInv, At("loop"), db.tail \notin {"twice", "lost"}
                 PROVE  db.pos = db.read
      BY DEF StreamAligned
    <2>1. /\ Aligned /\ ~CutShort /\ db.tail \in {"due", "done"}
          /\ pwcm.buffer_size \in Int /\ pwcm.buf_bytes \in Int
          /\ db.pos \in Int /\ db.read \in Int
      BY InvTypes, InData, PwcmFields, DbFields DEF CutShort, At, DataLabels
    <2> QED BY <2>1 DEF Aligned
  <1> QED BY <1>1, AlwaysIInv, PTL

\* A dated command takes effect at the byte its UTC stands for, or at the one before
\* it, if a command took effect before the first byte; whatever commands were taken
\* before and however the buffers are cut.
THEOREM MainCommandExact == BlockSpec => []CommandExact
  <1>1. IInv => CommandExact
    BY InData DEF CommandExact, Aligned, At, DataLabels
  <1> QED BY <1>1, AlwaysIInv, PTL

\* Zero copy with blocks that the instrument fills: while the clients are told
\* "recording", every byte handed over is valid data of the transfer.
THEOREM MainBlocksReachReaders ==
    ASSUME "short" \notin Faults
    PROVE  BlockSpec => []BlocksReachReaders
  <1>1. IInv => BlocksReachReaders
    BY InBlocks DEF BlocksReachReaders, BlockAligned, WholeBlocks, At, BlockLabels
  <1> QED BY <1>1, AlwaysIInv, PTL

\* Zero copy with blocks that the instrument fills: when transfer_data_block ends
\* for a dated STOP, and when it goes on clocking after a dated REC_STOP, the valid
\* data end at its byte.
THEOREM MainStopExact ==
    ASSUME "short" \notin Faults
    PROVE  BlockSpec => []StopExact
  <1>1. IInv => StopExact
    BY InBlocks DEF IInv, StopExact, BlockAligned, WholeBlocks, At, BlockLabels
  <1> QED BY <1>1, AlwaysIInv, PTL
=============================================================================
