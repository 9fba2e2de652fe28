------------------------------ MODULE PwcBlock ------------------------------
(***************************************************************************)
(* The transfer of data by a primary write client whose instrument fills   *)
(* the blocks of the Data Block itself (zero copy),                        *)
(* dada_pwc_main_transfer_data_block of src/src/dada_pwc_main.c, with and  *)
(* without XFERs: parts of an observation that are transfers of their own. *)
(* A block holds BUFFER bytes.                                             *)
(***************************************************************************)
EXTENDS PwcMain

\* How far ahead of the bytes written new_xfer_function lets the next XFER begin.
FirstByte(total) == {total + BUFFER}

\* What block_function puts in the block: whole blocks, unless the instrument
\* runs dry; with XFERs, nothing once the XFER is complete.
BlockBytes ==
    {BUFFER} \cup (IF "short" \in Faults THEN {1} ELSE {})
             \cup (IF pwcm.mode = "xfer" THEN {0} ELSE {})

-----------------------------------------------------------------------------
(* ipcio.c, as far as blocks are concerned.                                *)

\* bufs_opened_max, in a Data Block of three blocks.
BufsOpenedMax == 2

CanOpenBlock ==
    /\ db.rdwrt = "W" /\ db.bytes = 0 /\ (db.curbuf => db.open > 0)
    /\ db.open < BufsOpenedMax

\* ipcio_open_block_write: the first block of a transfer raises start of data.
Opened(d) ==
    [d EXCEPT !.open = @ + 1, !.curbuf = @ \/ d.open = 0,
        !.ring = IF @ = "WCHANGE" THEN "WRITING" ELSE @]

\* ipcio_close_block_write hands the block over; a block that is not full ends
\* the transfer, and what follows reaches no reader.
ClosedBlock(d, n) ==
    [d EXCEPT !.open = @ - 1, !.curbuf = d.open > 1, !.pos = @ + n,
        !.valid = IF d.ring = "WRITING" THEN @ + n ELSE @,
        !.ring = IF d.ring = "WRITING" /\ n < BUFFER THEN "WRITER" ELSE @]

-----------------------------------------------------------------------------
(* dada_pwc_main_transfer_data_block.                                      *)

BlockQuits == TransferQuits("block_loop")
BlockNoCommand == NoCommand("block_loop", "block")
BlockUtcStart == TakeUtcStart("block_loop", "block")
BlockTakesUnexpected == TakeUnexpected("block_loop")

\* A command that is dated in the future, or takes effect at once: before any
\* byte was written the transit byte is 0, and the command is forgotten.
TakeBlockCommand ==
    LET n == command.byte_count
    IN  /\ At("block_loop") /\ ~quit
        /\ command.code \in {"record_start", "record_stop", "stop"}
        /\ Get
        /\ pwcm' = [pwcm EXCEPT !.command = command, !.pc = "block",
                !.transit_byte = IF n > pwcm.total THEN n ELSE pwcm.total,
                !.bytes_to_write = IF n > pwcm.total THEN n - pwcm.total ELSE 0]
        /\ db' = [db EXCEPT !.asked = IF n > pwcm.total THEN n ELSE 0]
        /\ UNCHANGED <<state, quit, utc_start, rate, waiting, hb>>

\* Mutant: the block is handed over whole.
ClippedNot(n) == n

\* The part of a block of n bytes that the command leaves room for.
Clipped(n) ==
    IF pwcm.transit_byte # 0 /\ n > pwcm.bytes_to_write
    THEN pwcm.bytes_to_write ELSE n

BlockNotDue ==
    /\ At("block") /\ ~Due
    /\ pwcm' = [pwcm EXCEPT !.pc = "block_transit", !.buf_bytes = 0]
    /\ UNCHANGED <<pwcvars, db, hb>>

\* No block can be opened while the Data Block is being clocked.
BlockRefused ==
    /\ At("block") /\ Due /\ ~CanOpenBlock
    /\ Returns("failed", -3)
    /\ UNCHANGED <<pwcvars, db, hb>>

\* block_function fails, or has written past the end of the block.
BlockFails ==
    /\ At("block") /\ Due /\ CanOpenBlock /\ "buffer" \in Faults
    /\ Returns("failed", -3)
    /\ \E n \in {0, BUFFER} : db' = ClosedBlock(Opened(db), n)
    /\ UNCHANGED <<pwcvars, hb>>

\* block_function fills a block, as often as MaxBytes allows; without XFERs it
\* is handed over.
Block ==
    /\ At("block") /\ Due /\ CanOpenBlock /\ db.read + BUFFER <= MaxBytes
    /\ \E n \in BlockBytes :
       LET b == Clipped(n)
           d == [Opened(db) EXCEPT !.read = @ + BUFFER]
       IN  /\ pwcm' = [pwcm EXCEPT !.buf_bytes = b, !.total = @ + b,
                  !.bytes_to_write = IF @ > b THEN @ - b ELSE 0,
                  !.pc = IF pwcm.mode = "block" THEN "block_header" ELSE "xfer"]
           /\ db' = IF pwcm.mode = "block" THEN ClosedBlock(d, b) ELSE d
    /\ UNCHANGED <<pwcvars, hb>>

-----------------------------------------------------------------------------
(* dada_pwc_main_process_xfer, called after a block and by a stop.         *)

\* Inside an XFER the block is handed over; at the end of the observation it
\* stays open.
XferContinues(next, failed) ==
    \/ /\ db.curbuf /\ Goto(next)
       /\ db' = ClosedBlock(db, pwcm.buf_bytes) /\ UNCHANGED hb
    \/ /\ ~db.curbuf /\ failed /\ UNCHANGED <<db, hb>>
    \/ Goto(next) /\ UNCHANGED <<db, hb>>

\* At the end of an XFER the Data Block is closed and opened again, which fails
\* for a block with data in it: its size has just been noted.  A header is sent
\* for the next XFER, which is one byte long if the observation ends with it.
XferEnds(next, failed) ==
    LET d == [db EXCEPT !.bytes = pwcm.buf_bytes]
        reopened == [Closed(d) EXCEPT !.rdwrt = "W", !.ring = "WCHANGE",
                                      !.curbuf = FALSE, !.bytes = 0]
    IN  \/ /\ ~db.curbuf /\ failed /\ UNCHANGED <<db, hb>>
        \/ /\ db.curbuf /\ d.bytes > 0 /\ d.ring = "WRITING"
           /\ failed /\ db' = d /\ UNCHANGED hb
        \/ /\ pwcm.total + BUFFER <= MaxBytes
           /\ db.curbuf /\ ~(d.bytes > 0 /\ d.ring = "WRITING")
           /\ HeaderRoom /\ hb' = Sends(Opens(hb))
           /\ \E first \in FirstByte(pwcm.total) :
                pwcm' = [pwcm EXCEPT !.total = first, !.pc = next]
           /\ \/ db' = reopened
              \/ db' = [reopened EXCEPT !.pos = @ + 1, !.valid = @ + 1,
                                        !.ring = "WRITING"]

Xfer ==
    /\ At("xfer")
    /\ LET failed == Returns("failed", -2)
       IN  XferContinues("block_header", failed) \/ XferEnds("block_header", failed)
    /\ UNCHANGED pwcvars

\* A header that is not yet valid is looked at again.
BlockHeader ==
    /\ At("block_header")
    /\ \E valid \in BOOLEAN :
         /\ HeaderTest(valid)
         /\ pwcm' = [pwcm EXCEPT !.header_valid = valid, !.pc = "block_transit"]
    /\ UNCHANGED <<pwcvars, db>>

-----------------------------------------------------------------------------
\* The command takes effect.
BlockNotReached ==
    /\ At("block_transit") /\ ~Reached
    /\ Goto("block_loop")
    /\ UNCHANGED <<pwcvars, db, hb>>

BlockRecordStart == RecordStart("block_transit", "block_loop")

\* Mutant: the data stops, but the state is not changed.
BlockRecordStopSilent ==
    /\ At("block_transit") /\ Reached /\ pwcm.command.code = "record_stop"
    /\ db.rdwrt = "W" /\ ~CloseFails
    /\ db' = [Closed(db) EXCEPT !.rdwrt = "w", !.ring = "WRITER"]
    /\ pwcm' = [pwcm EXCEPT !.pc = "block_loop", !.transit_byte = 0]
    /\ UNCHANGED <<pwcvars, hb>>

BlockRecordStop ==
    /\ At("block_transit") /\ Reached /\ pwcm.command.code = "record_stop"
    /\ \/ /\ db.rdwrt = "W" /\ ~CloseFails
          /\ db' = [Closed(db) EXCEPT !.rdwrt = "w", !.ring = "WRITER"]
          /\ SetState("clocking")
          /\ pwcm' = [pwcm EXCEPT !.pc = "block_loop", !.transit_byte = 0]
       \/ /\ db.rdwrt # "W" \/ CloseFails \/ "ipcio" \in Faults
          /\ Returns("failed", -3)
          /\ UNCHANGED <<state, waiting, utc_start, db>>
    /\ UNCHANGED <<command, quit, rate, client, issued, accepted, taken,
                   hb>>

\* With XFERs a stop calls process_xfer once more, and ignores what it returns.
BlockStop ==
    /\ At("block_transit") /\ Reached /\ pwcm.command.code = "stop"
    /\ \/ pwcm.mode = "block" /\ Returns("stop", 0) /\ UNCHANGED <<db, hb>>
       \/ /\ pwcm.mode = "xfer"
          /\ XferContinues("stop", Goto("stop")) \/ XferEnds("stop", Goto("stop"))
    /\ UNCHANGED pwcvars

BlockUnexpected ==
    /\ At("block_transit") /\ Reached
    /\ pwcm.command.code \notin {"record_start", "record_stop", "stop"}
    /\ Returns("failed", -2)
    /\ UNCHANGED <<pwcvars, db, hb>>

BlockStep ==
    \/ BlockQuits \/ BlockNoCommand \/ BlockUtcStart \/ TakeBlockCommand
    \/ BlockTakesUnexpected
    \/ BlockNotDue \/ BlockRefused \/ BlockFails \/ Block \/ Xfer \/ BlockHeader
    \/ BlockNotReached \/ BlockRecordStart \/ BlockRecordStop
    \/ BlockStop \/ BlockUnexpected

\* The instrument has no more data.
BlockRest ==
    /\ At("block") /\ db.read + BUFFER > MaxBytes
    /\ UNCHANGED <<pwcvars, mainvars>>

BlockNext == MainNext \/ BlockStep \/ BlockRest

BlockSpec == MainInit /\ [][BlockNext]_<<pwcvars, mainvars>>

-----------------------------------------------------------------------------
\* Zero copy without XFERs: while the client says that it records, the blocks
\* that the instrument fills go to the readers, and none went to nobody.
BlocksReachReaders ==
    At("block_loop") /\ pwcm.mode = "block" /\ state = "recording" =>
        db.valid = db.pos /\ db.rdwrt = "W" /\ db.ring \in {"WCHANGE", "WRITING"}

\* Zero copy without XFERs: a dated STOP or REC_STOP ends the data of the readers
\* at exactly its byte, in the middle of a block too.
StopExact ==
    pwcm.mode = "block" /\ db.asked # 0 =>
        /\ At("stop") /\ pwcm.rval = 0 /\ ~quit => db.valid = db.asked
        /\ At("block_loop") /\ state = "clocking" /\ pwcm.command.code = "record_stop" =>
             db.valid = db.asked
=============================================================================
