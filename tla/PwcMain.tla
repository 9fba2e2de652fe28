------------------------------ MODULE PwcMain ------------------------------
(***************************************************************************)
(* The main loop of a primary write client, src/src/dada_pwc_main.c, with  *)
(* the command interface of dada_pwc.c.  The Data Block is seen through    *)
(* ipcio.c: how it is open, how many bytes went in, and whether they are   *)
(* valid data.  The Header Block is seen through ipcbuf.c: how many blocks *)
(* are open, and whether UTC_START is known in the last one (PwcMulti has  *)
(* the headers themselves).                                                *)
(***************************************************************************)
EXTENDS Pwc

CONSTANTS
    BUFFER,     \* bytes that buffer_function returns at a time
    MaxBytes,   \* bound on the bytes of an observation
    FirstUtc,   \* the UTC that start_function may give
    NHDR,       \* blocks of the Header Block
    Faults,     \* which functions of the instrument, or calls of ipcio, may fail
    Modes       \* its kind: "data", "block" (zero copy) or "xfer" (with XFERs)

ASSUME MainAssumption ==
    /\ BUFFER \in Nat \ {0} /\ MaxBytes \in Nat /\ FirstUtc \in Times
    /\ NHDR \in Nat \ {0}
    /\ Faults \subseteq {"start", "buffer", "retry", "stop", "short", "ipcio"}
    /\ Modes \subseteq {"data", "block", "xfer"}

VARIABLES
    pwcm,   \* dada_pwc_main_t and the locals of transfer_data
    db,     \* Data Block: mode, bytes written, samples read, where a command
            \* is due, how far total is ahead of the bytes written, whether the
            \* rest of the last buffer is "due" to be written for a command, or
            \* that is "done", or was done "twice" for one buffer, or was "lost"
            \* in a write that failed; for zero copy
            \* also where the data of readers ends, w_state, bufs_opened, whether
            \* there is a curbuf, and ipc->bytes
    hb      \* Header Block: blocks opened and not handed over, and whether UTC_START
            \* is known in the last one

mainvars == <<pwcm, db, hb>>

\* The Data Block when it is closed, before and between observations.
Shut == [rdwrt |-> "0", pos |-> 0, read |-> 0, asked |-> 0, early |-> 0,
         tail |-> "done", valid |-> 0, ring |-> "WRITER", open |-> 0,
         curbuf |-> FALSE, bytes |-> 0]

MainInit ==
    /\ PwcInit
    /\ \E mode \in Modes :
         pwcm = [mode |-> mode, pc |-> "prepare", command |-> None,
                 header_valid |-> FALSE, transit_byte |-> 0, bytes_to_write |-> 0,
                 total |-> 0, buf_bytes |-> 0, buffer_size |-> 0,
                 utc_buffer |-> 0, stored |-> FALSE, rval |-> 0]
    /\ db = Shut
    /\ hb = [open |-> 0, dated |-> FALSE]

At(l) == pwcm.pc = l
Goto(l) == pwcm' = [pwcm EXCEPT !.pc = l]
Returns(l, rval) == pwcm' = [pwcm EXCEPT !.pc = l, !.rval = rval]

\* ipcbuf_get_next_write, which waits as long as every block of the Header Block
\* is open, and ipcbuf_mark_filled.
HeaderRoom == hb.open < NHDR
Opens(h) == [h EXCEPT !.open = @ + 1]
Sends(h) == [h EXCEPT !.open = @ - 1]
\* UTC_START is written to pwcm->header, the block that was opened last.
Dates(h, utc) == [h EXCEPT !.dated = (utc # 0)]

\* header_valid_function: never content while UTC_START is "UNKNOWN", and it may
\* ask for more.
HeaderValid(h) == IF h.dated THEN BOOLEAN ELSE {FALSE}

\* ipcio_close hands the blocks that are still open over as full ones, unless
\* ipcio_update_block_write has noted their size.
CloseFails ==
    /\ db.rdwrt = "W" /\ db.ring = "WRITING"
    /\ db.open > 0 /\ (db.bytes > 0 \/ ~db.curbuf)
Closed(d) ==
    IF d.rdwrt = "W" /\ d.ring = "WRITING"
    THEN [d EXCEPT !.rdwrt = "0", !.open = 0, !.curbuf = FALSE,
                   !.pos = @ + d.open * BUFFER, !.valid = @ + d.open * BUFFER]
    ELSE [d EXCEPT !.rdwrt = "0"]

\* dada_pwc_set_state, called in prepared, first stores the UTC.
StoresUtc ==
    /\ \/ At("prepared") /\ pwcm.command.code \in {"reset", "stop"}
       \/ At("started") \/ At("unprepared") \/ At("failed")
    /\ ~pwcm.stored /\ pwcm' = [pwcm EXCEPT !.stored = TRUE]
    /\ StoreUtc(IF At("started") THEN pwcm.utc_buffer ELSE 0)
    /\ UNCHANGED <<db, hb>>

\* Then it sets the state, and pc moves on.
Sets(new, l) ==
    /\ state = "prepared" => pwcm.stored
    /\ SetState(new)
    /\ pwcm' = [pwcm EXCEPT !.stored = FALSE, !.pc = l]

-----------------------------------------------------------------------------
(* dada_pwc_main_prepare.                                                  *)

\* The next header block is opened and the Data Block closed.
Prepare ==
    /\ At("prepare") /\ UNCHANGED pwcvars
    /\ \/ quit /\ Goto("exit") /\ UNCHANGED <<db, hb>>
       \/ /\ ~quit /\ HeaderRoom
          /\ hb' = Dates(Opens(hb), 0)
          /\ \/ ~CloseFails /\ Goto("get") /\ db' = Shut
             \/ /\ CloseFails \/ ("ipcio" \in Faults /\ db.rdwrt # "0")
                /\ Returns("unprepared", -2) /\ UNCHANGED db

PrepareLoop ==
    /\ At("get")
    /\ Goto(IF quit THEN "exit" ELSE "getting")
    /\ UNCHANGED <<pwcvars, db, hb>>

PrepareWaits ==
    /\ At("getting") /\ GetWait
    /\ UNCHANGED mainvars

PrepareGets ==
    /\ At("getting") /\ Get
    /\ pwcm' = [pwcm EXCEPT !.command = command,
                            !.pc = IF quit THEN "exit" ELSE "prepared"]
    /\ UNCHANGED <<state, quit, utc_start, rate, waiting, db, hb>>

PrepareDoes ==
    /\ At("prepared")
    /\ UNCHANGED <<command, quit, rate, client, issued, accepted, taken>>
    /\ \/ /\ pwcm.command.code \in {"reset", "stop"}
          /\ Sets("idle", "get") /\ UNCHANGED <<db, hb>>
       \/ /\ pwcm.command.code = "header"
          /\ hb' = Dates(hb, 0)
          /\ SetState("prepared") /\ Goto("get") /\ UNCHANGED db
       \/ /\ pwcm.command.code \in {"clock", "start"}
          /\ db' = [Shut EXCEPT
                       !.rdwrt = IF pwcm.command.code = "clock" THEN "w" ELSE "W",
                       !.ring = IF pwcm.command.code = "clock" THEN "WRITER"
                                ELSE "WCHANGE"]
          /\ Goto("start") /\ UNCHANGED <<state, waiting, utc_start, hb>>
       \/ /\ \/ pwcm.command.code \in {"clock", "start"} /\ "ipcio" \in Faults
             \/ pwcm.command.code \notin {"reset", "stop", "header", "clock", "start"}
          /\ Returns("unprepared", -2)
          /\ UNCHANGED <<state, waiting, utc_start, db, hb>>

-----------------------------------------------------------------------------
(* dada_pwc_main_start_transfer, and the entry of transfer_data.           *)

\* start_function gives the UTC of the first sample, or 0: "UNKNOWN".
StartTransfer ==
    /\ At("start")
    /\ UNCHANGED <<state, command, quit, rate, waiting, client, issued,
                   accepted, taken, db>>
    /\ \/ "start" \in Faults /\ Returns("failed", -2) /\ UNCHANGED <<utc_start, hb>>
       \/ \E utc \in {0, FirstUtc} :
          LET dated == Dates(hb, utc)
          IN  \E valid \in IF pwcm.command.code = "start" THEN HeaderValid(dated)
                           ELSE {FALSE} :
             /\ hb' = IF valid THEN Sends(dated) ELSE dated
             /\ utc_start' = IF utc = 0 THEN utc_start ELSE utc
             /\ pwcm' = [pwcm EXCEPT !.header_valid = valid, !.utc_buffer = utc,
                                     !.pc = "started"]

\* The byte that new_xfer_function gives for the first XFER.
FirstBytes == IF pwcm.mode = "xfer" THEN {0, BUFFER} ELSE {0}

Started ==
    LET new == IF pwcm.command.code = "start" THEN "recording" ELSE "clocking"
    IN  /\ At("started") /\ (state = "prepared" => pwcm.stored)
        /\ SetState(new)
        /\ db' = [db EXCEPT !.asked = 0, !.early = 0]
        /\ \E first \in FirstBytes :
             pwcm' = [pwcm EXCEPT
                !.stored = FALSE, !.total = first, !.rval = -1,
                !.pc = IF ~MayChange(state, new) THEN "failed"
                       ELSE IF pwcm.mode = "data" THEN "loop" ELSE "block_loop",
                !.transit_byte = pwcm.command.byte_count,
                !.bytes_to_write = pwcm.command.byte_count,
                !.buf_bytes = 0, !.buffer_size = 0]
        /\ UNCHANGED <<command, quit, rate, client, issued, accepted, taken,
                       hb>>

-----------------------------------------------------------------------------
(* dada_pwc_main_transfer_data.                                            *)

TransferQuits(loop) ==
    /\ At(loop) /\ quit
    /\ Returns("stop", 0)
    /\ UNCHANGED <<pwcvars, db, hb>>

NoCommand(loop, next) ==
    /\ At(loop) /\ ~quit /\ command.code = "no_command"
    /\ Goto(next)
    /\ UNCHANGED <<pwcvars, db, hb>>

\* set_utc_start completes the header; it replaces a command that is pending.
TakeUtcStart(loop, next) ==
    LET first == pwcm.utc_buffer = 0
        dated == IF first THEN Dates(hb, command.utc) ELSE hb
        records == first /\ state = "recording"
    IN  /\ At(loop) /\ ~quit /\ command.code = "set_utc_start"
        /\ Get /\ Signal
        /\ \E valid \in IF records THEN HeaderValid(dated)
                                    ELSE {pwcm.header_valid} :
             /\ pwcm' = [pwcm EXCEPT !.command = command, !.header_valid = valid,
                  !.utc_buffer = IF first THEN command.utc ELSE @, !.pc = next]
             /\ hb' = IF records /\ valid THEN Sends(dated) ELSE dated
        /\ UNCHANGED <<state, quit, utc_start, rate, db>>

\* A command that is dated in the future, or takes effect at once: before anything
\* is written total is then set to 1, one byte ahead.
TakeCommand ==
    LET n == command.byte_count
        total == IF pwcm.total = 0 THEN 1 ELSE pwcm.total
    IN  /\ At("loop") /\ ~quit
        /\ command.code \in {"record_start", "record_stop", "stop"}
        /\ Get
        /\ pwcm' = IF n > pwcm.total
                   THEN [pwcm EXCEPT !.command = command, !.pc = "buffer",
                           !.transit_byte = n, !.bytes_to_write = n - pwcm.total]
                   ELSE [pwcm EXCEPT !.command = command, !.pc = "buffer",
                           !.total = total, !.transit_byte = total,
                           !.bytes_to_write = 0]
        /\ db' = IF n > pwcm.total THEN [db EXCEPT !.asked = n]
                 ELSE [db EXCEPT !.asked = 0, !.early = @ + (total - pwcm.total)]
        /\ UNCHANGED <<state, quit, utc_start, rate, waiting, hb>>

TakeUnexpected(loop) ==
    /\ At(loop) /\ ~quit
    /\ command.code \in {"header", "clock", "start", "reset", "exit"}
    /\ Get
    /\ pwcm' = [pwcm EXCEPT !.command = command, !.pc = "failed", !.rval = -2]
    /\ UNCHANGED <<state, quit, utc_start, rate, waiting, db, hb>>

\* Mutant: a buffer is written past the byte of the command.
BufBytesAll == BUFFER

\* buf_bytes: no more is written than up to the byte of the command.
BufBytes ==
    IF pwcm.transit_byte # 0 /\ BUFFER > pwcm.bytes_to_write
    THEN pwcm.bytes_to_write ELSE BUFFER

Due == pwcm.transit_byte = 0 \/ pwcm.bytes_to_write > 0

BufferNotDue ==
    /\ At("buffer") /\ ~Due
    /\ Goto("transit")
    /\ UNCHANGED <<pwcvars, db, hb>>

\* After buffer_function a header that is not yet valid is looked at again, and
\* handed over.
HeaderTest(valid) ==
    /\ valid \in IF pwcm.header_valid \/ state # "recording" THEN {pwcm.header_valid}
                 ELSE HeaderValid(hb)
    /\ hb' = IF valid /\ ~pwcm.header_valid THEN Sends(hb) ELSE hb

\* buffer_function returns data, and as much of it as the command leaves room
\* for is written.
Buffer ==
    LET n == BufBytes
    IN  /\ At("buffer") /\ Due /\ db.read + BUFFER <= MaxBytes
        /\ \E valid \in BOOLEAN :
             /\ HeaderTest(valid)
             /\ pwcm' = [pwcm EXCEPT !.header_valid = valid,
                   !.buffer_size = BUFFER, !.buf_bytes = n, !.total = @ + n,
                   !.bytes_to_write = IF @ > n THEN @ - n ELSE 0, !.pc = "transit"]
        /\ db' = [db EXCEPT !.read = @ + BUFFER, !.pos = @ + n,
                            !.tail = IF @ \in {"twice", "lost"} THEN @ ELSE "due"]
        /\ UNCHANGED pwcvars

\* It has none, and error_function asks to try again.
BufferEmpty ==
    /\ At("buffer") /\ Due /\ "retry" \in Faults
    /\ \E valid \in BOOLEAN :
         /\ HeaderTest(valid)
         /\ pwcm' = [pwcm EXCEPT !.header_valid = valid, !.buffer_size = 0,
                                 !.buf_bytes = 0, !.pc = "transit"]
    /\ UNCHANGED <<pwcvars, db>>

\* It fails with an error of its own, or has no data for good: 1 byte is written
\* then.  Without UTC_START a Data Block that is full is fatal.
BufferFails ==
    /\ At("buffer") /\ Due /\ "buffer" \in Faults /\ UNCHANGED pwcvars
    /\ \/ /\ \E rval \in {-1, -2, -3} : Returns("failed", rval)
          /\ UNCHANGED <<db, hb>>
       \/ /\ Returns("failed", -2) /\ UNCHANGED hb
          /\ db' = [db EXCEPT !.pos = @ + 1]
       \/ /\ pwcm.utc_buffer = 0 /\ HeaderTest(pwcm.header_valid)
          /\ Returns("failed", -3) /\ UNCHANGED db

\* The byte at which the command takes effect has been reached.
Reached == pwcm.transit_byte # 0 /\ pwcm.transit_byte <= pwcm.total

NotReached ==
    /\ At("transit") /\ ~Reached
    /\ Goto("loop")
    /\ UNCHANGED <<pwcvars, db, hb>>

\* dada_pwc_main_record_start: a header block is opened and completed, and
\* ipcio_start called; the first header of the observation is handed over.
RecordStart(at, next) ==
    LET opened == Dates(Opens(hb), pwcm.command.utc)
    IN  /\ At(at) /\ Reached /\ pwcm.command.code = "record_start" /\ HeaderRoom
        /\ \/ /\ db.rdwrt = "w"
              /\ db' = [db EXCEPT !.rdwrt = "W", !.ring = "WRITING", !.valid = db.pos]
              /\ \/ /\ hb' = IF pwcm.header_valid THEN opened ELSE Sends(opened)
                    /\ SetState("recording")
                    /\ pwcm' = [pwcm EXCEPT !.header_valid = TRUE, !.pc = next,
                                            !.transit_byte = 0]
                 \/ /\ ~pwcm.header_valid        \* nor is it valid now
                    /\ hb' = opened
                    /\ Returns("failed", -2)
                    /\ UNCHANGED <<state, waiting, utc_start>>
           \/ /\ db.rdwrt # "w" \/ "ipcio" \in Faults
              /\ hb' = opened
              /\ Returns("failed", -2)
              /\ UNCHANGED <<state, waiting, utc_start, db>>
        /\ UNCHANGED <<command, quit, rate, client, issued, accepted,
                       taken>>

\* Mutant: ipcio_stop is not called.
RecordStopLeaves ==
    /\ At("transit") /\ Reached /\ pwcm.command.code = "record_stop"
    /\ SetState("clocking")
    /\ pwcm' = [pwcm EXCEPT !.pc = "rest", !.transit_byte = 0]
    /\ UNCHANGED <<command, quit, rate, client, issued, accepted, taken,
                   db, hb>>

RecordStop ==
    /\ At("transit") /\ Reached /\ pwcm.command.code = "record_stop"
    /\ \/ /\ db.rdwrt = "W"
          /\ db' = [db EXCEPT !.rdwrt = "w"]
          /\ SetState("clocking")
          /\ pwcm' = [pwcm EXCEPT !.pc = "rest", !.transit_byte = 0]
       \/ /\ db.rdwrt # "W" \/ "ipcio" \in Faults
          /\ Returns("failed", -3)
          /\ UNCHANGED <<state, waiting, utc_start, db>>
    /\ UNCHANGED <<command, quit, rate, client, issued, accepted, taken,
                   hb>>

\* A stop returns; any other command does not belong here.
TransitReturns ==
    /\ At("transit") /\ Reached
    /\ pwcm.command.code \notin {"record_start", "record_stop"}
    /\ \/ pwcm.command.code = "stop" /\ Returns("stop", 0)
       \/ pwcm.command.code # "stop" /\ Returns("failed", -2)
    /\ UNCHANGED <<pwcvars, db, hb>>

\* Mutant: what the command left of the buffer is dropped.
WriteRestDrops ==
    /\ At("rest")
    /\ pwcm' = [pwcm EXCEPT !.buf_bytes = pwcm.buffer_size, !.pc = "loop"]
    /\ UNCHANGED <<pwcvars, db, hb>>

\* What the command left of the buffer is written in the new state.  A write
\* that fails is not noticed: its -1 is compared as an unsigned number.
WriteRest ==
    LET n == pwcm.buffer_size - pwcm.buf_bytes
        goes == pwcm' = [pwcm EXCEPT !.buf_bytes = n, !.total = @ + n, !.pc = "loop"]
    IN  /\ At("rest") /\ UNCHANGED <<pwcvars, hb>>
        /\ \/ /\ goes
              /\ db' = [db EXCEPT !.pos = @ + n, !.tail = IF @ = "due" THEN "done"
                              ELSE IF n > 0 /\ @ = "done" THEN "twice" ELSE @]
           \/ /\ "ipcio" \in Faults /\ n > 0 /\ goes
              /\ db' = [db EXCEPT !.tail = "lost"]
           \/ /\ "buffer" \in Faults /\ n > 0 /\ pwcm.utc_buffer = 0
              /\ Returns("failed", -3) /\ UNCHANGED db

-----------------------------------------------------------------------------
(* dada_pwc_main_process_error, dada_pwc_main_stop_transfer and the loop.  *)

ErrorState(s, rval) ==
    IF rval = -3 \/ s = "fatal_error" THEN "fatal_error"
    ELSE IF rval = -2 \/ s = "hard_error" THEN "hard_error" ELSE "soft_error"

\* Errors of prepare end the round; errors of the transfer are followed by
\* stop_transfer, and so is a transfer that ends well.
ProcessError ==
    /\ At("unprepared") \/ At("failed") \/ At("unstopped")
    /\ Sets(ErrorState(state, pwcm.rval), IF At("failed") THEN "stop" ELSE "round")
    /\ UNCHANGED <<command, quit, rate, client, issued, accepted, taken,
                   db, hb>>

StopTransfer ==
    /\ At("stop")
    /\ UNCHANGED <<command, quit, rate, client, issued, accepted, taken,
                   hb>>
    /\ \/ /\ "stop" \in Faults
          /\ pwcm' = [pwcm EXCEPT !.header_valid = FALSE, !.pc = "unstopped",
                                  !.rval = -2]
          /\ UNCHANGED <<state, waiting, utc_start, db>>
       \/ /\ CloseFails \/ "ipcio" \in Faults
          /\ pwcm' = [pwcm EXCEPT !.header_valid = FALSE, !.pc = "unstopped",
                                  !.rval = -3]
          /\ UNCHANGED <<state, waiting, utc_start, db>>
       \/ /\ ~CloseFails
          /\ pwcm' = [pwcm EXCEPT !.header_valid = FALSE, !.pc = "round"]
          /\ db' = Shut
          /\ IF state \in {"soft_error", "hard_error", "fatal_error"}
             THEN UNCHANGED <<state, waiting, utc_start>> ELSE SetState("idle")

\* The end of a round of dada_pwc_main; the locals of transfer_data are gone.
Round ==
    /\ At("round")
    /\ quit' = (quit \/ state = "fatal_error")
    /\ pwcm' = [pwcm EXCEPT !.pc = "prepare", !.transit_byte = 0,
            !.bytes_to_write = 0, !.total = 0, !.buf_bytes = 0, !.buffer_size = 0,
            !.utc_buffer = 0, !.rval = 0]
    /\ UNCHANGED <<state, command, utc_start, rate, waiting, client, issued,
                   accepted, taken, db, hb>>

-----------------------------------------------------------------------------
ClientCall(c) ==
    \/ CmdHeader(c) \/ CmdStart(c) \/ CmdQuit(c)
    \/ \E code \in {"clock", "reset"} : CmdPlain(c, code)
    \/ \E code \in {"record_start", "record_stop", "stop"},
          utc \in Times \cup {0} : CmdDated(c, code, utc)
    \/ \E utc \in Times : CmdSetUtcStart(c, utc)
    \/ \E n \in 1..2 : CmdDuration(c, n)

MainStep ==
    \/ Prepare \/ PrepareLoop \/ PrepareWaits \/ PrepareGets \/ PrepareDoes
    \/ StoresUtc \/ StartTransfer \/ Started
    \/ TransferQuits("loop") \/ NoCommand("loop", "buffer")
    \/ TakeUtcStart("loop", "buffer") \/ TakeCommand \/ TakeUnexpected("loop")
    \/ Buffer \/ BufferNotDue \/ BufferEmpty \/ BufferFails
    \/ NotReached \/ RecordStart("transit", "rest") \/ RecordStop \/ TransitReturns
    \/ WriteRest
    \/ ProcessError \/ StopTransfer \/ Round

\* The program has ended, or waits for a command, or for the instrument, or for a
\* block of the Header Block.
MainRest ==
    /\ \/ At("exit") \/ "main" \in waiting
       \/ At("buffer") /\ db.read + BUFFER > MaxBytes
       \/ ~HeaderRoom
    /\ UNCHANGED <<pwcvars, mainvars>>

MainNext ==
    \/ \E c \in Clients : (ClientCall(c) \/ ClientStep(c)) /\ UNCHANGED mainvars
    \/ MainStep
    \/ MainRest

MainSpec == MainInit /\ [][MainNext]_<<pwcvars, mainvars>>

-----------------------------------------------------------------------------
\* What the state says of the data is true where data is written: the Data
\* Block takes valid data exactly in the recording state.
RecordingIsValid ==
    At("loop") => /\ state = "recording" => db.rdwrt = "W"
                  /\ state = "clocking"  => db.rdwrt = "w"
                  /\ state \in {"recording", "clocking"}

\* The bytes of the Data Block are the samples of the instrument, in order and
\* without gaps, through changes of state in the middle of a buffer.  Two things
\* break it: a second command that takes effect before the next buffer is read,
\* for which dada_pwc_main.c:930-957 writes bytes of the last buffer again, and a
\* write that fails there.
StreamAligned ==
    At("loop") /\ db.tail \notin {"twice", "lost"} => db.pos = db.read

\* A dated command takes effect at exactly its byte, also when it is taken after
\* others; or one byte before it if an earlier command of the observation took
\* effect before anything was written (dada_pwc_main.c:641-645 then counts a byte
\* that is not there).  Bytes lost in a write that failed are counted too.
CommandExact ==
    At("rest") /\ db.asked # 0 /\ db.tail # "lost" =>
        /\ db.pos = db.asked - db.early
        /\ db.early \in {0, 1}
=============================================================================
