------------------------------ MODULE PwcMulti ------------------------------
(***************************************************************************)
(* The main loop of a primary write client with several Header and Data    *)
(* Blocks, src/src/dada_pwc_main_multi.c.  It repeats what the main loop   *)
(* of dada_pwc_main.c does for every HDU in turn, so that one of them may  *)
(* fail after others have been served, and it counts bytes differently.    *)
(* Calls of ipcio.c may fail for any of the HDUs, and so may the functions *)
(* of the instrument; ipcbuf_mark_filled, for a header, does not.          *)
(***************************************************************************)
EXTENDS Pwc

CONSTANTS
    NumHdus,    \* pwcm->num_hdus
    BUFFER,     \* bytes that buffer_function returns for each HDU
    MaxBytes,   \* bound on the bytes of an observation
    FirstUtc,   \* the UTC that start_function may give
    NHDR,       \* blocks of each Header Block
    Faults      \* which functions may fail

ASSUME MultiAssumption ==
    /\ NumHdus \in Nat \ {0} /\ BUFFER \in Nat \ {0} /\ MaxBytes \in Nat
    /\ FirstUtc \in Nat \ {0} /\ NHDR \in Nat \ {0}
    /\ Faults \subseteq {"start", "buffer", "retry", "write", "stop", "ipcio"}

VARIABLES
    pwcm,   \* dada_pwc_main_multi_t, the locals of transfer_data, and as history
            \* whether the headers are tidy (no block was left open by an earlier
            \* observation, none opened before UTC_START was known), and whether
            \* bytes were lost in a write that failed unnoticed
    hdu,    \* each HDU: its Data Block's mode and bytes, the header blocks that are
            \* open (their UTC_START, 0 if "UNKNOWN"), and those that the readers
            \* were given in this observation
    read    \* bytes that the instrument gave for each HDU

multivars == <<pwcm, hdu, read>>

Hdus == 1..NumHdus

MultiInit ==
    /\ PwcInit
    /\ pwcm = [pc |-> "prepare", command |-> None, header_valid |-> FALSE,
               transit_byte |-> 0, bytes_to_write |-> 0, total |-> 0,
               buf_bytes |-> 0, buffer_size |-> 0, utc_buffer |-> 0,
               stored |-> FALSE, tidy |-> TRUE, lost |-> FALSE, rval |-> 0]
    /\ hdu = [i \in Hdus |-> [rdwrt |-> "0", pos |-> 0, open |-> <<>>, sent |-> <<>>]]
    /\ read = 0

At(l) == pwcm.pc = l
Goto(l) == pwcm' = [pwcm EXCEPT !.pc = l]
Returns(l, rval) == pwcm' = [pwcm EXCEPT !.pc = l, !.rval = rval]

\* "for (i=0; i<pwcm->num_hdus; i++)", all of it or up to the HDU that fails.
ForAll(f(_)) == hdu' = [i \in Hdus |-> f(hdu[i])]
UpTo(k, f(_)) == hdu' = [i \in Hdus |-> IF i < k THEN f(hdu[i]) ELSE hdu[i]]

\* ipcio_open, ipcio_close and ipcio_write of one Data Block.
Mode(h, c)  == [h EXCEPT !.rdwrt = c]
Shut(h) == [h EXCEPT !.rdwrt = "0", !.pos = 0]
Wrote(h, n) == [h EXCEPT !.pos = @ + n]

\* pwcm->hdus[i]->header: the block opened last, also once it is handed over.
Header(h) == IF h.open # <<>> THEN h.open[Len(h.open)] ELSE h.sent[Len(h.sent)]
\* ipcbuf_get_next_write, which waits as long as every block is open.
HeaderRoom == \A i \in Hdus : Len(hdu[i].open) < NHDR
Opens(h, utc) == [h EXCEPT !.open = Append(@, utc)]
\* UTC_START is set in the header block that was opened last;
\* ipcbuf_mark_filled hands over the first.
Dates(h, utc) == [h EXCEPT !.open[Len(h.open)] = utc]
Sends(h) == [h EXCEPT !.open = Tail(@), !.sent = Append(@, Head(h.open))]

\* header_valid_function: never content while UTC_START is "UNKNOWN", and it may
\* ask for more.
HeaderValid(utc) == IF utc = 0 THEN {FALSE} ELSE BOOLEAN

\* dada_pwc_set_state, called in prepared, first stores the UTC.
StoresUtc ==
    /\ \/ At("prepared") /\ pwcm.command.code \in {"reset", "stop"}
       \/ At("started") \/ At("unprepared") \/ At("failed")
    /\ ~pwcm.stored /\ pwcm' = [pwcm EXCEPT !.stored = TRUE]
    /\ StoreUtc(IF At("started") THEN pwcm.utc_buffer ELSE 0)
    /\ UNCHANGED <<hdu, read>>

\* Then it sets the state, and pc moves on.
Sets(new, l) ==
    /\ state = "prepared" => pwcm.stored
    /\ SetState(new)
    /\ pwcm' = [pwcm EXCEPT !.stored = FALSE, !.pc = l]

-----------------------------------------------------------------------------
(* dada_pwc_main_multi_prepare.                                            *)

\* The next header blocks are opened, and then the Data Blocks closed.
Prepare ==
    LET opens(h) == [Opens(h, 0) EXCEPT !.sent = <<>>]
        both(h)  == Shut(opens(h))
    IN  /\ At("prepare") /\ UNCHANGED <<pwcvars, read>>
        /\ \/ quit /\ Goto("exit") /\ UNCHANGED hdu
           \/ /\ ~quit /\ HeaderRoom /\ ForAll(both)
              /\ pwcm' = [pwcm EXCEPT !.pc = "get",
                            !.tidy = \A i \in Hdus : hdu[i].open = <<>>]
           \/ /\ ~quit /\ HeaderRoom /\ "ipcio" \in Faults
              /\ \E k \in Hdus :
                   /\ hdu[k].rdwrt # "0"
                   /\ hdu' = [i \in Hdus |-> IF i < k THEN both(hdu[i])
                                             ELSE opens(hdu[i])]
              /\ Returns("unprepared", -2)

PrepareLoop ==
    /\ At("get")
    /\ Goto(IF quit THEN "exit" ELSE "getting")
    /\ UNCHANGED <<pwcvars, hdu, read>>

PrepareWaits == At("getting") /\ GetWait /\ UNCHANGED multivars

PrepareGets ==
    /\ At("getting") /\ Get
    /\ pwcm' = [pwcm EXCEPT !.command = command,
                            !.pc = IF quit THEN "exit" ELSE "prepared"]
    /\ UNCHANGED <<state, quit, utc_start, rate, waiting, hdu, read>>

PrepareDoes ==
    LET code == pwcm.command.code
        opens(h) == Mode(h, IF code = "clock" THEN "w" ELSE "W")
    IN  /\ At("prepared")
        /\ UNCHANGED <<command, quit, rate, client, issued, accepted, taken>>
        /\ \/ /\ code \in {"reset", "stop"}
              /\ Sets("idle", "get") /\ UNCHANGED <<hdu, read>>
           \/ /\ code = "header"
              /\ SetState("prepared") /\ Goto("get") /\ UNCHANGED <<hdu, read>>
           \/ /\ code \in {"clock", "start"}
              /\ ForAll(opens) /\ read' = 0
              /\ Goto("start") /\ UNCHANGED <<state, waiting, utc_start>>
           \/ /\ code \in {"clock", "start"} /\ "ipcio" \in Faults
              /\ \E k \in Hdus : UpTo(k, opens)
              /\ Returns("unprepared", -2)
              /\ UNCHANGED <<state, waiting, utc_start, read>>
           \/ /\ code \notin {"reset", "stop", "header", "clock", "start"}
              /\ Returns("unprepared", -2)
              /\ UNCHANGED <<state, waiting, utc_start, hdu, read>>

-----------------------------------------------------------------------------
(* dada_pwc_main_multi_start_transfer, and the entry of transfer_data.     *)

StartTransfer ==
    /\ At("start")
    /\ UNCHANGED <<state, command, quit, rate, waiting, client, issued,
                   accepted, taken, read>>
    /\ \/ "start" \in Faults /\ Returns("failed", -2) /\ UNCHANGED <<utc_start, hdu>>
       \/ \E utc \in {0, FirstUtc} :
          \E valid \in IF pwcm.command.code = "start" THEN HeaderValid(utc)
                       ELSE {FALSE} :
             LET f(h) == IF valid THEN Sends(Dates(h, utc)) ELSE Dates(h, utc)
             IN  /\ ForAll(f)
                 /\ utc_start' = IF utc = 0 THEN utc_start ELSE utc
                 /\ pwcm' = [pwcm EXCEPT !.header_valid = valid, !.utc_buffer = utc,
                                         !.pc = "started"]

Started ==
    LET new == IF pwcm.command.code = "start" THEN "recording" ELSE "clocking"
    IN  /\ At("started") /\ (state = "prepared" => pwcm.stored)
        /\ SetState(new)
        /\ pwcm' = [pwcm EXCEPT
              !.stored = FALSE, !.total = 0, !.rval = -1,
              !.pc = IF MayChange(state, new) THEN "loop" ELSE "failed",
              !.transit_byte = pwcm.command.byte_count,
              !.bytes_to_write = pwcm.command.byte_count,
              !.buf_bytes = 0, !.buffer_size = 0]
        /\ UNCHANGED <<command, quit, rate, client, issued, accepted, taken,
                       hdu, read>>

-----------------------------------------------------------------------------
(* dada_pwc_main_multi_transfer_data.                                      *)

TransferQuits ==
    /\ At("loop") /\ quit
    /\ Returns("stop", 0)
    /\ UNCHANGED <<pwcvars, hdu, read>>

NoCommand ==
    /\ At("loop") /\ ~quit /\ command.code = "no_command"
    /\ Goto("buffer")
    /\ UNCHANGED <<pwcvars, hdu, read>>

\* Mutant: the header is completed but not handed over.
TakeUtcStartUnsent ==
    LET first == pwcm.utc_buffer = 0
        f(h) == IF first THEN Dates(h, command.utc) ELSE h
    IN  /\ At("loop") /\ ~quit /\ command.code = "set_utc_start"
        /\ Get /\ Signal
        /\ \E valid \in IF first /\ state = "recording" THEN HeaderValid(command.utc)
                        ELSE {pwcm.header_valid} :
             pwcm' = [pwcm EXCEPT !.command = command, !.header_valid = valid,
                  !.utc_buffer = IF first THEN command.utc ELSE @, !.pc = "buffer"]
        /\ ForAll(f)
        /\ UNCHANGED <<state, quit, utc_start, rate, read>>

TakeUtcStart ==
    LET first == pwcm.utc_buffer = 0
        records == first /\ state = "recording"
        utc == command.utc
    IN  /\ At("loop") /\ ~quit /\ command.code = "set_utc_start"
        /\ Get /\ Signal
        /\ \E valid \in IF records THEN HeaderValid(utc) ELSE {pwcm.header_valid} :
           LET f(h) == IF ~first THEN h
                       ELSE IF records /\ valid THEN Sends(Dates(h, utc))
                       ELSE Dates(h, utc)
           IN  /\ pwcm' = [pwcm EXCEPT !.command = command, !.header_valid = valid,
                      !.utc_buffer = IF first THEN utc ELSE @, !.pc = "buffer"]
               /\ ForAll(f)
        /\ UNCHANGED <<state, quit, utc_start, rate, read>>

\* A command that takes effect at once has the transit byte total, which is 0
\* as long as nothing was written.
TakeCommand ==
    LET n == command.byte_count
        later == n > pwcm.total
    IN  /\ At("loop") /\ ~quit
        /\ command.code \in {"record_start", "record_stop", "stop"}
        /\ Get
        /\ pwcm' = [pwcm EXCEPT !.command = command, !.pc = "buffer",
                      !.transit_byte = IF later THEN n ELSE pwcm.total,
                      !.bytes_to_write = IF later THEN n - pwcm.total ELSE 0]
        /\ UNCHANGED <<state, quit, utc_start, rate, waiting, hdu, read>>

TakeUnexpected ==
    /\ At("loop") /\ ~quit
    /\ command.code \in {"header", "clock", "start", "reset", "exit"}
    /\ Get
    /\ pwcm' = [pwcm EXCEPT !.command = command, !.pc = "failed", !.rval = -2]
    /\ UNCHANGED <<state, quit, utc_start, rate, waiting, hdu, read>>

BufBytes ==
    IF pwcm.transit_byte # 0 /\ BUFFER > pwcm.bytes_to_write
    THEN pwcm.bytes_to_write ELSE BUFFER

Due == pwcm.transit_byte = 0 \/ pwcm.bytes_to_write > 0

\* After buffer_function a header that is not yet valid is looked at again, and
\* handed over.
HeaderTest ==
    IF pwcm.header_valid \/ state # "recording" THEN {pwcm.header_valid}
    ELSE HeaderValid(pwcm.utc_buffer)
Tested(h, valid) == IF valid /\ ~pwcm.header_valid THEN Sends(h) ELSE h

\* Mutant: the same number of bytes goes to the first HDU only.
BufferFirst ==
    LET n == BufBytes
    IN  /\ At("buffer") /\ Due /\ read + BUFFER <= MaxBytes
        /\ \E valid \in HeaderTest :
             /\ hdu' = [i \in Hdus |-> Wrote(Tested(hdu[i], valid), IF i = 1 THEN n ELSE 0)]
             /\ pwcm' = [pwcm EXCEPT !.header_valid = valid,
                   !.buffer_size = BUFFER, !.buf_bytes = n, !.total = @ + n,
                   !.bytes_to_write = IF @ > n THEN @ - n ELSE 0, !.pc = "transit"]
        /\ read' = read + BUFFER
        /\ UNCHANGED pwcvars

Buffer ==
    LET n == BufBytes
    IN  /\ At("buffer") /\ Due /\ read + BUFFER <= MaxBytes
        /\ \E valid \in HeaderTest :
           LET f(h) == Wrote(Tested(h, valid), n)
           IN  /\ ForAll(f)
               /\ pwcm' = [pwcm EXCEPT !.header_valid = valid,
                     !.buffer_size = BUFFER, !.buf_bytes = n, !.total = @ + n,
                     !.bytes_to_write = IF @ > n THEN @ - n ELSE 0, !.pc = "transit"]
        /\ read' = read + BUFFER
        /\ UNCHANGED pwcvars

BufferNotDue ==
    /\ At("buffer") /\ ~Due
    /\ Goto("transit")
    /\ UNCHANGED <<pwcvars, hdu, read>>

\* The instrument gives no data, and error_function asks to try again.
BufferEmpty ==
    /\ At("buffer") /\ Due /\ "retry" \in Faults
    /\ \E valid \in HeaderTest :
       LET f(h) == Tested(h, valid)
       IN  /\ ForAll(f)
           /\ pwcm' = [pwcm EXCEPT !.header_valid = valid, !.buffer_size = 0,
                                   !.buf_bytes = 0, !.pc = "transit"]
    /\ UNCHANGED <<pwcvars, read>>

\* The instrument gives no data for good (one byte goes to every HDU) or no buffers;
\* or a Data Block cannot be written, or is full while UTC_START is unknown, after
\* others have been written.
BufferFails ==
    LET one(h) == Wrote(h, 1)
    IN  /\ At("buffer") /\ Due /\ UNCHANGED <<pwcvars, read>>
        /\ \/ "buffer" \in Faults /\ Returns("failed", -1) /\ ForAll(one)
           \/ "buffer" \in Faults /\ Returns("failed", -2) /\ UNCHANGED hdu
           \/ /\ "write" \in Faults \/ pwcm.utc_buffer = 0
              /\ Returns("failed", -3)
              /\ \E k \in Hdus, valid \in HeaderTest :
                   hdu' = [i \in Hdus |->
                      LET h == Tested(hdu[i], valid)
                      IN  IF i < k THEN Wrote(h, BufBytes) ELSE h]

\* The transit byte 0 is reached by an empty transfer only.
Reached == pwcm.transit_byte = pwcm.total

NotReached ==
    /\ At("transit") /\ ~Reached
    /\ Goto("loop")
    /\ UNCHANGED <<pwcvars, hdu, read>>

\* dada_pwc_main_multi_record_start: for every HDU a header block is opened with a
\* copy of the header; then one after the other is dated and its Data Block
\* started; and the first header of the observation is handed over.
RecordStart ==
    LET opened(h) == Opens(h, Header(h))
        dated(h)  == Dates(opened(h), pwcm.command.utc)
        starts(h) == Mode(dated(h), "W")
        sends(h)  == IF pwcm.header_valid THEN starts(h) ELSE Sends(starts(h))
        tidy == pwcm.tidy /\ pwcm.utc_buffer # 0
    IN  /\ At("transit") /\ Reached /\ pwcm.command.code = "record_start"
        /\ HeaderRoom
        /\ \/ /\ \A i \in Hdus : hdu[i].rdwrt = "w"
              /\ ForAll(sends)
              /\ SetState("recording")
              /\ pwcm' = [pwcm EXCEPT !.header_valid = TRUE, !.pc = "rest",
                                      !.transit_byte = 0, !.tidy = tidy]
           \/ /\ \A i \in Hdus : hdu[i].rdwrt = "w"
              /\ ~pwcm.header_valid             \* nor is it valid now
              /\ ForAll(starts)
              /\ Returns("failed", -2)
              /\ UNCHANGED <<state, waiting, utc_start>>
           \/ /\ \E k \in Hdus :
                   /\ \A i \in 1..(k - 1) : hdu[i].rdwrt = "w"
                   /\ hdu[k].rdwrt # "w" \/ "ipcio" \in Faults
                   /\ hdu' = [i \in Hdus |-> IF i < k THEN starts(hdu[i])
                                             ELSE IF i = k THEN dated(hdu[i])
                                             ELSE opened(hdu[i])]
              /\ Returns("failed", -2)
              /\ UNCHANGED <<state, waiting, utc_start>>
        /\ UNCHANGED <<command, quit, rate, client, issued, accepted, taken,
                       read>>

\* Mutant: only the first Data Block is stopped.
RecordStopFirst ==
    LET stops(h) == Mode(h, "w")
    IN  /\ At("transit") /\ Reached /\ pwcm.command.code = "record_stop"
        /\ hdu[1].rdwrt = "W" /\ UpTo(2, stops)
        /\ SetState("clocking")
        /\ pwcm' = [pwcm EXCEPT !.pc = "rest", !.transit_byte = 0]
        /\ UNCHANGED <<command, quit, rate, client, issued, accepted, taken,
                       read>>

RecordStop ==
    LET stops(h) == Mode(h, "w")
    IN  /\ At("transit") /\ Reached /\ pwcm.command.code = "record_stop"
        /\ \/ /\ \A i \in Hdus : hdu[i].rdwrt = "W"
              /\ ForAll(stops)
              /\ SetState("clocking")
              /\ pwcm' = [pwcm EXCEPT !.pc = "rest", !.transit_byte = 0]
           \/ /\ \E k \in Hdus :
                   /\ \A i \in 1..(k - 1) : hdu[i].rdwrt = "W"
                   /\ hdu[k].rdwrt # "W" \/ "ipcio" \in Faults
                   /\ UpTo(k, stops)
              /\ Returns("failed", -3)
              /\ UNCHANGED <<state, waiting, utc_start>>
        /\ UNCHANGED <<command, quit, rate, client, issued, accepted, taken,
                       read>>

\* A stop returns; before any data was written there is nothing to do, and the
\* end of a recording with a duration does not expect START.
TransitReturns ==
    /\ At("transit") /\ Reached
    /\ pwcm.command.code \notin {"record_start", "record_stop"}
    /\ \/ pwcm.command.code = "stop" /\ Returns("stop", 0)
       \/ /\ pwcm.command.code # "stop" /\ pwcm.total = 0
          /\ pwcm' = [pwcm EXCEPT !.pc = "rest", !.transit_byte = 0]
       \/ /\ pwcm.command.code # "stop" /\ pwcm.total > 0
          /\ Returns("failed", -2)
    /\ UNCHANGED <<pwcvars, hdu, read>>

\* The rest of the buffer is written, and refused as too short unless it has at
\* least the bytes written before; those are then counted again.  A write that
\* fails is not noticed: its -1 is compared as an unsigned number.
WriteRest ==
    LET rest == pwcm.buffer_size - pwcm.buf_bytes
        f(h) == Wrote(h, rest)
        goes(lost) == pwcm' = [pwcm EXCEPT !.total = @ + pwcm.buf_bytes,
                                           !.lost = @ \/ lost, !.pc = "loop"]
    IN  /\ At("rest") /\ UNCHANGED <<pwcvars, read>>
        /\ \/ pwcm.buf_bytes = 0 /\ Goto("loop") /\ UNCHANGED hdu
           \/ /\ pwcm.buf_bytes > 0 /\ rest >= pwcm.buf_bytes
              /\ ForAll(f) /\ goes(FALSE)
           \/ /\ pwcm.buf_bytes > 0 /\ rest >= pwcm.buf_bytes /\ "write" \in Faults
              /\ \E k \in Hdus :
                   hdu' = [i \in Hdus |-> IF i = k THEN hdu[i] ELSE f(hdu[i])]
              /\ goes(TRUE)
           \/ /\ pwcm.buf_bytes > 0 /\ rest < pwcm.buf_bytes /\ UpTo(2, f)
              /\ Returns("failed", -3)
           \/ /\ pwcm.buf_bytes > 0 /\ pwcm.utc_buffer = 0
              /\ \E k \in Hdus : (k > 1 => rest >= pwcm.buf_bytes) /\ UpTo(k, f)
              /\ Returns("failed", -3)

-----------------------------------------------------------------------------
(* dada_pwc_main_multi_process_error, stop_transfer and the loop.          *)

ErrorState(s, rval) ==
    IF rval = -3 \/ s = "fatal_error" THEN "fatal_error"
    ELSE IF rval = -2 \/ s = "hard_error" THEN "hard_error" ELSE "soft_error"

ProcessError ==
    /\ At("unprepared") \/ At("failed") \/ At("unstopped")
    /\ Sets(ErrorState(state, pwcm.rval), IF At("failed") THEN "stop" ELSE "round")
    /\ UNCHANGED <<command, quit, rate, client, issued, accepted, taken,
                   hdu, read>>

StopTransfer ==
    /\ At("stop")
    /\ \/ /\ "stop" \in Faults
          /\ pwcm' = [pwcm EXCEPT !.header_valid = FALSE, !.pc = "unstopped",
                                  !.rval = -2]
          /\ UNCHANGED <<state, waiting, utc_start, hdu>>
       \/ /\ "ipcio" \in Faults
          /\ pwcm' = [pwcm EXCEPT !.header_valid = FALSE, !.pc = "unstopped",
                                  !.rval = -3]
          /\ \E k \in Hdus : UpTo(k, Shut)
          /\ UNCHANGED <<state, waiting, utc_start>>
       \/ /\ pwcm' = [pwcm EXCEPT !.header_valid = FALSE, !.pc = "round"]
          /\ ForAll(Shut)
          /\ IF state \in {"soft_error", "hard_error", "fatal_error"}
             THEN UNCHANGED <<state, waiting, utc_start>>
             ELSE SetState("idle")
    /\ UNCHANGED <<command, quit, rate, client, issued, accepted, taken, read>>

\* The locals of transfer_data are gone at the end of a round.
Round ==
    /\ At("round")
    /\ quit' = (quit \/ state = "fatal_error")
    /\ pwcm' = [pwcm EXCEPT !.pc = "prepare", !.transit_byte = 0,
            !.bytes_to_write = 0, !.total = 0, !.buf_bytes = 0, !.buffer_size = 0,
            !.utc_buffer = 0, !.lost = FALSE, !.rval = 0]
    /\ UNCHANGED <<state, command, utc_start, rate, waiting, client, issued,
                   accepted, taken, hdu, read>>

-----------------------------------------------------------------------------
ClientCall(c) ==
    \/ CmdHeader(c) \/ CmdStart(c) \/ CmdQuit(c)
    \/ \E code \in {"clock", "reset"} : CmdPlain(c, code)
    \/ \E code \in {"record_start", "record_stop", "stop"},
          utc \in Times \cup {0} : CmdDated(c, code, utc)
    \/ \E utc \in Times : CmdSetUtcStart(c, utc)
    \/ \E n \in 1..2 : CmdDuration(c, n)

MultiStep ==
    \/ Prepare \/ PrepareLoop \/ PrepareWaits \/ PrepareGets \/ PrepareDoes
    \/ StoresUtc \/ StartTransfer \/ Started
    \/ TransferQuits \/ NoCommand \/ TakeUtcStart \/ TakeCommand \/ TakeUnexpected
    \/ Buffer \/ BufferNotDue \/ BufferEmpty \/ BufferFails
    \/ NotReached \/ RecordStart \/ RecordStop \/ TransitReturns \/ WriteRest
    \/ ProcessError \/ StopTransfer \/ Round

\* The program has ended, or waits for a command, or for the instrument, or for a
\* block of a Header Block.
MultiRest ==
    /\ \/ At("exit") \/ "main" \in waiting
       \/ At("buffer") /\ read + BUFFER > MaxBytes
       \/ ~HeaderRoom
    /\ UNCHANGED <<pwcvars, multivars>>

MultiNext ==
    \/ \E c \in Clients : (ClientCall(c) \/ ClientStep(c)) /\ UNCHANGED multivars
    \/ MultiStep
    \/ MultiRest

MultiSpec == MultiInit /\ [][MultiNext]_<<pwcvars, multivars>>

-----------------------------------------------------------------------------
\* The HDUs stay in step: whenever the loop looks for a command, or the program
\* waits for one, all Data Blocks are open in the same mode and hold the same
\* number of bytes, and all Header Blocks have as many blocks open and handed
\* over, whichever HDU an ipcio function failed for before; only a failed write
\* of the rest of a buffer (dada_pwc_main_multi.c:956-962) goes on with one Data
\* Block behind the others.
HdusInStep ==
    At("loop") \/ At("get") => \A i, j \in Hdus :
        /\ hdu[i].rdwrt = hdu[j].rdwrt
        /\ pwcm.lost \/ hdu[i].pos = hdu[j].pos
        /\ Len(hdu[i].open) = Len(hdu[j].open)
        /\ Len(hdu[i].sent) = Len(hdu[j].sent)

\* What the state says of the data is true for every HDU.
AllHdusRecord ==
    At("loop") => \A i \in Hdus :
        /\ state = "recording" => hdu[i].rdwrt = "W"
        /\ state = "clocking"  => hdu[i].rdwrt = "w"

\* While the client records with a header that was found valid, every HDU has
\* handed one over; and if the headers are tidy it is exactly one, that of the
\* UTC_START that START, CLOCK or SET_UTC_START gave, and none before it was found
\* valid.  It is not the header that REC_START completes, which stays open (the
\* comment at dada_pwc_main_multi.c:441-443 says that it goes out); and if the
\* headers are not tidy, a block that was opened before goes out in its place.
HeaderHandedOver ==
    At("loop") /\ state = "recording" => \A i \in Hdus :
        /\ pwcm.header_valid => hdu[i].sent # <<>>
        /\ pwcm.tidy =>
             hdu[i].sent = IF pwcm.header_valid THEN <<pwcm.utc_buffer>> ELSE <<>>
=============================================================================
