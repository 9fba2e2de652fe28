------------------------------- MODULE IpcIO -------------------------------
(***************************************************************************)
(* The byte streams of src/src/ipcio.c on top of the ring buffer: open,    *)
(* start, write, stop and close for the writer, read and seek for the      *)
(* readers, and direct access to whole blocks for both.                    *)
(*                                                                         *)
(* A function of ipcio.c is a sequence of steps: its own code between two  *)
(* calls of ipcbuf.c is one step, and each call of ipcbuf.c is the action  *)
(* of IpcBuf followed by that library's own steps.                         *)
(***************************************************************************)
EXTENDS IpcBuf, Sequences

CONSTANTS
    Sizes,      \* client: the numbers of bytes written or read at a time
    Api         \* client: which of the optional behaviours below occur

(***************************************************************************)
(* "blocks"  blocks are opened and closed directly                         *)
(* "seek"    readers seek back                                             *)
(***************************************************************************)
ASSUME ApiAssumption ==
    Sizes \subseteq Nat \ {0} /\ Api \subseteq {"blocks", "seek"}

VARIABLES
    io,     \* ipcio_t of each process, and where it is in ipcio.c
    wpos,   \* history: the position in the stream of the writer's next byte
    rpos,   \* history: the position of the next byte each reader should get
    want,   \* history: from where and up to where each transfer should run
    mem     \* history: the position of each byte in the ring

iovars == <<io, wpos, rpos, want, mem>>

NULL == -1
Closed == [rdwrt |-> "0", bytes |-> 0, curbuf |-> NULL, curbufsz |-> 0,
           marked_filled |-> FALSE, sod_pending |-> FALSE, sod_buf |-> 0,
           sod_byte |-> 0, buf_ptrs |-> <<>>, op |-> "none", left |-> 0]

\* ipcio_create or ipcio_connect, which call ipcio_init.
IoInit ==
    /\ Init
    /\ io = [p \in Procs |-> Closed]
    /\ wpos = [p \in Procs |-> 0] /\ rpos = [p \in Procs |-> 0]
    /\ want = [x \in 0..MaxXfer |-> [from |-> NULL, upto |-> NULL]]
    /\ mem = [b \in Bufs |-> [k \in 0..(BUFSZ - 1) |-> NULL]]

\* p is not inside a call of ipcio.c, or inside one and not in ipcbuf.c.
Free(p) == io[p].op = "none" /\ pc[p] \in {"idle", "have"}
In(p, op) == io[p].op = op /\ pc[p] \in {"idle", "have"}

-----------------------------------------------------------------------------
(* Calls of ipcbuf.c that several functions make.                          *)

\* ipcbuf_mark_filled, and what it means for the stream: a short block ends
\* the transfer.
Filled(p, n) ==
    /\ IF state[p] = "WRITER" THEN MarkFilledClocked(p) ELSE MarkFilled(p, n)
    /\ want' = IF state[p] = "WCHANGE" \/ (state[p] = "WRITING" /\ n < BUFSZ)
               THEN [want EXCEPT ![w_xfer].upto = wpos'[p]] ELSE want

\* ipcbuf_get_next_write, which raises start of data in state WCHANGE.
NextWrite(p) ==
    /\ GetNextWrite(p)
    /\ want' = IF state[p] = "WCHANGE"
               THEN [want EXCEPT ![w_xfer].from = wpos[p]] ELSE want

\* The test of ipcio_check_pending_sod.
SodDue(p) == io[p].sod_pending /\ w_buf_curr > io[p].sod_buf

\* Mutant: start of data is raised at the beginning of the block.
PendingSodAtBlock(p, op, next) ==
    /\ In(p, op)
    /\ \/ /\ SodDue(p)
          /\ EnableSod(p, io[p].sod_buf, 0)
          /\ io' = [io EXCEPT ![p].sod_pending = FALSE, ![p].op = next]
       \/ /\ ~SodDue(p)
          /\ io' = [io EXCEPT ![p].op = next]
          /\ UNCHANGED vars
    /\ UNCHANGED <<wpos, rpos, want, mem>>

\* ipcio_check_pending_sod, in the function at "op", which goes on at "next".
CheckPendingSod(p, op, next) ==
    /\ In(p, op)
    /\ \/ /\ SodDue(p)
          /\ EnableSod(p, io[p].sod_buf, io[p].sod_byte)
          /\ io' = [io EXCEPT ![p].sod_pending = FALSE, ![p].op = next]
       \/ /\ ~SodDue(p)
          /\ io' = [io EXCEPT ![p].op = next]
          /\ UNCHANGED vars
    /\ UNCHANGED <<wpos, rpos, want, mem>>

\* The bytes at stream positions from..from+n-1 are stored in block b at k.
Store(b, k, n, from) ==
    mem' = [mem EXCEPT ![b % NBUFS] =
                [j \in DOMAIN @ |-> IF j \in k..(k + n - 1) THEN from + (j - k)
                                                            ELSE @[j]]]

-----------------------------------------------------------------------------
(* The writer: ipcio_open, ipcio_start.                                    *)

OpenWrite(p, mode) ==
    /\ Free(p) /\ p \in Writers /\ io[p].rdwrt = "0"
    /\ w_xfer < MaxXfer /\ w_buf_next < MaxBlock
    /\ LockWrite(p)
    /\ io' = [io EXCEPT ![p].op = IF mode = "w" THEN "open_w" ELSE "open_W",
                        ![p].bytes = 0, ![p].curbuf = NULL]
    /\ UNCHANGED <<wpos, rpos, want, mem>>

OpenedWrite(p) ==
    /\ \/ In(p, "open_w") /\ DisableSod(p)
          /\ io' = [io EXCEPT ![p].op = "clock", ![p].rdwrt = "w"]
       \/ In(p, "open_W") /\ UNCHANGED vars
          /\ io' = [io EXCEPT ![p].op = "none", ![p].rdwrt = "W"]
    /\ wpos' = [wpos EXCEPT ![p] = w_buf_next * BUFSZ]
    /\ UNCHANGED <<rpos, want, mem>>

\* The client notes where its clocking starts, as dada_pwc_main.c does.
StartClocking(p) ==
    /\ In(p, "clock") /\ SetSoclockBuf(p)
    /\ io' = [io EXCEPT ![p].op = "none"]
    /\ UNCHANGED <<wpos, rpos, want, mem>>

\* ipcio_start at an absolute byte.  Clients ask for bytes they have written
\* or are about to write, after the last transfer and still in the ring, and
\* not in a block that ipcio_stop has handed over and that is still being filled.
Start(p, byte) ==
    /\ Free(p) /\ io[p].rdwrt = "w" /\ state[p] = "WRITER" /\ w_xfer < MaxXfer
    /\ byte <= wpos[p] /\ byte \div BUFSZ >= SodMinbuf(p) /\ byte >= BUFSZ
    /\ w_xfer > 0 => byte >= want[w_xfer - 1].upto
    /\ ~io[p].marked_filled \/ io[p].bytes = BUFSZ \/ byte \div BUFSZ # io[p].curbuf
    /\ io' = [io EXCEPT ![p].sod_buf = byte \div BUFSZ,
                        ![p].sod_byte = byte % BUFSZ,
                        ![p].sod_pending = TRUE, ![p].rdwrt = "W",
                        ![p].op = "start_sod"]
    /\ want' = [want EXCEPT ![w_xfer].from = byte]
    /\ UNCHANGED <<vars, wpos, rpos, mem>>

\* A short block ended the transfer: the client's next call is ipcio_close.
Ended(p) == io[p].rdwrt = "W" /\ state[p] = "WRITER" /\ ~io[p].sod_pending

-----------------------------------------------------------------------------
(* The writer: ipcio_write.                                                *)

Write(p, n) ==
    /\ Free(p) /\ io[p].rdwrt \in {"w", "W"} /\ io[p].buf_ptrs = <<>>
    /\ ~Ended(p)
    /\ wpos[p] + n <= MaxBlock * BUFSZ
    /\ io' = [io EXCEPT ![p].op = "write", ![p].left = n]
    /\ UNCHANGED <<vars, wpos, rpos, want, mem>>

\* A block that the previous bytes filled is handed over only now, so that
\* ipcio_stop can still end the transfer with it.
WriteFilled(p) ==
    /\ In(p, "write") /\ io[p].left > 0 /\ io[p].bytes = BUFSZ
    /\ ~io[p].marked_filled
    /\ UNCHANGED <<wpos, rpos, mem>>
    /\ Filled(p, BUFSZ)
    /\ io' = [io EXCEPT ![p].op = "write_sod"]

\* Mutant: whether the block was marked filled before is not looked at.
WriteNextAlways(p) ==
    /\ \/ In(p, "write") /\ io[p].left > 0 /\ io[p].bytes = BUFSZ
       \/ In(p, "write_next")
    /\ io' = [io EXCEPT ![p].curbuf = NULL, ![p].bytes = 0,
                        ![p].marked_filled = TRUE, ![p].op = "write"]
    /\ UNCHANGED <<vars, wpos, rpos, want, mem>>

WriteNext(p) ==
    /\ \/ /\ In(p, "write") /\ io[p].left > 0 /\ io[p].bytes = BUFSZ
          /\ io[p].marked_filled
       \/ In(p, "write_next")
    /\ io' = [io EXCEPT ![p].curbuf = NULL, ![p].bytes = 0,
                        ![p].marked_filled = TRUE, ![p].op = "write"]
    /\ UNCHANGED <<vars, wpos, rpos, want, mem>>

WriteGet(p) ==
    /\ In(p, "write") /\ io[p].left > 0 /\ io[p].bytes < BUFSZ
    /\ io[p].curbuf = NULL
    /\ NextWrite(p)
    /\ io' = [io EXCEPT ![p].op = "write_got"]
    /\ UNCHANGED <<wpos, rpos, mem>>

\* The block that ipcbuf_get_next_write returned becomes the current one.
GotBlock(p) ==
    /\ In(p, "write_got") \/ In(p, "stop_got")
    /\ io' = [io EXCEPT ![p].curbuf = w_buf_next - 1, ![p].bytes = 0,
                        ![p].marked_filled = FALSE,
                        ![p].op = IF @ = "write_got" THEN "write" ELSE "stop"]
    /\ UNCHANGED <<vars, wpos, rpos, want, mem>>

WriteCopy(p) ==
    LET room  == BUFSZ - io[p].bytes
        space == IF room > io[p].left THEN io[p].left ELSE room
    IN  /\ In(p, "write") /\ io[p].left > 0 /\ space > 0 /\ io[p].curbuf # NULL
        /\ Store(io[p].curbuf, io[p].bytes, space, wpos[p])
        /\ wpos' = [wpos EXCEPT ![p] = @ + space]
        /\ io' = [io EXCEPT ![p].bytes = @ + space, ![p].left = @ - space]
        /\ UNCHANGED <<vars, rpos, want>>

WriteReturn(p) ==
    /\ In(p, "write") /\ io[p].left = 0
    /\ io' = [io EXCEPT ![p].op = "none"]
    /\ UNCHANGED <<vars, wpos, rpos, want, mem>>

-----------------------------------------------------------------------------
(* The writer: ipcio_open_block_write and ipcio_close_block_write.         *)

OpenBlockWrite(p) ==
    /\ "blocks" \in Api /\ Free(p) /\ io[p].rdwrt = "W" /\ io[p].bytes = 0
    /\ ~Ended(p)
    /\ io[p].curbuf = NULL \/ io[p].buf_ptrs # <<>>
    /\ Len(io[p].buf_ptrs) < NBUFS - 1                      \* bufs_opened_max
    /\ NextWrite(p)
    /\ io' = [io EXCEPT ![p].op = "openb_got"]
    /\ UNCHANGED <<wpos, rpos, mem>>

OpenedBlockWrite(p) ==
    LET b == w_buf_next - 1
    IN  /\ In(p, "openb_got")
        /\ io' = [io EXCEPT
              ![p].buf_ptrs = Append(@, b), ![p].op = "none",
              ![p].curbuf = IF io[p].buf_ptrs = <<>> THEN b ELSE @,
              ![p].marked_filled = IF io[p].buf_ptrs = <<>> THEN FALSE ELSE @]
        /\ UNCHANGED <<vars, wpos, rpos, want, mem>>

\* ipcio_close_block_write, called by the client or (with a full block) from
\* ipcio_stop: n bytes of the first open block are valid.
CloseBlock(p, n, next) ==
    /\ io[p].bytes = 0 /\ io[p].curbuf # NULL /\ ~io[p].marked_filled
    /\ Store(io[p].curbuf, 0, n, wpos[p])
    /\ wpos' = [wpos EXCEPT ![p] = @ + n]
    /\ Filled(p, n)
    /\ io' = [io EXCEPT ![p].bytes = n, ![p].op = next]
    /\ UNCHANGED rpos

CloseBlockWrite(p, n) ==
    /\ "blocks" \in Api /\ Free(p) /\ io[p].rdwrt = "W" /\ io[p].buf_ptrs # <<>>
    /\ n < BUFSZ => Len(io[p].buf_ptrs) = 1 /\ state[p] = "WRITING"  \* client
    /\ CloseBlock(p, n, "closeb_sod")

\* The rest of ipcio_close_block_write: the next open block moves up.
ClosedBlock(p, op, next) ==
    /\ In(p, op)
    /\ io' = [io EXCEPT
          ![p].buf_ptrs = Tail(@), ![p].op = next, ![p].bytes = 0,
          ![p].curbuf = IF Len(io[p].buf_ptrs) = 1 THEN NULL
                                                   ELSE io[p].buf_ptrs[2],
          ![p].marked_filled = Len(io[p].buf_ptrs) = 1]
    /\ UNCHANGED <<vars, wpos, rpos, want, mem>>

\* ipcio_update_block_write: the client notes that the block holds n bytes and
\* leaves it to ipcio_close to end the transfer with it.
UpdateBlockWrite(p, n) ==
    /\ "blocks" \in Api /\ Free(p) /\ io[p].rdwrt = "W" /\ state[p] = "WRITING"
    /\ io[p].bytes = 0 /\ io[p].curbuf # NULL /\ io[p].buf_ptrs # <<>>
    /\ Store(io[p].curbuf, 0, n, wpos[p])
    /\ wpos' = [wpos EXCEPT ![p] = @ + n]
    /\ io' = [io EXCEPT ![p].bytes = n]
    /\ UNCHANGED <<vars, rpos, want>>

-----------------------------------------------------------------------------
(* The writer: ipcio_stop and ipcio_close.                                 *)

\* Clients call ipcio_stop when data of the transfer is in a block of its own,
\* and ipcio_close also when nothing was written.
Stop(p, unlock) ==
    /\ Free(p) /\ io[p].rdwrt = "W"
    /\ ~io[p].sod_pending /\ (io[p].bytes > 0 \/ unlock)
    /\ state[p] = "WRITING" /\ io[p].marked_filled => io[p].bytes = 0
    /\ io[p].bytes = 0 => w_buf_next + 1 < MaxBlock
    /\ io' = [io EXCEPT ![p].op = "stop", ![p].left = IF unlock THEN 1 ELSE 0]
    /\ UNCHANGED <<vars, wpos, rpos, want, mem>>

\* Nothing was written: start of data is raised so that readers do not wait.
StopGet(p) ==
    /\ In(p, "stop") /\ state[p] = "WCHANGE" /\ io[p].curbuf = NULL
    /\ NextWrite(p)
    /\ io' = [io EXCEPT ![p].op = "stop_got"]
    /\ UNCHANGED <<wpos, rpos, mem>>

\* Blocks that were opened directly are closed as full ones.
StopCloses(p) ==
    /\ In(p, "stop") /\ state[p] = "WRITING" /\ io[p].buf_ptrs # <<>>
    /\ CloseBlock(p, BUFSZ, "stop_closed")

\* A block that was updated cannot be closed: the function returns an error,
\* after which the clients in this repository give up.
StopFails(p) ==
    /\ In(p, "stop") /\ state[p] = "WRITING" /\ io[p].buf_ptrs # <<>>
    /\ io[p].bytes # 0
    /\ io' = [io EXCEPT ![p].op = "failed"]
    /\ UNCHANGED <<vars, wpos, rpos, want, mem>>

StopEod(p) ==
    /\ In(p, "stop") /\ state[p] = "WRITING" /\ io[p].buf_ptrs = <<>>
    /\ EnableEod(p)
    /\ io' = [io EXCEPT ![p].op = "stop_eod"]
    /\ UNCHANGED <<wpos, rpos, want, mem>>

StopFilled(p) ==
    /\ io[p].op = "stop_eod" /\ pc[p] = "ending"
    /\ UNCHANGED <<wpos, rpos, mem>>
    /\ Filled(p, io[p].bytes)
    /\ io' = [io EXCEPT ![p].op = "stop_sod"]

\* Mutant: a last block that was filled is taken to be handed over.
StopReturnEarly(p) ==
    /\ In(p, "stop_end") \/ (In(p, "stop") /\ (state[p] # "WRITING" \/ io[p].bytes = BUFSZ))
    /\ io' = [io EXCEPT ![p].marked_filled = TRUE, ![p].rdwrt = "w",
                        ![p].curbuf = IF io[p].bytes = BUFSZ THEN NULL ELSE @,
                        ![p].op = IF io[p].left = 1 THEN "close" ELSE "none",
                        ![p].left = 0]
    /\ UNCHANGED <<vars, wpos, rpos, want, mem>>

\* The client goes on in 'w', or the function goes on to give up the role.
StopReturn(p) ==
    /\ \/ /\ In(p, "stop_end")
          /\ io' = [io EXCEPT
                ![p].marked_filled = TRUE, ![p].rdwrt = "w",
                ![p].curbuf = IF io[p].bytes = BUFSZ THEN NULL ELSE @,
                ![p].op = IF io[p].left = 1 THEN "close" ELSE "none",
                ![p].left = 0]
       \/ /\ In(p, "stop") /\ state[p] # "WRITING"
          /\ state[p] = "WCHANGE" => io[p].curbuf # NULL
          /\ io' = [io EXCEPT ![p].rdwrt = "w",
                ![p].op = IF io[p].left = 1 THEN "close" ELSE "none",
                ![p].left = 0]
    /\ UNCHANGED <<vars, wpos, rpos, want, mem>>

CloseWrite(p) ==
    /\ Free(p) /\ io[p].rdwrt = "w" /\ w_xfer > 0
    /\ io' = [io EXCEPT ![p].op = "close"]
    /\ UNCHANGED <<vars, wpos, rpos, want, mem>>

\* Blocks that were clocked in after the last end of data are dropped.
CloseRewinds(p) ==
    /\ In(p, "close")
    /\ IF w_xfer > 0
       THEN LET b == e_buf[(w_xfer - 1) % XFERS] + 1
            IN  w_buf_curr' = b /\ w_buf_next' = b
       ELSE UNCHANGED <<w_buf_curr, w_buf_next>>
    /\ io' = [io EXCEPT ![p].op = "unlock"]
    /\ UNCHANGED <<w_state, w_xfer, count, flags, rsync, consem, datasem, handle,
                   pc, i, args, order, hist, wpos, rpos, want, mem>>

CloseUnlocks(p) ==
    /\ In(p, "unlock") /\ UnlockWrite(p)
    /\ io' = [io EXCEPT ![p].op = "none", ![p].rdwrt = "0"]
    /\ UNCHANGED <<wpos, rpos, want, mem>>

-----------------------------------------------------------------------------
(* A reader.                                                               *)

OpenRead(p) ==
    /\ Free(p) /\ p \in Readers /\ io[p].rdwrt = "0"
    /\ LockRead(p)
    /\ io' = [io EXCEPT ![p].op = "none", ![p].rdwrt = "R", ![p].bytes = 0,
                        ![p].curbuf = NULL]
    /\ UNCHANGED <<wpos, rpos, want, mem>>

\* ipcbuf_get_next_read; a new transfer is read from where it should start.
NextRead(p, next) ==
    /\ io[p].curbuf = NULL /\ state[p] # "RSTOP"
    /\ GetNextRead(p)
    /\ rpos' = IF state[p] = "READER"
               THEN [rpos EXCEPT ![p] = want[r_xfers[iread[p]]].from] ELSE rpos
    /\ io' = [io EXCEPT ![p].op = next]
    /\ UNCHANGED <<wpos, want, mem>>

\* What it returned: the block of the reader, from its first valid byte on.
GotRead(p) ==
    /\ In(p, "read_got") \/ In(p, "openb_read")
    /\ pc[p] = "have"
    /\ io' = [io EXCEPT ![p].curbuf = r_bufs[iread[p]], ![p].bytes = 0,
                        ![p].curbufsz = nbytes[p],
                        ![p].op = IF @ = "read_got" THEN "read" ELSE "none"]
    /\ UNCHANGED <<vars, wpos, rpos, want, mem>>

\* ipcio_read, and ipcio_seek forward, which is a read without the copy.
Read(p, n) ==
    /\ Free(p) /\ io[p].rdwrt = "R" /\ IsReader(p)
    /\ io' = [io EXCEPT ![p].op = "read", ![p].left = n]
    /\ UNCHANGED <<vars, wpos, rpos, want, mem>>

ReadGet(p) == In(p, "read") /\ NextRead(p, "read_got")

ReadCopy(p) ==
    LET held  == io[p].curbufsz - io[p].bytes
        space == IF held > io[p].left THEN io[p].left ELSE held
    IN  /\ In(p, "read") /\ io[p].curbuf # NULL
        /\ rpos' = [rpos EXCEPT ![p] = @ + space]
        /\ io' = [io EXCEPT ![p].bytes = @ + space, ![p].left = @ - space,
                ![p].op = IF space = held THEN "clear" ELSE "none"]
        /\ UNCHANGED <<vars, wpos, want, mem>>

\* The block is used up.
ReadClear(p) ==
    /\ In(p, "clear")
    /\ MarkCleared(p)
    /\ io' = [io EXCEPT ![p].curbuf = NULL, ![p].bytes = 0,
                        ![p].op = IF io[p].left > 0 THEN "read" ELSE "none"]
    /\ UNCHANGED <<wpos, rpos, want, mem>>

ReadEod(p) ==
    /\ In(p, "read") /\ io[p].curbuf = NULL /\ state[p] = "RSTOP"
    /\ io' = [io EXCEPT ![p].op = "none", ![p].left = 0]
    /\ UNCHANGED <<vars, wpos, rpos, want, mem>>

\* ipcio_seek backwards, inside the current block only.
SeekBack(p, n) ==
    /\ "seek" \in Api /\ Free(p) /\ p \in Readers /\ n <= io[p].bytes
    /\ io' = [io EXCEPT ![p].bytes = @ - n]
    /\ rpos' = [rpos EXCEPT ![p] = @ - n]
    /\ UNCHANGED <<vars, wpos, want, mem>>

OpenBlockRead(p) ==
    /\ "blocks" \in Api /\ Free(p) /\ io[p].rdwrt = "R" /\ IsReader(p)
    /\ io[p].bytes = 0
    /\ NextRead(p, "openb_read")

CloseBlockRead(p) ==
    /\ "blocks" \in Api /\ Free(p) /\ io[p].rdwrt = "R" /\ io[p].bytes = 0
    /\ io[p].curbuf # NULL
    /\ rpos' = [rpos EXCEPT ![p] = @ + io[p].curbufsz]
    /\ io' = [io EXCEPT ![p].bytes = io[p].curbufsz, ![p].op = "clear",
                        ![p].left = 0]
    /\ UNCHANGED <<vars, wpos, want, mem>>

\* At the end of data: ipcbuf_reset to read on, or ipcio_close.
ReadOn(p) == Free(p) /\ ResetRead(p) /\ UNCHANGED iovars

CloseRead(p) ==
    /\ Free(p) /\ io[p].rdwrt = "R" /\ state[p] = "RSTOP"
    /\ UnlockRead(p)
    /\ io' = [io EXCEPT ![p].rdwrt = "0"]
    /\ UNCHANGED <<wpos, rpos, want, mem>>

-----------------------------------------------------------------------------
WriterIO(p) ==
    \/ \E mode \in {"w", "W"} : OpenWrite(p, mode)
    \/ OpenedWrite(p) \/ StartClocking(p)
    \/ \E byte \in 0..(MaxBlock * BUFSZ) : Start(p, byte)
    \/ \E n \in Sizes : Write(p, n)
    \/ WriteFilled(p) \/ WriteNext(p) \/ WriteGet(p) \/ GotBlock(p)
    \/ WriteCopy(p) \/ WriteReturn(p)
    \/ OpenBlockWrite(p) \/ OpenedBlockWrite(p)
    \/ \E n \in 0..BUFSZ : CloseBlockWrite(p, n)
    \/ \E n \in 1..BUFSZ : UpdateBlockWrite(p, n)
    \/ ClosedBlock(p, "closeb_end", "none")
    \/ \E unlock \in BOOLEAN : Stop(p, unlock)
    \/ StopGet(p) \/ StopCloses(p) \/ StopFails(p) \/ StopEod(p)
    \/ StopFilled(p) \/ StopReturn(p)
    \/ ClosedBlock(p, "stop_moved", "stop")
    \/ CloseWrite(p) \/ CloseRewinds(p) \/ CloseUnlocks(p)
    \/ CheckPendingSod(p, "start_sod", "none")
    \/ CheckPendingSod(p, "write_sod", "write_next")
    \/ CheckPendingSod(p, "closeb_sod", "closeb_end")
    \/ CheckPendingSod(p, "stop_closed", "stop_moved")
    \/ CheckPendingSod(p, "stop_sod", "stop_end")

ReaderIO(p) ==
    \/ OpenRead(p) \/ ReadOn(p) \/ CloseRead(p)
    \/ \E n \in Sizes : Read(p, n)
    \/ \E n \in 1..BUFSZ : SeekBack(p, n)
    \/ ReadGet(p) \/ GotRead(p) \/ ReadCopy(p) \/ ReadClear(p) \/ ReadEod(p)
    \/ OpenBlockRead(p) \/ CloseBlockRead(p)

\* The writer is done, and the readers wait for more.
IoRest ==
    /\ \A p \in Writers : Free(p) \/ io[p].op = "failed"
    /\ \A p \in Readers : pc[p] \in {"idle", "have"}
    /\ UNCHANGED <<vars, iovars>>

IoNext ==
    \/ \E p \in Writers : WriterIO(p) \/ (WriterStep(p) /\ UNCHANGED iovars)
    \/ \E p \in Readers : ReaderIO(p) \/ (ReaderStep(p) /\ UNCHANGED iovars)
    \/ IoRest

IoSpec == IoInit /\ [][IoNext]_<<vars, iovars>>

-----------------------------------------------------------------------------
\* What a reader holds of a block is the stream from its position on: every
\* byte of the transfer reaches it once, in order, and with the writer's value,
\* through any sequence of ipcio_write, ipcio_stop, ipcio_start and ipcio_read
\* whatever their sizes.
BytesInOrder ==
    \A p \in Readers : io[p].curbuf # NULL =>
        \A k \in io[p].bytes..(io[p].curbufsz - 1) :
            mem[io[p].curbuf % NBUFS][start_byte[p] + k]
                = rpos[p] + (k - io[p].bytes)

\* At the end of data a reader has had every byte that was written between
\* ipcio_start and ipcio_stop.
EndsWhereStopped ==
    \A p \in Readers : state[p] = "RSTOP" /\ pc[p] = "idle" =>
        rpos[p] = want[r_xfers[iread[p]] - 1].upto

\* Mutant: the first byte of the transfer is not subtracted.
TellReadBlocks(p) ==
    LET b == r_bufs[iread[p]]
    IN  IF b <= s_buf[xfer[p]] THEN 0 ELSE U64((b - s_buf[xfer[p]]) * BUFSZ)

\* ipcbuf_tell_read, to which ipcio_tell adds the bytes of the current block.
TellRead(p) ==
    LET b == r_bufs[iread[p]]
    IN  IF b <= s_buf[xfer[p]] THEN 0
        ELSE U64((b - s_buf[xfer[p]]) * BUFSZ - s_byte[xfer[p]])

\* The writer has started the transfer that uses the reader's slot of the flags
\* next: the reader acknowledged its own start of data when it entered, so that
\* s_buf and s_byte are free for it.
Overtaken(p) ==
    LET x == r_xfers[iread[p]] + XFERS
    IN  x <= MaxXfer /\ xlog[x].sb # NoXfer.sb

\* ipcio_tell counts from the start of data, also in the middle of a transfer
\* that did not start at the beginning of a block, as long as the writer has not
\* started a transfer XFERS further on: from then on ipcbuf_tell measures from the
\* start of that one.
TellExact ==
    \A p \in Readers : state[p] = "READING" /\ pc[p] \in {"idle", "have"}
                       /\ io[p].op = "none" /\ ~Overtaken(p) =>
        TellRead(p) + io[p].bytes = rpos[p] - want[r_xfers[iread[p]]].from

\* ipcio_stop ends the transfer: a writer that clocks on after it does not
\* write valid data until the next ipcio_start.
StopEnds ==
    \A p \in Writers : Free(p) /\ io[p].rdwrt = "w" => state[p] # "WRITING"
=============================================================================
