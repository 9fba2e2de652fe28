------------------------------- MODULE IpcBuf -------------------------------
(***************************************************************************)
(* The PSRDADA ring buffer of src/src/ipcbuf.c: one designated writer and  *)
(* n_readers designated readers share NBUFS blocks of BUFSZ bytes in       *)
(* System V shared memory and synchronise with System V semaphores only.   *)
(*                                                                         *)
(* One step is the code from one blocking semaphore operation to the next: *)
(* loads and stores of the shared ipcsync_t that follow a semop are a step *)
(* of their own wherever another process can run in between.               *)
(*                                                                         *)
(* This module is the library.  Who calls it, and when, is in the modules  *)
(* that extend it: IpcClients for any disciplined client, IpcIO for the    *)
(* byte streams of ipcio.c.                                                *)
(***************************************************************************)
EXTENDS Integers, FiniteSets

CONSTANTS
    Writers,    \* processes that may become the designated writer
    Readers,    \* processes that may become a designated reader
    NBUFS,      \* sync->nbufs
    BUFSZ,      \* sync->bufsz
    NREADERS,   \* sync->n_readers
    XFERS,      \* IPCBUF_XFERS (8 in ipcbuf.h)
    WORD,       \* 2^64, the modulus of uint64_t
    MaxBlock,   \* bound: no block with this number is opened
    MaxXfer     \* bound: no transfer with this number is started

Slots == 0..NREADERS-1      \* indices of semid_data, r_bufs, r_xfers, r_states
Bufs  == 0..NBUFS-1
Xfers == 0..XFERS-1         \* indices of s_buf, s_byte, eod, e_buf, e_byte
Procs == Writers \cup Readers

ASSUME ProcsAssumption == Writers \cap Readers = {}
ASSUME SizesAssumption ==
    /\ NBUFS \in Nat \ {0} /\ BUFSZ \in Nat \ {0}
    /\ NREADERS \in Nat \ {0} /\ XFERS \in Nat \ {0}
ASSUME BoundsAssumption ==
    /\ MaxBlock \in Nat /\ MaxXfer \in Nat
    /\ WORD \in Nat /\ WORD > MaxBlock + NBUFS + BUFSZ + 1

VARIABLES
    \* ipcsync_t, in shared memory
    w_buf_curr, w_buf_next, w_state, w_xfer, count,
    s_buf, s_byte, eod, e_buf, e_byte,
    r_bufs, r_xfers, r_states,
    \* the semaphore sets semid_connect and semid_data[iread]
    WRITE, READ, SODACK, EODACK, FULL, CLEAR, READER_CONN,
    \* ipcbuf_t, one per process
    state, xfer, iread, soclock_buf,
    \* where each process is, and the locals of the function it is in
    pc, i, start_buf, start_byte, nbytes, ret, order,
    \* history: the block each buffer holds, the bounds of each transfer
    data, xlog

wsync   == <<w_buf_curr, w_buf_next, w_state, w_xfer>>
flags   == <<s_buf, s_byte, eod, e_buf, e_byte>>
rsync   == <<r_bufs, r_xfers, r_states>>
consem  == <<WRITE, READ, READER_CONN>>
datasem == <<SODACK, EODACK, FULL, CLEAR>>
handle  == <<state, xfer, iread, soclock_buf>>
args    == <<start_buf, start_byte, nbytes, ret>>
hist    == <<data, xlog>>
vars == <<wsync, count, flags, rsync, consem, datasem, handle, pc, i, args,
          order, hist>>

(***************************************************************************)
(* uint64_t arithmetic, and the conversion of a uint64_t to the short that *)
(* ipc_semop takes.                                                        *)
(***************************************************************************)
U64(n) == n % WORD
Short(n) == IF 2 * n >= WORD THEN n - WORD ELSE n

NoXfer == [sb |-> -1, sy |-> 0, eb |-> -1, ey |-> 0]

IsWriter(p) == state[p] \in {"WRITER", "WCHANGE", "WRITING"}
IsReader(p) == state[p] \in {"READER", "READING", "RSTOP"}

\* A process that has the role and is not inside a library call.
IdleWriter(p) == p \in Writers /\ pc[p] = "idle" /\ IsWriter(p)
IdleReader(p) == p \in Readers /\ pc[p] = "idle" /\ IsReader(p)

Goto(p, label) == pc' = [pc EXCEPT ![p] = label]
SetState(p, s) == state' = [state EXCEPT ![p] = s]
SetBoth(p, s) == SetState(p, s) /\ w_state' = s
Rewind(p) == i' = [i EXCEPT ![p] = 0]
Advance(p) == i' = [i EXCEPT ![p] = @ + 1]

-----------------------------------------------------------------------------
(* ipcbuf_create_work, followed by ipcbuf_connect in every other process.  *)

Init ==
    /\ w_buf_curr = 0 /\ w_buf_next = 0 /\ w_xfer = 0 /\ w_state = "DISCON"
    /\ count = [b \in Bufs |-> 0]
    /\ s_buf = [x \in Xfers |-> 0] /\ s_byte = [x \in Xfers |-> 0]
    /\ e_buf = [x \in Xfers |-> 0] /\ e_byte = [x \in Xfers |-> 0]
    /\ eod = [x \in Xfers |-> 1]
    /\ r_bufs = [s \in Slots |-> 0] /\ r_xfers = [s \in Slots |-> 0]
    /\ r_states = [s \in Slots |-> "DISCON"]
    /\ WRITE = 1 /\ READ = NREADERS
    /\ READER_CONN = [s \in Slots |-> 1]
    /\ SODACK = [s \in Slots |-> XFERS] /\ EODACK = [s \in Slots |-> XFERS]
    /\ FULL = [s \in Slots |-> 0] /\ CLEAR = [s \in Slots |-> 0]
    /\ state = [p \in Procs |-> "VIEWER"] /\ xfer = [p \in Procs |-> 0]
    /\ iread = [p \in Procs |-> -1] /\ soclock_buf = [p \in Procs |-> 0]
    /\ pc = [p \in Procs |-> "idle"] /\ i = [p \in Procs |-> 0]
    /\ start_buf = [p \in Procs |-> 0] /\ start_byte = [p \in Procs |-> 0]
    /\ nbytes = [p \in Procs |-> 0] /\ ret = [p \in Procs |-> "idle"]
    /\ order = [p \in Procs |-> [k \in Slots |-> k]]
    /\ data = [b \in Bufs |-> -1]
    /\ xlog = [x \in 0..MaxXfer |-> NoXfer]

-----------------------------------------------------------------------------
(* The writer: taking and giving up the role, changing the writing state.  *)

\* ipcbuf_lock_write: the semop that only one process passes.
LockWrite(p) ==
    /\ p \in Writers /\ pc[p] = "idle" /\ state[p] = "VIEWER"
    /\ WRITE > 0 /\ WRITE' = WRITE - 1
    /\ Goto(p, "wlock")
    /\ UNCHANGED <<wsync, count, flags, rsync, READ, READER_CONN, datasem,
                   handle, i, args, order, hist>>

\* Mutant: the w_state found is not looked at.
LockWriteAnew(p) ==
    /\ pc[p] = "wlock"
    /\ SetBoth(p, "WCHANGE")
    /\ xfer' = [xfer EXCEPT ![p] = w_xfer % XFERS]
    /\ Goto(p, "idle")
    /\ UNCHANGED <<w_buf_curr, w_buf_next, w_xfer, count, flags, rsync, consem,
                   datasem, iread, soclock_buf, i, args, order, hist>>

\* ipcbuf_lock_write: the new state follows from the w_state found.
LockWriteState(p) ==
    /\ pc[p] = "wlock"
    /\ SetBoth(p, IF w_state = "DISCON" THEN "WCHANGE" ELSE "WRITING")
    /\ xfer' = [xfer EXCEPT ![p] = w_xfer % XFERS]
    /\ Goto(p, "idle")
    /\ UNCHANGED <<w_buf_curr, w_buf_next, w_xfer, count, flags, rsync, consem,
                   datasem, iread, soclock_buf, i, args, order, hist>>

\* ipcbuf_unlock_write: WRITE is given back first.
UnlockWrite(p) ==
    /\ IdleWriter(p)
    /\ WRITE' = WRITE + 1
    /\ Goto(p, "wunlock")
    /\ UNCHANGED <<wsync, count, flags, rsync, READ, READER_CONN, datasem,
                   handle, i, args, order, hist>>

\* ipcbuf_unlock_write: the states are cleared after the semaphore is free.
UnlockWriteState(p) ==
    /\ pc[p] = "wunlock"
    /\ SetState(p, "VIEWER") /\ w_state' = "DISCON"
    /\ Goto(p, "idle")
    /\ UNCHANGED <<w_buf_curr, w_buf_next, w_xfer, count, flags, rsync, consem,
                   datasem, xfer, iread, soclock_buf, i, args, order, hist>>

\* ipcbuf_relock_write
RelockWrite(p) ==
    /\ IdleWriter(p)
    /\ SetBoth(p, "WCHANGE")
    /\ xfer' = [xfer EXCEPT ![p] = w_xfer % XFERS]
    /\ UNCHANGED <<w_buf_curr, w_buf_next, w_xfer, count, flags, rsync, consem,
                   datasem, iread, soclock_buf, pc, i, args, order, hist>>

\* ipcbuf_enable_eod.  Every client marks a block filled next.
EnableEod(p) ==
    /\ IdleWriter(p) /\ state[p] = "WRITING"
    /\ w_buf_curr < w_buf_next \/ w_buf_next < MaxBlock
    /\ SetBoth(p, "WCHANGE")
    /\ Goto(p, "ending")
    /\ UNCHANGED <<w_buf_curr, w_buf_next, w_xfer, count, flags, rsync, consem,
                   datasem, xfer, iread, soclock_buf, i, args, order, hist>>

\* ipcbuf_disable_sod: from here on data is clocked in without a transfer.
DisableSod(p) ==
    /\ IdleWriter(p) /\ state[p] = "WCHANGE"
    /\ SetBoth(p, "WRITER")
    /\ UNCHANGED <<w_buf_curr, w_buf_next, w_xfer, count, flags, rsync, consem,
                   datasem, xfer, iread, soclock_buf, pc, i, args, order, hist>>

\* ipcbuf_set_soclock_buf
SetSoclockBuf(p) ==
    /\ IdleWriter(p)
    /\ soclock_buf' = [soclock_buf EXCEPT ![p] =
            IF w_xfer > 0 THEN e_buf[(w_xfer - 1) % XFERS] + 1 ELSE 0]
    /\ UNCHANGED <<wsync, count, flags, rsync, consem, datasem, state, xfer,
                   iread, pc, i, args, order, hist>>

-----------------------------------------------------------------------------
(* The writer: start of data.                                              *)

\* Mutant: the size of the ring is forgotten.
SodMinbufNoRing(p) == soclock_buf[p]

\* ipcbuf_get_sod_minbuf
SodMinbuf(p) ==
    IF U64(w_buf_next - soclock_buf[p]) < NBUFS
    THEN soclock_buf[p]
    ELSE U64(w_buf_next - NBUFS + 1)

\* The argument checks of ipcbuf_enable_sod.
SodAllowed(p, b, y) ==
    /\ state[p] \in {"WRITER", "WCHANGE"}
    /\ b <= w_buf_next /\ b >= SodMinbuf(p) /\ y <= BUFSZ

\* ipcbuf_enable_sod is entered, by the client or from ipcbuf_get_next_write.
CallEnableSod(p, b, y, return) ==
    /\ start_buf' = [start_buf EXCEPT ![p] = b]
    /\ start_byte' = [start_byte EXCEPT ![p] = y]
    /\ ret' = [ret EXCEPT ![p] = return]
    /\ Rewind(p) /\ Goto(p, "sod_ack")

\* ipcbuf_enable_sod, called by a client that clocked data in.
EnableSod(p, b, y) ==
    /\ IdleWriter(p) /\ w_xfer < MaxXfer
    /\ SodAllowed(p, b, y)
    /\ CallEnableSod(p, b, y, "idle")
    /\ UNCHANGED <<wsync, count, flags, rsync, consem, datasem, handle, nbytes,
                   order, hist>>

\* Mutant: the wait for SODACK is left out.
SodAckNoWait(p) ==
    /\ pc[p] = "sod_ack" /\ i[p] < NREADERS
    /\ SODACK' = [SODACK EXCEPT ![i[p]] = @ - 1]
    /\ Advance(p)
    /\ UNCHANGED <<wsync, count, flags, rsync, consem, EODACK, FULL, CLEAR,
                   handle, pc, args, order, hist>>

\* One SODACK per reader: at most XFERS starts of data are unread.
SodAck(p) ==
    /\ pc[p] = "sod_ack" /\ i[p] < NREADERS
    /\ SODACK[i[p]] > 0 /\ SODACK' = [SODACK EXCEPT ![i[p]] = @ - 1]
    /\ Advance(p)
    /\ UNCHANGED <<wsync, count, flags, rsync, consem, EODACK, FULL, CLEAR,
                   handle, pc, args, order, hist>>

\* How many of the blocks written from block n on are in buffer b.
WrittenSince(n, b) == Cardinality({k \in n..(w_buf_curr - 1) : k % NBUFS = b})

\* The start of data is recorded and the blocks already written are counted.
SodSet(p) ==
    LET x == w_xfer % XFERS
    IN  /\ pc[p] = "sod_ack" /\ i[p] = NREADERS
        /\ s_buf' = [s_buf EXCEPT ![x] = start_buf[p]]
        /\ s_byte' = [s_byte EXCEPT ![x] = start_byte[p]]
        /\ eod' = IF w_buf_curr = 0 THEN [eod EXCEPT ![x] = 0] ELSE eod
        /\ count' = [b \in Bufs |-> count[b] + WrittenSince(start_buf[p], b)]
        /\ SetBoth(p, "WRITING")
        /\ xfer' = [xfer EXCEPT ![p] = x]
        /\ Rewind(p) /\ Goto(p, "sod_full")
        /\ xlog' = [xlog EXCEPT ![w_xfer] =
                [sb |-> start_buf[p], sy |-> start_byte[p], eb |-> -1, ey |-> 0]]
        /\ UNCHANGED <<w_buf_curr, w_buf_next, w_xfer, e_buf, e_byte, rsync,
                       consem, datasem, iread, soclock_buf, args, order, data>>

\* Each reader is told of the blocks that were already written.
SodFull(p) ==
    LET new_bufs == Short(U64(w_buf_curr - start_buf[p]))
    IN  /\ pc[p] = "sod_full" /\ i[p] < NREADERS
        /\ FULL[i[p]] + new_bufs >= 0
        /\ FULL' = [FULL EXCEPT ![i[p]] = @ + new_bufs]
        /\ Advance(p)
        /\ UNCHANGED <<wsync, count, flags, rsync, consem, SODACK, EODACK,
                       CLEAR, handle, pc, args, order, hist>>

SodDone(p) ==
    /\ pc[p] = "sod_full" /\ i[p] = NREADERS
    /\ start_buf' = [start_buf EXCEPT ![p] = 0]
    /\ start_byte' = [start_byte EXCEPT ![p] = 0]
    /\ ret' = [ret EXCEPT ![p] = "idle"]
    /\ Rewind(p) /\ Goto(p, ret[p])
    /\ UNCHANGED <<wsync, count, flags, rsync, consem, datasem, handle, nbytes,
                   order, hist>>

-----------------------------------------------------------------------------
(* The writer: opening the next block.                                     *)

\* Mutants: the first reader's CLEAR stands for all; the loop polls with
\* IPC_NOWAIT and does not lower the count.
TakeClearFirst(p, b) ==
    /\ count[b] > 0 /\ i[p] = 0
    /\ CLEAR[0] > 0 /\ CLEAR' = [CLEAR EXCEPT ![0] = @ - 1]
    /\ count' = [count EXCEPT ![b] = @ - 1] /\ UNCHANGED i
TakeClearSpins(p, b) ==
    /\ count[b] > 0
    /\ i' = [i EXCEPT ![p] = (@ + 1) % NREADERS] /\ UNCHANGED <<CLEAR, count>>

\* The body of the loops on count: one CLEAR from every reader frees one use
\* of buffer b.
TakeClear(p, b) ==
    /\ count[b] > 0
    /\ CLEAR[i[p]] > 0 /\ CLEAR' = [CLEAR EXCEPT ![i[p]] = @ - 1]
    /\ \/ i[p] < NREADERS - 1 /\ Advance(p) /\ UNCHANGED count
       \/ i[p] = NREADERS - 1 /\ Rewind(p) /\ count' = [count EXCEPT ![b] = @ - 1]

\* ipcbuf_get_next_write.  In state WCHANGE it raises start of data first.
GetNextWrite(p) ==
    /\ IdleWriter(p) /\ w_buf_next < MaxBlock
    /\ \/ /\ state[p] = "WCHANGE" /\ w_xfer < MaxXfer
          /\ SodAllowed(p, w_buf_curr, 0)
          /\ CallEnableSod(p, w_buf_curr, 0, "get")
       \/ /\ state[p] # "WCHANGE"
          /\ Goto(p, "get")
          /\ UNCHANGED <<i, start_buf, start_byte, ret>>
    /\ UNCHANGED <<wsync, count, flags, rsync, consem, datasem, handle, nbytes,
                   order, hist>>

\* The wait for a buffer that holds unread data.
GetClear(p) ==
    /\ pc[p] = "get" /\ TakeClear(p, w_buf_next % NBUFS)
    /\ UNCHANGED <<wsync, flags, rsync, consem, SODACK, EODACK, FULL, handle,
                   pc, args, order, hist>>

\* The block is handed out: the client overwrites the buffer from here on.
GetDone(p) ==
    /\ pc[p] = "get" /\ i[p] = 0 /\ count[w_buf_next % NBUFS] = 0
    /\ w_buf_next' = w_buf_next + 1
    /\ data' = [data EXCEPT ![w_buf_next % NBUFS] = w_buf_next]
    /\ ret' = [ret EXCEPT ![p] = "idle"]
    /\ Goto(p, ret[p])
    /\ UNCHANGED <<w_buf_curr, w_state, w_xfer, count, flags, rsync, consem,
                   datasem, handle, i, start_buf, start_byte, nbytes, order,
                   xlog>>

\* ipcbuf_zero_next_write is called: no semaphore is waited for, CLEAR is polled.
ZeroNextWrite(p) ==
    /\ IdleWriter(p)
    /\ Goto(p, "zero")
    /\ UNCHANGED <<wsync, count, flags, rsync, consem, datasem, handle, i, args,
                   order, hist>>

\* The poll, every 10 ms, while some reader has no cleared buffer to its credit.
ZeroPoll(p) ==
    pc[p] = "zero" /\ (\E s \in Slots : CLEAR[s] = 0) /\ UNCHANGED vars

\* Every reader has cleared a buffer: the next one is zeroed.
ZeroDone(p) ==
    /\ pc[p] = "zero" /\ \A s \in Slots : CLEAR[s] > 0
    /\ data' = [data EXCEPT ![w_buf_next % NBUFS] = -1]
    /\ Goto(p, "idle")
    /\ UNCHANGED <<wsync, count, flags, rsync, consem, datasem, handle, i, args,
                   order, xlog>>

-----------------------------------------------------------------------------
(* The writer: closing a block, and with it perhaps the transfer.          *)

\* ipcbuf_mark_filled while clocking: the block belongs to no transfer yet.
MarkFilledClocked(p) ==
    /\ IdleWriter(p) /\ state[p] = "WRITER"
    /\ w_buf_curr' = w_buf_curr + 1
    /\ UNCHANGED <<w_buf_next, w_state, w_xfer, count, flags, rsync, consem,
                   datasem, handle, pc, i, args, order, hist>>

\* ipcbuf_mark_filled inside a transfer.  n = 0 ends the transfer at a block
\* boundary, when the client has no block open.
MarkFilled(p, n) ==
    /\ \/ IdleWriter(p) /\ state[p] # "WRITER"
       \/ p \in Writers /\ pc[p] = "ending"
    /\ n = 0 => w_buf_next < MaxBlock
    /\ nbytes' = [nbytes EXCEPT ![p] = n]
    /\ Goto(p, IF state[p] = "WCHANGE" \/ n < BUFSZ THEN "eod_ack"
                                                   ELSE "publish")
    /\ UNCHANGED <<wsync, count, flags, rsync, consem, datasem, handle, i,
                   start_buf, start_byte, ret, order, hist>>

\* Mutant: the wait for EODACK is left out.
EodAckNoWait(p) ==
    /\ pc[p] = "eod_ack" /\ i[p] < NREADERS
    /\ EODACK' = [EODACK EXCEPT ![i[p]] = IF @ > 0 THEN @ - 1 ELSE @]
    /\ Advance(p)
    /\ UNCHANGED <<wsync, count, flags, rsync, consem, SODACK, FULL, CLEAR,
                   handle, pc, args, order, hist>>

\* One EODACK per reader: at most XFERS ends of data are unread.
EodAck(p) ==
    /\ pc[p] = "eod_ack" /\ i[p] < NREADERS
    /\ EODACK[i[p]] > 0 /\ EODACK' = [EODACK EXCEPT ![i[p]] = @ - 1]
    /\ Advance(p)
    /\ UNCHANGED <<wsync, count, flags, rsync, consem, SODACK, FULL, CLEAR,
                   handle, pc, args, order, hist>>

\* The end of data is recorded.  An empty last block has yet to be opened.
EodSet(p) ==
    LET x == xfer[p]
    IN  /\ pc[p] = "eod_ack" /\ i[p] = NREADERS
        /\ e_buf' = [e_buf EXCEPT ![x] = w_buf_curr]
        /\ e_byte' = [e_byte EXCEPT ![x] = nbytes[p]]
        /\ eod' = [eod EXCEPT ![x] = 1]
        /\ w_xfer' = w_xfer + 1
        /\ xfer' = [xfer EXCEPT ![p] = (w_xfer + 1) % XFERS]
        /\ SetBoth(p, "WRITER")
        /\ Goto(p, IF nbytes[p] = 0 THEN "get" ELSE "publish")
        /\ ret' = [ret EXCEPT ![p] = IF nbytes[p] = 0 THEN "publish" ELSE @]
        /\ Rewind(p)
        /\ xlog' = [xlog EXCEPT ![w_xfer].eb = w_buf_curr, ![w_xfer].ey = nbytes[p]]
        /\ UNCHANGED <<w_buf_curr, w_buf_next, count, s_buf, s_byte, rsync,
                       consem, datasem, iread, soclock_buf, start_buf,
                       start_byte, nbytes, order, data>>

\* The block counts as written.
Publish(p) ==
    /\ pc[p] = "publish"
    /\ count' = [count EXCEPT ![w_buf_curr % NBUFS] = @ + 1]
    /\ w_buf_curr' = w_buf_curr + 1
    /\ nbytes' = [nbytes EXCEPT ![p] = 0]
    /\ Goto(p, "full")
    /\ UNCHANGED <<w_buf_next, w_state, w_xfer, flags, rsync, consem, datasem,
                   handle, i, start_buf, start_byte, ret, order, hist>>

\* Each reader is told of the block.
MarkFull(p) ==
    /\ pc[p] = "full"
    /\ FULL' = [FULL EXCEPT ![i[p]] = @ + 1]
    /\ \/ i[p] < NREADERS - 1 /\ Advance(p) /\ UNCHANGED pc
       \/ i[p] = NREADERS - 1 /\ Rewind(p) /\ Goto(p, "idle")
    /\ UNCHANGED <<wsync, count, flags, rsync, consem, SODACK, EODACK, CLEAR,
                   handle, args, order, hist>>

-----------------------------------------------------------------------------
(* The writer: ipcbuf_reset.                                               *)

Reset(p) ==
    /\ IdleWriter(p)
    /\ w_buf_curr # 0 \/ w_buf_next # 0
    /\ Goto(p, "rst_clear")
    /\ UNCHANGED <<wsync, count, flags, rsync, consem, datasem, handle, i, args,
                   order, hist>>

\* Every written block is waited for, buffer by buffer.
ResetClear(p) ==
    /\ pc[p] = "rst_clear"
    /\ \E b \in Bufs : (\A a \in 0..(b - 1) : count[a] = 0) /\ TakeClear(p, b)
    /\ UNCHANGED <<wsync, flags, rsync, consem, SODACK, EODACK, FULL, handle,
                   pc, args, order, hist>>

ResetCleared(p) ==
    /\ pc[p] = "rst_clear" /\ i[p] = 0 /\ \A b \in Bufs : count[b] = 0
    /\ Goto(p, "rst_sod")
    /\ UNCHANGED <<wsync, count, flags, rsync, consem, datasem, handle, i, args,
                   order, hist>>

\* Then for the acknowledgement of every start of data ...
ResetSod(p) ==
    /\ pc[p] = "rst_sod" /\ i[p] < NREADERS
    /\ SODACK[i[p]] >= XFERS /\ SODACK' = [SODACK EXCEPT ![i[p]] = @ - XFERS]
    /\ Goto(p, "rst_eod")
    /\ UNCHANGED <<wsync, count, flags, rsync, consem, EODACK, FULL, CLEAR,
                   handle, i, args, order, hist>>

\* ... and of every end of data, before the reader's counters are zeroed.
ResetEod(p) ==
    /\ pc[p] = "rst_eod" /\ i[p] < NREADERS
    /\ EODACK[i[p]] >= XFERS
    /\ SODACK' = [SODACK EXCEPT ![i[p]] = @ + XFERS]
    /\ r_bufs' = [r_bufs EXCEPT ![i[p]] = 0]
    /\ r_xfers' = [r_xfers EXCEPT ![i[p]] = 0]
    /\ Advance(p) /\ Goto(p, "rst_sod")
    /\ UNCHANGED <<wsync, count, flags, r_states, consem, EODACK, FULL, CLEAR,
                   handle, args, order, hist>>

ResetDone(p) ==
    /\ pc[p] = "rst_sod" /\ i[p] = NREADERS
    /\ w_buf_curr' = 0 /\ w_buf_next' = 0 /\ w_xfer' = 0
    /\ eod' = [x \in Xfers |-> 1]
    /\ Rewind(p) /\ Goto(p, "idle")
    /\ xlog' = [x \in 0..MaxXfer |-> NoXfer]
    /\ UNCHANGED <<w_state, count, s_buf, s_byte, e_buf, e_byte, rsync, consem,
                   datasem, handle, args, order, data>>

-----------------------------------------------------------------------------
(* A reader: taking and giving up the role.                                *)

\* ipcbuf_lock_read: one of the n_readers roles is claimed ...
LockRead(p) ==
    /\ p \in Readers /\ pc[p] = "idle" /\ state[p] = "VIEWER"
    /\ iread[p] = -1
    /\ READ > 0 /\ READ' = READ - 1
    /\ Goto(p, "rorder")
    /\ UNCHANGED <<wsync, count, flags, rsync, WRITE, READER_CONN, datasem,
                   handle, i, args, order, hist>>

\* Mutant: the search for the oldest slot forgets which ones are used already.
LockReadOrderRepeats(p) ==
    /\ pc[p] = "rorder"
    /\ \E s \in Slots :
          /\ \A k \in Slots : r_bufs[s] <= r_bufs[k]
          /\ order' = [order EXCEPT ![p] = [k \in Slots |-> s]]
    /\ Goto(p, "rtry")
    /\ UNCHANGED <<wsync, count, flags, rsync, consem, datasem, handle, i,
                   args, hist>>

\* ... the slots are ordered, the one that has read least first ...
LockReadOrder(p) ==
    LET older(a, b) == \/ r_bufs[a] < r_bufs[b]
                       \/ r_bufs[a] = r_bufs[b] /\ a < b
    IN  /\ pc[p] = "rorder"
        /\ \E o \in [Slots -> Slots] :
              /\ \A j, k \in Slots : j < k => older(o[j], o[k])
              /\ order' = [order EXCEPT ![p] = o]
        /\ Goto(p, "rtry")
        /\ UNCHANGED <<wsync, count, flags, rsync, consem, datasem, handle, i,
                       args, hist>>

\* Mutant: EAGAIN on READER_CONN is taken for success.
LockReadTryAgain(p) ==
    LET s == order[p][i[p]]
    IN  /\ pc[p] = "rtry" /\ i[p] < NREADERS
        /\ READER_CONN' = [READER_CONN EXCEPT ![s] = 0]
        /\ iread' = [iread EXCEPT ![p] = s]
        /\ order' = [order EXCEPT ![p] = [k \in Slots |-> k]]
        /\ Rewind(p) /\ Goto(p, "rlock")
        /\ UNCHANGED <<wsync, count, flags, rsync, WRITE, READ, datasem, state,
                       xfer, soclock_buf, args, hist>>

\* ... and tried in that order with IPC_NOWAIT ...
LockReadTry(p) ==
    LET s == order[p][i[p]]
    IN  /\ pc[p] = "rtry" /\ i[p] < NREADERS
        /\ READER_CONN[s] > 0 /\ READER_CONN' = [READER_CONN EXCEPT ![s] = @ - 1]
        /\ iread' = [iread EXCEPT ![p] = s]
        /\ order' = [order EXCEPT ![p] = [k \in Slots |-> k]]
        /\ Rewind(p) /\ Goto(p, "rlock")
        /\ UNCHANGED <<wsync, count, flags, rsync, WRITE, READ, datasem, state,
                       xfer, soclock_buf, args, hist>>

LockReadSkip(p) ==
    /\ pc[p] = "rtry" /\ i[p] < NREADERS
    /\ READER_CONN[order[p][i[p]]] = 0
    /\ Advance(p)
    /\ UNCHANGED <<wsync, count, flags, rsync, consem, datasem, handle, pc,
                   args, order, hist>>

\* ... until none is left: "could not find available read index".
LockReadFail(p) ==
    /\ pc[p] = "rtry" /\ i[p] = NREADERS
    /\ Goto(p, "failed")
    /\ UNCHANGED <<wsync, count, flags, rsync, consem, datasem, handle, i, args,
                   order, hist>>

\* Mutant: the r_states found is not looked at.
LockReadAnew(p) ==
    /\ pc[p] = "rlock"
    /\ SetState(p, "READER") /\ r_states' = [r_states EXCEPT ![iread[p]] = "READER"]
    /\ xfer' = [xfer EXCEPT ![p] = r_xfers[iread[p]] % XFERS]
    /\ Goto(p, "idle")
    /\ UNCHANGED <<wsync, count, flags, r_bufs, r_xfers, consem, datasem, iread,
                   soclock_buf, i, args, order, hist>>

\* ipcbuf_lock_read: the new state follows from the r_states found.
LockReadState(p) ==
    LET s  == iread[p]
        st == IF r_states[s] = "DISCON" THEN "READER" ELSE "READING"
    IN  /\ pc[p] = "rlock"
        /\ SetState(p, st) /\ r_states' = [r_states EXCEPT ![s] = st]
        /\ xfer' = [xfer EXCEPT ![p] = r_xfers[s] % XFERS]
        /\ Goto(p, "idle")
        /\ UNCHANGED <<wsync, count, flags, r_bufs, r_xfers, consem, datasem,
                       iread, soclock_buf, i, args, order, hist>>

\* ipcbuf_unlock_read: the slot is given back, then the role, ...
UnlockRead(p) ==
    /\ IdleReader(p)
    /\ READER_CONN' = [READER_CONN EXCEPT ![iread[p]] = @ + 1]
    /\ Goto(p, "runlock")
    /\ UNCHANGED <<wsync, count, flags, rsync, WRITE, READ, datasem, handle, i,
                   args, order, hist>>

UnlockReadRole(p) ==
    /\ pc[p] = "runlock"
    /\ READ' = READ + 1
    /\ Goto(p, "runlocked")
    /\ UNCHANGED <<wsync, count, flags, rsync, WRITE, READER_CONN, datasem,
                   handle, i, args, order, hist>>

\* ... and the states are cleared after both semaphores are free.
UnlockReadState(p) ==
    /\ pc[p] = "runlocked"
    /\ SetState(p, "VIEWER")
    /\ r_states' = [r_states EXCEPT ![iread[p]] = "DISCON"]
    /\ iread' = [iread EXCEPT ![p] = -1]
    /\ Goto(p, "idle")
    /\ UNCHANGED <<wsync, count, flags, r_bufs, r_xfers, consem, datasem, xfer,
                   soclock_buf, i, args, order, hist>>

-----------------------------------------------------------------------------
(* A reader: reading blocks.                                               *)

\* ipcbuf_get_next_read_work as a reader: wait for a written block.
GetNextRead(p) ==
    LET s == iread[p]
    IN  /\ IdleReader(p) /\ state[p] # "RSTOP"
        /\ FULL[s] > 0 /\ FULL' = [FULL EXCEPT ![s] = @ - 1]
        /\ Goto(p, IF state[p] = "READER" THEN "sod_inc" ELSE "bytes")
        /\ UNCHANGED <<wsync, count, flags, rsync, consem, SODACK, EODACK,
                       CLEAR, handle, i, args, order, hist>>

\* The first block of a transfer: go to where it starts, acknowledge it.
SodInc(p) ==
    LET s == iread[p]
        x == r_xfers[s] % XFERS
    IN  /\ pc[p] = "sod_inc"
        /\ xfer' = [xfer EXCEPT ![p] = x]
        /\ SetState(p, "READING") /\ r_states' = [r_states EXCEPT ![s] = "READING"]
        /\ r_bufs' = [r_bufs EXCEPT ![s] = s_buf[x]]
        /\ start_byte' = [start_byte EXCEPT ![p] = s_byte[x]]
        /\ SODACK' = [SODACK EXCEPT ![s] = @ + 1]
        /\ Goto(p, "bytes")
        /\ UNCHANGED <<wsync, count, flags, r_xfers, consem, EODACK, FULL,
                       CLEAR, iread, soclock_buf, i, start_buf, nbytes, ret,
                       order, hist>>

\* Mutants: the flag is not tested; the block is compared with the one after.
AtEodNoFlag(p) == r_bufs[iread[p]] = e_buf[xfer[p]]
AtEodLate(p) == eod[xfer[p]] = 1 /\ r_bufs[iread[p]] = e_buf[xfer[p]] + 1

\* The test of get_next_read_work and of mark_cleared for the last block.
AtEod(p) == eod[xfer[p]] = 1 /\ r_bufs[iread[p]] = e_buf[xfer[p]]

\* The number of bytes of the block that belong to the transfer.
ReadBytes(p) ==
    /\ pc[p] = "bytes"
    /\ nbytes' = [nbytes EXCEPT ![p] =
            U64((IF AtEod(p) THEN e_byte[xfer[p]] ELSE BUFSZ) - start_byte[p])]
    /\ Goto(p, "have")
    /\ UNCHANGED <<wsync, count, flags, rsync, consem, datasem, handle, i,
                   start_buf, start_byte, ret, order, hist>>

\* ipcbuf_mark_cleared: the writer may reuse the buffer from here on.
MarkCleared(p) ==
    LET s == iread[p]
    IN  /\ pc[p] = "have"
        /\ CLEAR' = [CLEAR EXCEPT ![s] = @ + 1]
        /\ start_byte' = [start_byte EXCEPT ![p] = 0]
        /\ nbytes' = [nbytes EXCEPT ![p] = 0]
        /\ Goto(p, "cleared")
        /\ UNCHANGED <<wsync, count, flags, rsync, consem, SODACK, EODACK, FULL,
                       handle, i, start_buf, ret, order, hist>>

ClearedNext(p) ==
    /\ pc[p] = "cleared" /\ ~AtEod(p)
    /\ r_bufs' = [r_bufs EXCEPT ![iread[p]] = @ + 1]
    /\ Goto(p, "idle")
    /\ UNCHANGED <<wsync, count, flags, r_xfers, r_states, consem, datasem,
                   handle, i, args, order, hist>>

ClearedEod(p) ==
    LET s == iread[p]
    IN  /\ pc[p] = "cleared" /\ AtEod(p)
        /\ SetState(p, "RSTOP") /\ r_states' = [r_states EXCEPT ![s] = "RSTOP"]
        /\ r_bufs' = [r_bufs EXCEPT ![s] = @ + 1]
        /\ r_xfers' = [r_xfers EXCEPT ![s] = @ + 1]
        /\ xfer' = [xfer EXCEPT ![p] = (r_xfers[s] + 1) % XFERS]
        /\ EODACK' = [EODACK EXCEPT ![s] = @ + 1]
        /\ Goto(p, "idle")
        /\ UNCHANGED <<wsync, count, flags, consem, SODACK, FULL, CLEAR, iread,
                       soclock_buf, i, args, order, hist>>

\* ipcbuf_reset by a reader at the end of data.
ResetRead(p) ==
    /\ IdleReader(p) /\ state[p] = "RSTOP"
    /\ SetState(p, "READER")
    /\ r_states' = [r_states EXCEPT ![iread[p]] = "READER"]
    /\ UNCHANGED <<wsync, count, flags, r_bufs, r_xfers, consem, datasem, xfer,
                   iread, soclock_buf, pc, i, args, order, hist>>

-----------------------------------------------------------------------------
\* What a process does inside a library call, once it is not blocked.
WriterStep(p) ==
    \/ LockWriteState(p) \/ UnlockWriteState(p)
    \/ SodAck(p) \/ SodSet(p) \/ SodFull(p) \/ SodDone(p)
    \/ GetClear(p) \/ GetDone(p) \/ ZeroDone(p)
    \/ EodAck(p) \/ EodSet(p) \/ Publish(p) \/ MarkFull(p)
    \/ ResetClear(p) \/ ResetCleared(p) \/ ResetSod(p) \/ ResetEod(p)
    \/ ResetDone(p)

ReaderStep(p) ==
    \/ LockReadOrder(p) \/ LockReadTry(p) \/ LockReadSkip(p) \/ LockReadFail(p)
    \/ LockReadState(p) \/ UnlockReadRole(p) \/ UnlockReadState(p)
    \/ SodInc(p) \/ ReadBytes(p) \/ ClearedNext(p) \/ ClearedEod(p)

-----------------------------------------------------------------------------
Labels == {"idle", "wlock", "wunlock", "ending", "sod_ack", "sod_full", "get",
           "zero", "eod_ack", "publish", "full", "rst_clear", "rst_sod", "rst_eod",
           "rorder", "rtry", "rlock", "failed", "runlock", "runlocked",
           "sod_inc", "bytes", "have", "cleared"}
WStates == {"DISCON", "WRITER", "WRITING", "WCHANGE"}
RStates == {"DISCON", "READER", "READING", "RSTOP"}
PStates == {"VIEWER", "WRITER", "WRITING", "WCHANGE", "READER", "READING", "RSTOP"}

SyncType ==
    /\ w_buf_curr \in Nat /\ w_buf_next \in Nat /\ w_xfer \in Nat
    /\ w_state \in WStates /\ count \in [Bufs -> Nat] /\ data \in [Bufs -> Int]
FlagsType ==
    /\ s_buf \in [Xfers -> Nat] /\ s_byte \in [Xfers -> Nat]
    /\ e_buf \in [Xfers -> Nat] /\ e_byte \in [Xfers -> Nat]
    /\ eod \in [Xfers -> {0, 1}]
ReadersType ==
    /\ r_bufs \in [Slots -> Nat] /\ r_xfers \in [Slots -> Nat]
    /\ r_states \in [Slots -> RStates]
SemType ==
    /\ WRITE \in Nat /\ READ \in Nat /\ READER_CONN \in [Slots -> Nat]
    /\ SODACK \in [Slots -> Nat] /\ EODACK \in [Slots -> Nat]
    /\ FULL \in [Slots -> Nat] /\ CLEAR \in [Slots -> Nat]
HandleType ==
    /\ state \in [Procs -> PStates] /\ xfer \in [Procs -> Xfers]
    /\ iread \in [Procs -> Slots \cup {-1}] /\ soclock_buf \in [Procs -> Nat]
LocalType ==
    /\ pc \in [Procs -> Labels] /\ i \in [Procs -> 0..NREADERS]
    /\ start_buf \in [Procs -> Nat] /\ start_byte \in [Procs -> Nat]
    /\ nbytes \in [Procs -> Nat] /\ ret \in [Procs -> {"idle", "get", "publish"}]
    /\ order \in [Procs -> [Slots -> Slots]]

\* Every field of ipcsync_t and of the handles keeps its type, and no
\* semaphore goes below zero.
TypeOK == /\ SyncType /\ FlagsType /\ ReadersType
          /\ SemType /\ HandleType /\ LocalType

\* The process has decremented WRITE and not yet given it back.
HoldsWrite(p) == pc[p] = "wlock" \/ (IsWriter(p) /\ pc[p] # "wunlock")

\* Of the processes that call ipcbuf_lock_write, one at a time is the
\* designated writer.
WriterExclusion ==
    \A p, q \in Writers : HoldsWrite(p) /\ HoldsWrite(q) => p = q

\* The process has decremented READER_CONN of its slot and not given it back.
HoldsSlot(p) ==
    iread[p] # -1 /\ pc[p] \notin {"runlock", "runlocked"}

\* Two reader processes never share one of the n_readers slots, so no reader
\* takes blocks that were announced to another.
SlotExclusion ==
    \A p, q \in Readers :
        HoldsSlot(p) /\ HoldsSlot(q) /\ iread[p] = iread[q] => p = q

\* A reader between get_next_read and mark_cleared.
HoldsBlock(p) == p \in Readers /\ pc[p] \in {"bytes", "have"}

\* The block a reader holds has been written, and the writer neither reuses
\* nor zeroes its buffer before ipcbuf_mark_cleared.
BlockIntact ==
    \A p \in Readers : HoldsBlock(p) =>
        LET r == r_bufs[iread[p]]
        IN  r < w_buf_curr /\ data[r % NBUFS] = r

\* What ipcbuf_get_next_read returns: a block of the reader's transfer, and as
\* many bytes of it as lie between the start and the end of data.
BytesExact ==
    \A p \in Readers : pc[p] = "have" =>
        LET t == xlog[r_xfers[iread[p]]]
            r == r_bufs[iread[p]]
        IN  /\ t.sb # -1 /\ r >= t.sb /\ (t.eb # -1 => r <= t.eb)
            /\ nbytes[p] = (IF r = t.eb THEN t.ey ELSE BUFSZ)
                         - (IF r = t.sb THEN t.sy ELSE 0)

\* A reader is told of the end of data exactly when it has cleared the last
\* block of the transfer: neither before, nor with blocks of it left unread.
EodExact ==
    \A p \in Readers : state[p] = "RSTOP" /\ r_xfers[iread[p]] > 0 =>
        LET t == xlog[r_xfers[iread[p]] - 1]
        IN  t.eb # -1 /\ r_bufs[iread[p]] = t.eb + 1

\* The account of EODACK: while nobody resets the ring, the writer has ended at
\* most XFERS transfers that a reader has yet to finish.
XferWindow ==
    \A s \in Slots :
        (\A p \in Writers : pc[p] \notin {"rst_sod", "rst_eod"})
            => w_xfer <= r_xfers[s] + XFERS

\* The end of data (eod, e_buf and e_byte) of a transfer that has ended stays in
\* its slot until every reader is through with the transfer: the wait for EODACK
\* in ipcbuf_mark_filled keeps a later end out of the slot.  Nothing of the kind
\* holds for s_buf and s_byte: a reader acknowledges the start of data when it
\* enters the transfer, and ipcbuf_enable_sod may overwrite it from then on.
EndFlagsKept ==
    \A s \in Slots, x \in 0..MaxXfer :
        r_xfers[s] <= x /\ x < w_xfer =>
            /\ eod[x % XFERS] = 1
            /\ e_buf[x % XFERS] = xlog[x].eb /\ e_byte[x % XFERS] = xlog[x].ey

\* Whoever was admitted by READ finds a free slot in ipcbuf_lock_read, as long
\* as no reader gives a slot up while another one looks for one.
LockReadSucceeds == \A p \in Readers : pc[p] # "failed"

=============================================================================
