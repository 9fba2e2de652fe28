------------------------------ MODULE IpcCrash ------------------------------
(***************************************************************************)
(* Clients of the ring buffer that die.  ipcbuf_lock_write and             *)
(* ipcbuf_lock_read take their semaphores with SEM_UNDO, so that the       *)
(* kernel gives WRITE, READ and READER_CONN back when a process ends;      *)
(* everything else in shared memory stays as the process left it.  The     *)
(* process that takes its place has a fresh handle, and finds out from     *)
(* w_state and r_states where to go on.                                    *)
(***************************************************************************)
EXTENDS IpcClients

CONSTANTS
    MaxCrash,   \* bound: crashes and hard resets
    TornData    \* bound: whether data still moves through a ring that is torn

ASSUME CrashAssumption ==
    MaxCrash \in Nat /\ TornData \in BOOLEAN /\ IsFiniteSet(Readers)

VARIABLES
    undo,       \* READ operations that the kernel has yet to undo
    crashes,    \* counter for the bound
    torn        \* history: the ring was left in a state no successor can take up

cvars == <<vars, undo, crashes, torn>>

CrashInit == Init /\ undo = 0 /\ crashes = 0 /\ torn = FALSE

\* The process has decremented READ and not yet given it back.
HoldsRead(p) ==
    pc[p] \in {"rorder", "rtry", "failed", "runlock"} \/ HoldsSlot(p)

\* Nothing but semaphores taken with SEM_UNDO is lost with p: it has no role yet,
\* or is inside a transfer and between two blocks.
Quiet(p) ==
    IF p \in Writers
    THEN \/ pc[p] = "wlock"
         \/ pc[p] = "idle" /\ (state[p] = "VIEWER" \/ (state[p] = "WRITING" /\ NoneOpen))
         \/ pc[p] = "get" /\ state[p] = "WRITING" /\ i[p] = 0 /\ ret[p] = "idle"
    ELSE \/ pc[p] \in {"rorder", "rtry", "rlock", "failed"}
         \/ pc[p] = "idle" /\ state[p] \in {"VIEWER", "READING"}

\* Another process took a role or a slot before the one that gave it back has
\* cleared its state.
Overlap ==
    \/ \E p, q \in Writers : pc[p] = "wunlock" /\ HoldsWrite(q)
    \/ \E p, q \in Readers :
          pc[p] \in {"runlock", "runlocked"} /\ HoldsSlot(q) /\ iread[q] = iread[p]

\* ipcbuf_connect by the process that takes the place of p: a new handle.
FreshHandle(p) ==
    /\ SetState(p, "VIEWER") /\ Goto(p, "idle") /\ Rewind(p)
    /\ xfer' = [xfer EXCEPT ![p] = 0] /\ iread' = [iread EXCEPT ![p] = -1]
    /\ soclock_buf' = [soclock_buf EXCEPT ![p] = 0]
    /\ start_buf' = [start_buf EXCEPT ![p] = 0]
    /\ start_byte' = [start_byte EXCEPT ![p] = 0]
    /\ nbytes' = [nbytes EXCEPT ![p] = 0] /\ ret' = [ret EXCEPT ![p] = "idle"]
    /\ order' = [order EXCEPT ![p] = [k \in Slots |-> k]]

\* Mutants: READ is taken without SEM_UNDO; the semaphores are given back without
\* SEM_UNDO, so that the kernel gives them back again.
UndoNoRead(p) ==
    /\ WRITE' = IF p \in Writers /\ HoldsWrite(p) THEN WRITE + 1 ELSE WRITE
    /\ READER_CONN' = IF p \in Readers /\ HoldsSlot(p)
                      THEN [READER_CONN EXCEPT ![iread[p]] = @ + 1] ELSE READER_CONN
    /\ UNCHANGED <<READ, undo>>
UndoTwice(p) ==
    /\ WRITE' = IF IsWriter(p) \/ pc[p] = "wlock" THEN WRITE + 1 ELSE WRITE
    /\ READER_CONN' = IF iread[p] # -1 THEN [READER_CONN EXCEPT ![iread[p]] = @ + 1]
                      ELSE READER_CONN
    /\ undo' = IF HoldsRead(p) \/ IsReader(p) THEN undo + 1 ELSE undo
    /\ UNCHANGED READ

\* The kernel's undo, one semaphore set after the other, the last used first: what
\* is left of READ follows in UndoRead.
Undo(p) ==
    /\ WRITE' = IF p \in Writers /\ HoldsWrite(p) THEN WRITE + 1 ELSE WRITE
    /\ READER_CONN' = IF p \in Readers /\ HoldsSlot(p)
                      THEN [READER_CONN EXCEPT ![iread[p]] = @ + 1] ELSE READER_CONN
    /\ undo' = IF p \in Readers /\ HoldsRead(p) THEN undo + 1 ELSE undo
    /\ UNCHANGED READ

\* A process dies between two steps.
Crash(p) ==
    /\ crashes < MaxCrash
    /\ Undo(p)
    /\ FreshHandle(p)
    /\ crashes' = crashes + 1
    /\ torn' = (torn \/ ~Quiet(p))
    /\ UNCHANGED <<wsync, count, flags, rsync, datasem, hist>>

UndoRead ==
    /\ undo > 0
    /\ undo' = undo - 1 /\ READ' = READ + 1
    /\ UNCHANGED <<wsync, count, flags, rsync, WRITE, READER_CONN, datasem, handle,
                   pc, i, args, order, hist, crashes, torn>>

\* ipcbuf_hard_reset, which any connected process may call at any time: positions
\* and two semaphores are set back, count, SODACK, EODACK and the states are not.
HardReset ==
    /\ crashes < MaxCrash
    /\ w_buf_curr' = 0 /\ w_buf_next' = 0 /\ w_xfer' = 0
    /\ eod' = [x \in Xfers |-> 1]
    /\ r_bufs' = [s \in Slots |-> 0] /\ r_xfers' = [s \in Slots |-> 0]
    /\ FULL' = [s \in Slots |-> 0] /\ CLEAR' = [s \in Slots |-> 0]
    /\ xlog' = [x \in 0..MaxXfer |-> NoXfer]
    /\ crashes' = crashes + 1 /\ torn' = TRUE
    /\ UNCHANGED <<w_state, count, s_buf, s_byte, e_buf, e_byte, r_states, consem,
                   SODACK, EODACK, handle, pc, i, args, order, data, undo>>

LibraryStep ==
    /\ Next
    /\ TornData \/ ~torn \/ UNCHANGED <<datasem, w_buf_curr, w_buf_next, w_xfer>>
    /\ torn' = (torn \/ Overlap')
    /\ UNCHANGED <<undo, crashes>>

CrashNext == LibraryStep \/ (\E p \in Procs : Crash(p)) \/ UndoRead \/ HardReset

CrashSpec == CrashInit /\ [][CrashNext]_cvars

-----------------------------------------------------------------------------
(* Properties.                                                             *)

\* Whoever takes the place of a process that died in a quiet state goes on where
\* it was: the readers still get the exact bytes of every transfer, intact, and
\* end of data where it is.
TakenUp == ~torn => BlockIntact /\ BytesExact /\ EodExact

Admitted == {p \in Readers : HoldsRead(p)}

\* No role is lost with a process: every unit of READ is with a process that
\* ipcbuf_lock_read admitted, with the kernel, or free.
RolesKept == READ + undo + Cardinality(Admitted) = NREADERS

\* The blocks of transfer x that slot s has yet to get.
UnreadOf(x, s) ==
    LET t == xlog[x]
        from == IF x = r_xfers[s] /\ r_states[s] = "READING" THEN r_bufs[s] ELSE t.sb
    IN  IF t.sb = -1 THEN {}
        ELSE {x} \X (from..((IF t.eb = -1 THEN w_buf_curr ELSE t.eb + 1) - 1))

Unread(s) == UNION {UnreadOf(x, s) : x \in r_xfers[s]..w_xfer}

\* No block is lost or counted twice when a process that died in a quiet state is
\* replaced: whenever nobody is inside a call, FULL is the number of blocks that
\* the slot has yet to get, and count tells how many the slot got or has to get
\* before their buffers are free.
Balanced ==
    (~torn /\ \A p \in Procs : pc[p] \in {"idle", "failed"}) =>
        \A s \in Slots :
            /\ FULL[s] = Cardinality(Unread(s))
            /\ FULL[s] + CLEAR[s] = Cardinality(UNION {{b} \X (1..count[b]) : b \in Bufs})
=============================================================================
