----------------------------- MODULE IpcClients -----------------------------
(***************************************************************************)
(* Clients of the ring buffer: any writer and any reader that keep to the  *)
(* discipline of the clients in this repository (ipcio.c, dada_client.c,   *)
(* apps/, src/tests/), with everything else left open.                     *)
(***************************************************************************)
EXTENDS IpcBuf

CONSTANTS
    MaxOpen,    \* blocks the writer holds open at a time
    SodFrom,    \* the lowest block a start of data is asked for
    Uses        \* which of the optional behaviours below occur

(***************************************************************************)
(* "clock"   the writer clocks data into the ring before start of data     *)
(* "share"   a transfer may begin in the last block of the one before      *)
(* "sodnext" start of data may be raised at a block that is still open     *)
(* "eod"     the writer calls ipcbuf_enable_eod                            *)
(* "unlock"  processes give up the writer and reader roles                 *)
(* "relock"  the writer calls ipcbuf_relock_write                          *)
(* "reset"   the writer calls ipcbuf_reset                                 *)
(* "zero"    the writer calls ipcbuf_zero_next_write                       *)
(***************************************************************************)
AllUses == {"clock", "share", "sodnext", "eod", "unlock", "relock", "reset",
            "zero"}

ASSUME ClientAssumption ==
    MaxOpen \in Nat /\ SodFrom \in Nat /\ Uses \subseteq AllUses

\* The writer has closed every block it opened.
NoneOpen == w_buf_curr = w_buf_next

\* Block b lies after, or is the last block of, the transfers that have ended.
PastXfers(b) == w_xfer = 0 \/ b > e_buf[(w_xfer - 1) % XFERS]
AtXferEnd(b) == w_xfer > 0 /\ b = e_buf[(w_xfer - 1) % XFERS]

\* Start of data is raised for data already clocked in, never inside the
\* transfer before.
StartsAt(b, y) ==
    /\ b >= SodFrom /\ y < BUFSZ
    /\ b < w_buf_curr \/ "sodnext" \in Uses
    /\ PastXfers(b) \/ ("share" \in Uses /\ AtXferEnd(b))

WriterCall(p) ==
    \/ LockWrite(p)
    \/ "unlock" \in Uses /\ NoneOpen /\ state[p] # "WRITING" /\ UnlockWrite(p)
    \/ "relock" \in Uses /\ NoneOpen /\ state[p] = "WRITER" /\ RelockWrite(p)
    \/ "eod" \in Uses /\ EnableEod(p)
    \/ "clock" \in Uses /\ (DisableSod(p) \/ SetSoclockBuf(p))
    \/ \E b \in 0..MaxBlock, y \in 0..BUFSZ :
          "clock" \in Uses /\ StartsAt(b, y) /\ EnableSod(p, b, y)
    \/ /\ w_buf_next < w_buf_curr + MaxOpen
       /\ state[p] # "WRITER" \/ "clock" \in Uses
       /\ GetNextWrite(p)
    \/ "zero" \in Uses /\ ZeroNextWrite(p)
    \/ ~NoneOpen /\ MarkFilledClocked(p)
    \/ \E n \in 0..BUFSZ :
          /\ state[p] = "WRITING" \/ pc[p] = "ending"
          /\ n = 0 <=> NoneOpen
          /\ MarkFilled(p, n)
    \/ "reset" \in Uses /\ NoneOpen /\ state[p] # "WRITING" /\ Reset(p)

ReaderCall(p) ==
    LockRead(p) \/ GetNextRead(p) \/ MarkCleared(p) \/ ResetRead(p)

ReaderLeaves(p) == "unlock" \in Uses /\ state[p] # "READING" /\ UnlockRead(p)

\* Nobody is inside a library call: the clients may leave it at that.
Rest == (\A p \in Procs : pc[p] \in {"idle", "failed"}) /\ UNCHANGED vars

Next ==
    \/ \E p \in Writers : WriterCall(p) \/ WriterStep(p) \/ ZeroPoll(p)
    \/ \E p \in Readers : ReaderCall(p) \/ ReaderStep(p) \/ ReaderLeaves(p)
    \/ Rest

Spec == Init /\ [][Next]_vars
=============================================================================
