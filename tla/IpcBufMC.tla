------------------------------ MODULE IpcBufMC ------------------------------
(***************************************************************************)
(* Checks of IpcBuf: the data stream it implements, and liveness.          *)
(***************************************************************************)
EXTENDS IpcClients

\* The process that reads through slot s, if it is at one of the labels.
ReadersAt(s, labels) == {p \in Readers : iread[p] = s /\ pc[p] \in labels}

\* What the reader of slot s has been handed and not yet cleared.
Handed(s) ==
    LET r == r_bufs[s]
        t == xlog[r_xfers[s]]
        have == ReadersAt(s, {"have"})
    IN  IF have # {}
        THEN LET p == CHOOSE q \in have : TRUE
             IN  <<r, start_byte[p], start_byte[p] + nbytes[p]>>
        ELSE IF ReadersAt(s, {"cleared"}) # {}
        THEN <<r, IF r = t.sb THEN t.sy ELSE 0, IF r = t.eb THEN t.ey ELSE BUFSZ>>
        ELSE <<>>

Stream == INSTANCE DataStream WITH
    Consumers <- Slots, Block <- BUFSZ, Limit <- MaxXfer,
    written <- w_buf_curr, nx <- w_xfer, log <- xlog, rx <- r_xfers,
    rb <- [s \in Slots |-> IF r_states[s] = "READING" THEN r_bufs[s] ELSE -1],
    got <- [s \in Slots |-> Handed(s)]

\* The ring buffer implements the stream of DataStream: each reader gets
\* every block of every transfer once, in order, with its exact bytes, and
\* end of data after the last one, whatever the interleaving of semaphore
\* operations in ipcbuf.c.
ImplementsStream == Stream!Spec

(***************************************************************************)
(* A process that is inside a library call and not blocked in a semop      *)
(* goes on, and readers keep reading: every reader client of the           *)
(* repository loops on get_next_read, mark_cleared and reset.  Nothing is  *)
(* assumed about whether or when the writer's client calls anything.       *)
(***************************************************************************)
Fairness ==
    /\ \A p \in Writers : WF_vars(WriterStep(p))
    /\ \A p \in Readers : WF_vars(ReaderStep(p) \/ ReaderCall(p))

LiveSpec == Spec /\ Fairness

\* Slot s has a cleared buffer to its credit, or its reader has a block to clear.
WillClear(s) ==
    CLEAR[s] > 0 \/ FULL[s] > 0 \/ ReadersAt(s, {"sod_inc", "bytes", "have"}) # {}

\* Every call the writer makes returns: no wait for SODACK, EODACK or CLEAR in a
\* semop lasts forever while the readers read, and the poll of
\* ipcbuf_zero_next_write ends if every reader has cleared, or is going to clear,
\* a buffer that the writer has not taken back.  On a fresh ring, or after every
\* CLEAR has been taken back, that call polls for ever (ipcbuf.c:867-880), and the
\* property says nothing of it.
WriterReturns ==
    \A p \in Writers :
        pc[p] \notin {"idle", "ending"} /\ (pc[p] = "zero" => \A s \in Slots : WillClear(s))
            ~> pc[p] = "idle"

\* Every transfer that the writer ends is read to its end by every reader.
TransfersRead ==
    \A x \in 0..(MaxXfer - 1), s \in Slots : w_xfer > x ~> r_xfers[s] > x
=============================================================================
