--------------------------------- MODULE Ib ---------------------------------
(***************************************************************************)
(* dada_dbib and dada_ibdb: a read client that sends the blocks of its     *)
(* ring over InfiniBand, and a write client that has them put into the     *)
(* blocks of its own ring by remote DMA (apps/dada_dbib.c, dada_ibdb.c,    *)
(* src/dada_ib.c).                                                         *)
(*                                                                         *)
(* A queue pair carries out its work requests by itself, in order, after   *)
(* they have been posted: what a request sends is what the memory holds    *)
(* when it is carried out.  A SEND takes a receive that the other side has *)
(* posted; an RDMA write takes none.  Both sides run dada_client.c on a    *)
(* ring (Client); byte i of observation o is <<o, i>>.                     *)
(***************************************************************************)
EXTENDS Integers, Sequences, SequencesExt

CONSTANTS
    Obs,        \* the observations in dada_dbib's ring: [blocks, want, offset],
                \* where blocks gives the bytes of each block, want TRANSFER_SIZE
                \* (0: not set), and offset whether the header has OBS_OFFSET
    BUFSZ,      \* bufs_size, the same in both rings
    CHUNK,      \* chunk_size
    NBUFS,      \* nbufs of dada_ibdb's ring
    Single,     \* dada_dbib runs with -s
    MaxFails    \* bound: failures of the link

ASSUME BufferAssumption == CHUNK \in Nat \ {0} /\ BUFSZ % CHUNK = 0 /\ NBUFS > 0

VARIABLES
    s,          \* dada_dbib
    r,          \* dada_ibdb
    qs, qr,     \* their queue pairs, with the registered buffers
    link,       \* the connection
    buf,        \* the memory of dada_ibdb's ring
    ring,       \* bytes of the blocks dada_ibdb closed, how many were read, and
                \* (history) the bytes that dada_ibdb_recv_block has returned
    out,        \* history: the blocks read from dada_ibdb's ring
    ended,      \* history: observations ended in dada_ibdb's ring, with the bytes
    fails

vars == <<s, r, qs, qr, link, buf, ring, out, ended, fails>>

Sum(seq) == FoldSeq(LAMBDA n, m : n + m, 0, seq)
Bytes(o, from, n) == [i \in 1..n |-> <<o, from + i>>]

-----------------------------------------------------------------------------
(* Queue pairs.                                                            *)

\* dada_ib_create_cm, with the buffers that dada_ib_reg_buffer registers: the
\* message last received (sync_from) and the header; no queues yet.
CreateCm ==
    [key |-> "", val |-> 0, hdr |-> 0,
     sc |-> <<>>, rc |-> <<>>, sq |-> <<>>, rq |-> <<>>, used |-> 0, max |-> 0, err |-> FALSE]

\* dada_ib_create_verbs: the completion queues.  rc holds the completions of
\* receives not yet polled (with the one that wait_cq buffers), sc of sends.
CreateVerbs(c) == [c EXCEPT !.sc = <<>>, !.rc = <<>>]

CreateQPNoSpare(c, send_depth) ==                                   \* mutant
    [c EXCEPT !.sq = <<>>, !.rq = <<>>, !.used = 0, !.max = send_depth, !.err = FALSE]

\* dada_ib_create_qp; used counts the requests that hold a place in the queue.
CreateQP(c, send_depth) ==
    [c EXCEPT !.sq = <<>>, !.rq = <<>>, !.used = 0, !.max = send_depth + 1, !.err = FALSE]

NewQP(send_depth) == CreateQP(CreateVerbs(CreateCm), send_depth)

\* dada_ib_reg_buffers: the blocks of a ring, for remote DMA.
RegBuffers(n) == [b \in 0..(n - 1) |-> Bytes(0, 0, BUFSZ)]

\* dada_ib_post_recv zeroes the buffer and posts it.
PostRecv(q, mb) ==
    LET z == IF mb = "sync" THEN [q EXCEPT !.key = "", !.val = 0] ELSE q
    IN  IF q.err THEN [z EXCEPT !.rc = Append(@, "err")]
                 ELSE [z EXCEPT !.rq = Append(@, mb)]

\* ibv_post_send of signalled messages and unsignalled RDMA writes.
Post(q, wrs) ==
    IF q.err THEN [q EXCEPT !.sc = Append(@, "err")]
    ELSE [q EXCEPT !.sq = @ \o wrs, !.used = @ + Len(wrs)]

Message(key, val) == [op |-> "send", key |-> key, val |-> val]

\* ibv_post_send fails when the send queue is full.
Full(q, n) == q.used + n > q.max

\* dada_ib_wait_cq on the receive queue returns 0 when the completion of mb
\* comes, with at most one of another buffer before it and no failed one.
Returns(q, mb) == Len(q.rc) > 1 \/ (Len(q.rc) = 1 /\ q.rc[1] \in {mb, "err"})
Received(q, mb) == q.rc[1] = mb \/ (q.rc[1] # "err" /\ q.rc[2] = mb)
Polled(q, mb) == [q EXCEPT !.rc = RemoveFirst(@, mb)]

\* dada_ib_recv_message: "" stands for key 0, any message.
GotMessage(q, key) == Received(q, "sync") /\ key \in {"", q.key}

\* dada_ib_wait_send: a polled completion frees the places up to its own.
SendReturns(q) == q.sc # <<>>
Sent(q) == q.sc[1] = "ok"
SendPolled(q) == [q EXCEPT !.sc = Tail(@), !.used = 0]

\* A queue pair in error: all that was posted completes with an error.
Flush(q) ==
    [q EXCEPT !.err = TRUE, !.rq = <<>>, !.sq = <<>>,
              !.rc = @ \o [i \in 1..Len(q.rq) |-> "err"],
              !.sc = @ \o [i \in 1..Cardinality({k \in DOMAIN q.sq : q.sq[k].op = "send"})
                             |-> "err"]]

\* A message in the buffer that the receive at the head names.
Delivered(q, w) ==
    LET mb == q.rq[1]
        p == [q EXCEPT !.rq = Tail(@), !.rc = Append(@, mb)]
    IN  IF mb = "sync" THEN [p EXCEPT !.key = w.key, !.val = w.val]
                       ELSE [p EXCEPT !.hdr = w.val]

Done(q) == [q EXCEPT !.sq = Tail(@), !.sc = Append(@, "ok")]

-----------------------------------------------------------------------------
Init ==
    /\ s = [pc |-> "off", o |-> 0, blk |-> 0, sent |-> 0, mem |-> Bytes(0, 0, BUFSZ)]
    /\ r = [pc |-> "off", want |-> 0, got |-> 0, ending |-> FALSE, open |-> FALSE,
            err |-> FALSE]
    /\ qs = NewQP(BUFSZ \div CHUNK)
    /\ qr = NewQP(1)
    /\ link = "none"
    /\ buf = RegBuffers(NBUFS)
    /\ ring = [n |-> <<>>, read |-> 0, got |-> 0]
    /\ out = <<>>
    /\ ended = {}
    /\ fails = 0

Memory == <<buf, ring, out, ended>>

-----------------------------------------------------------------------------
(* The queue pairs at work.                                                *)

\* Chunk i of the block in dada_dbib's memory, into block b of the other ring.
Write(b, i) ==
    [buf EXCEPT ![b] = [k \in 1..BUFSZ |->
        IF k \in ((i - 1) * CHUNK + 1)..(i * CHUNK) THEN s.mem[k] ELSE @[k]]]

\* A header does not fit into the buffer of a message.
Misfit(q, w) == q.rq[1] = "sync" /\ w.key = "HEADER"

\* dada_dbib's requests.  A message waits until a receive is posted
\* (rnr_retry_count 7 of dada_ib_accept), unless the other side is in error.
SendNic ==
    /\ link = "est" /\ qs.sq # <<>>
    /\ LET w == Head(qs.sq) IN
       IF w.op = "write"
       THEN /\ buf' = Write(w.val, w.key)
            /\ qs' = [qs EXCEPT !.sq = Tail(@)]
            /\ UNCHANGED qr
       ELSE /\ qr.err \/ qr.rq # <<>>
            /\ UNCHANGED buf
            /\ IF qr.err \/ Misfit(qr, w)
               THEN qs' = Flush(qs) /\ qr' = Flush(qr)
               ELSE qs' = Done(qs) /\ qr' = Delivered(qr, w)
    /\ UNCHANGED <<s, r, link, ring, out, ended, fails>>

\* dada_ibdb's messages: dada_ib_connect leaves rnr_retry_count 0, so that one
\* without a receive fails at once.
RecvNic ==
    /\ link = "est" /\ qr.sq # <<>>
    /\ IF qs.err \/ qs.rq = <<>>
       THEN qr' = Flush(qr) /\ UNCHANGED qs
       ELSE qr' = Done(qr) /\ qs' = Delivered(qs, Head(qr.sq))
    /\ UNCHANGED <<s, r, link, Memory, fails>>

\* dada_dbib's queue pair goes into error, while the connection manager still
\* gets its messages through.
Fail ==
    /\ link = "est" /\ ~qs.err /\ fails < MaxFails
    /\ qs' = Flush(qs)
    /\ fails' = fails + 1
    /\ UNCHANGED <<s, r, qr, link, Memory>>

\* The link is lost, or the other machine is: nothing gets through any more, not
\* even a disconnection.
Lose ==
    /\ link = "est" /\ fails < MaxFails
    /\ link' = "lost"
    /\ fails' = fails + 1
    /\ UNCHANGED <<s, r, qs, qr, Memory>>

\* What is posted on a lost link is given up after some time.  No receive is: a
\* program without a message on its way waits without a timeout, in
\* dada_ib_wait_cq and in dada_ib_disconnect.
GiveUp ==
    /\ link = "lost"
    /\ \/ qs.sq # <<>> /\ qs' = Flush(qs) /\ UNCHANGED qr
       \/ qr.sq # <<>> /\ qr' = Flush(qr) /\ UNCHANGED qs
    /\ UNCHANGED <<s, r, link, Memory, fails>>

-----------------------------------------------------------------------------
(* dada_dbib.                                                              *)

SKeeps == UNCHANGED <<r, qr, link, Memory, fails>>

At(pc) == [s EXCEPT !.pc = pc]
Ob == Obs[s.o]
Eod == s.blk = Len(Ob.blocks)       \* ipcbuf_eod after the last block is cleared

\* dbib_open: transfer_bytes, 0 without an OBS_OFFSET.
Limit == IF Ob.offset THEN Ob.want ELSE 0

\* Continue at pc if ok holds, else leave dada_client_transfer with an error.
STo(ok, t) == s' = IF ok THEN t ELSE At("unlock")

\* dada_hdu_lock_read, then dada_ib_connect_cm resolves address and route.
SResolve ==
    /\ s.pc = "off" /\ s.o < Len(Obs) /\ fails = 0
    /\ s' = At("init")
    /\ UNCHANGED qs /\ SKeeps

\* dbib_ib_init: the receive for the first READY is posted before the
\* connection is asked for.
SInit ==
    /\ s.pc = "init"
    /\ s' = At("connect")
    /\ qs' = PostRecv(NewQP(BUFSZ \div CHUNK), "sync")
    /\ SKeeps

\* dada_ib_connect: a request to a listener, or a refusal that ends the program.
SConnect ==
    /\ s.pc = "connect"
    /\ \/ /\ r.pc = "listen" /\ link = "none"
          /\ link' = "req" /\ s' = At("request")
       \/ /\ r.pc # "listen"
          /\ s' = At("off") /\ UNCHANGED link
    /\ UNCHANGED <<r, qs, qr, Memory, fails>>

SEstablished ==
    /\ s.pc = "request" /\ link = "est"
    /\ s' = At("read")
    /\ UNCHANGED qs /\ SKeeps

\* dada_client_read takes the next header; dbib_open.
SRead ==
    /\ s.pc = "read" /\ s.o < Len(Obs)
    /\ s' = [s EXCEPT !.pc = "header", !.o = @ + 1, !.blk = 0, !.sent = 0]
    /\ UNCHANGED qs /\ SKeeps

\* dbib_send: READY, then the header.
SHeader ==
    /\ s.pc = "header" /\ Returns(qs, "sync")
    /\ LET ok == GotMessage(qs, "READY")
           q == PostRecv(Polled(qs, "sync"), "sync")
       IN  /\ STo(ok, At("headerSent"))
           /\ qs' = IF ok THEN Post(q, <<Message("HEADER", s.o)>>) ELSE qs
    /\ SKeeps

SHeaderSent ==
    /\ s.pc = "headerSent" /\ SendReturns(qs)
    /\ STo(Sent(qs), At("loop"))
    /\ qs' = SendPolled(qs)
    /\ SKeeps

\* dada_client_io_loop_block of a reader: a block without bytes is passed over.
SLoop ==
    /\ s.pc = "loop"
    /\ s' = IF (Limit # 0 /\ s.sent >= Limit) \/ Eod THEN At("close")
            ELSE IF Ob.blocks[s.blk + 1] = 0 THEN [s EXCEPT !.blk = @ + 1]
            ELSE [s EXCEPT !.pc = "ready",
                           !.mem = [k \in 1..BUFSZ |-> <<s.o, s.sent + k>>]]
    /\ UNCHANGED qs /\ SKeeps

\* dbib_send_block, up to the size of the block.
SReady ==
    /\ s.pc = "ready" /\ Returns(qs, "sync")
    /\ LET ok == GotMessage(qs, "READY") /\ qs.val = 0
           q == PostRecv(Polled(qs, "sync"), "sync")
       IN  /\ STo(ok, At("sizeSent"))
           /\ qs' = IF ok THEN Post(q, <<Message("TO_XFER", Ob.blocks[s.blk + 1])>>)
                    ELSE qs
    /\ SKeeps

SSizeSent ==
    /\ s.pc = "sizeSent" /\ SendReturns(qs)
    /\ STo(Sent(qs), At("address"))
    /\ qs' = SendPolled(qs)
    /\ SKeeps

\* dada_ib_post_sends: the writes of a block, one for each chunk begun.
Writes(n, b) ==
    [i \in 1..((n + CHUNK - 1) \div CHUNK) |-> [op |-> "write", key |-> i, val |-> b]]

AnnounceFirst(n, b) == <<Message("XFERRED", n)>> \o Writes(n, b)    \* mutant

\* What is posted for a block: its writes, and the message that it is there.
BlockRequests(n, b) == Append(Writes(n, b), Message("XFERRED", n))

\* dbib_send_block, from the address on: the writes, a receive for the next
\* READY, and the message that the block is there.
SAddress ==
    /\ s.pc = "address" /\ Returns(qs, "sync")
    /\ LET n == Ob.blocks[s.blk + 1]
           wrs == BlockRequests(n, qs.val)
           ok == GotMessage(qs, "") /\ ~Full(qs, Len(wrs))
       IN  /\ STo(ok, At("blockSent"))
           /\ qs' = IF ok THEN Post(PostRecv(Polled(qs, "sync"), "sync"), wrs) ELSE qs
    /\ SKeeps

\* dbib_send_block returns and ipcio_close_block_read gives the block to the
\* writer of the ring, who may overwrite it.
SBlockSent ==
    /\ s.pc = "blockSent" /\ SendReturns(qs)
    /\ STo(Sent(qs), [s EXCEPT !.pc = "loop", !.blk = @ + 1,
                               !.sent = @ + Ob.blocks[s.blk + 1],
                               !.mem = Bytes(0, 0, BUFSZ)])
    /\ qs' = SendPolled(qs)
    /\ SKeeps

\* dbib_close: unless transfer_bytes were sent, answer READY with 0 bytes.
SClose ==
    /\ s.pc = "close"
    /\ IF Limit = 0 \/ s.sent # Limit
       THEN /\ Returns(qs, "sync")
            /\ LET ok == GotMessage(qs, "READY") IN
               /\ STo(ok, At("endSent"))
               /\ qs' = IF ok THEN Post(Polled(qs, "sync"), <<Message("TO_XFER", 0)>>)
                        ELSE qs
       ELSE s' = At("done") /\ UNCHANGED qs
    /\ SKeeps

SEndSent ==
    /\ s.pc = "endSent" /\ SendReturns(qs)
    /\ STo(Sent(qs), At("done"))
    /\ qs' = SendPolled(qs)
    /\ SKeeps

QuitsOnSuccess == Single /\ s.pc = "done"                           \* mutant

\* main ends after a transfer, even a failed one, if it runs with -s.
Quits == Single

\* dada_ib_client_destroy: the other side's receives are flushed, if it hears.
Disconnect ==
    IF link = "lost" THEN UNCHANGED <<link, qr>>
    ELSE link' = "down" /\ qr' = Flush(qr)

\* dada_client_read transfers until the end of data; then main unlocks the ring.
SDone ==
    /\ s.pc \in {"done", "unlock"}
    /\ IF s.pc = "done" /\ ~Eod
       THEN s' = At("header") /\ UNCHANGED <<link, qr>>
       ELSE IF Quits
       THEN s' = At("off") /\ Disconnect
       ELSE s' = At("read") /\ UNCHANGED <<link, qr>>
    /\ UNCHANGED <<r, qs, Memory, fails>>

SenderNext ==
    \/ SResolve \/ SInit \/ SConnect \/ SEstablished \/ SRead \/ SHeader \/ SHeaderSent \/ SLoop \/ SReady
    \/ SSizeSent \/ SAddress \/ SBlockSent \/ SClose \/ SEndSent \/ SDone

-----------------------------------------------------------------------------
(* dada_ibdb.                                                              *)

RKeeps == UNCHANGED <<s, qs, link, buf, out, ended, fails>>

\* As STo: an error leaves dada_client_write, to wait for the disconnection.
RAt(pc) == [r EXCEPT !.pc = pc]
RTo(ok, t) == r' = IF ok THEN t ELSE [RAt("disconnect") EXCEPT !.err = TRUE]

\* dada_hdu_lock_write and dada_ib_listen_cm.
RListen ==
    /\ r.pc = "off"
    /\ r' = RAt("listen")
    /\ UNCHANGED <<qr, ring>> /\ RKeeps

\* The request arrives: the rest of dada_ibdb_ib_init.
RRequest ==
    /\ r.pc = "listen" /\ link = "req"
    /\ r' = RAt("open")
    /\ qr' = NewQP(1)
    /\ UNCHANGED ring /\ RKeeps

\* dada_client_write calls dada_ibdb_open.
ROpen ==
    /\ r.pc = "open"
    /\ r' = [r EXCEPT !.pc = "accept", !.want = 0, !.got = 0]
    /\ qr' = PostRecv(qr, "header")
    /\ UNCHANGED ring /\ RKeeps

RAccept ==
    /\ r.pc = "accept"
    /\ link' = "est"
    /\ r' = RAt("header")
    /\ UNCHANGED <<s, qs, qr, Memory, fails>>

\* dada_ibdb_recv: READY for the header.
RHeaderReady ==
    /\ r.pc = "header"
    /\ qr' = Post(qr, <<Message("READY", 0)>>)
    /\ r' = [r EXCEPT !.pc = "headerReady", !.ending = FALSE]
    /\ UNCHANGED ring /\ RKeeps

\* A wait for the completion of a message: at pc, then at next.
RSent(pc, next) ==
    /\ r.pc = pc /\ SendReturns(qr)
    /\ RTo(Sent(qr), RAt(next))
    /\ qr' = SendPolled(qr)
    /\ UNCHANGED ring /\ RKeeps

\* dada_ibdb_recv: the header, whose TRANSFER_SIZE is taken whether or not it has
\* an OBS_OFFSET, and a receive for the first size.
RHeader ==
    /\ r.pc = "headerWait" /\ Returns(qr, "header")
    /\ LET ok == Received(qr, "header") IN
       /\ RTo(ok, [r EXCEPT !.pc = "loop", !.want = Obs[qr.hdr].want])
       /\ qr' = IF ok THEN PostRecv(Polled(qr, "header"), "sync") ELSE qr
    /\ UNCHANGED ring /\ RKeeps

\* dada_client_io_loop_block of a writer waits for an empty block and calls
\* dada_ibdb_recv_block: READY.
RLoop ==
    /\ r.pc = "loop"
    /\ IF r.want # 0 /\ r.got >= r.want
       THEN r' = RAt("close") /\ UNCHANGED qr
       ELSE /\ Len(ring.n) - ring.read < NBUFS
            /\ r' = [r EXCEPT !.pc = "ready", !.open = TRUE]
            /\ qr' = Post(qr, <<Message("READY", 0)>>)
    /\ UNCHANGED ring /\ RKeeps

AnswerOnly(q) == Post(q, <<Message("ADDRESS", Len(ring.n) % NBUFS)>>)  \* mutant

\* The answer to a size: a receive for the next message, then the address.
Answer(q) ==
    Post(PostRecv(q, "sync"), <<Message("ADDRESS", Len(ring.n) % NBUFS)>>)

\* dada_ibdb_recv_block, from the size on: 0 ends the transfer, and a block
\* without bytes is closed; else the address of the block is sent.
RSize ==
    /\ r.pc = "size" /\ Returns(qr, "sync")
    /\ LET ok == GotMessage(qr, "TO_XFER")
           zero == qr.val = 0
           q == Polled(qr, "sync")
       IN  /\ RTo(ok, IF zero THEN [r EXCEPT !.pc = "close", !.ending = TRUE, !.open = FALSE]
                      ELSE RAt("addressSent"))
           /\ qr' = IF ~ok \/ zero THEN q ELSE Answer(q)
           /\ ring' = IF ok /\ zero THEN [ring EXCEPT !.n = Append(@, 0)] ELSE ring
    /\ RKeeps

\* dada_ibdb_recv_block returns the bytes; the block is closed, and a short one
\* ends the loop.
RData ==
    /\ r.pc = "data" /\ Returns(qr, "sync")
    /\ LET ok == GotMessage(qr, "XFERRED") IN
       /\ RTo(ok, [r EXCEPT !.pc = IF qr.val < BUFSZ THEN "close" ELSE "loop",
                            !.got = @ + qr.val, !.open = FALSE])
       /\ qr' = IF ok THEN PostRecv(Polled(qr, "sync"), "sync") ELSE qr
       /\ ring' = IF ok THEN [ring EXCEPT !.n = Append(@, qr.val), !.got = @ + qr.val]
                  ELSE ring
    /\ RKeeps

\* dada_ibdb_close: READY once more, unless the transfer was seen to end.
RClose ==
    /\ r.pc = "close"
    /\ IF ~r.ending \/ (r.want # 0 /\ r.want # r.got)
       THEN qr' = Post(qr, <<Message("READY", 0)>>) /\ r' = RAt("closeReady")
       ELSE UNCHANGED qr /\ r' = RAt("disconnect")
    /\ UNCHANGED ring /\ RKeeps

RCloseSize ==
    /\ r.pc = "closeSize" /\ Returns(qr, "sync")
    /\ RTo(GotMessage(qr, "TO_XFER"), RAt("disconnect"))
    /\ qr' = Polled(qr, "sync")
    /\ UNCHANGED ring /\ RKeeps

\* dada_ib_disconnect waits until the other side has disconnected.
RDisconnect ==
    /\ r.pc = "disconnect" /\ link = "down"
    /\ link' = "none"
    /\ r' = RAt("unlock")
    /\ UNCHANGED <<s, qs, qr, Memory, fails>>

\* dada_hdu_unlock_write raises end of data; a block still open is closed with
\* all its bytes.  After an error dada_ibdb ends, else it listens again.
RUnlock ==
    /\ r.pc = "unlock"
    /\ r' = [RAt(IF r.err THEN "ended" ELSE "off") EXCEPT !.open = FALSE]
    /\ ring' = IF r.open THEN [ring EXCEPT !.n = Append(@, BUFSZ)] ELSE ring
    /\ ended' = IF qr.hdr = 0 THEN ended ELSE ended \cup {[o |-> qr.hdr, n |-> r.got]}
    /\ UNCHANGED <<s, qs, qr, link, buf, out, fails>>

\* The reader of dada_ibdb's ring reads a block and clears it.
RTake ==
    /\ ring.read < Len(ring.n)
    /\ LET b == ring.read % NBUFS IN
       out' = Append(out, SubSeq(buf[b], 1, ring.n[ring.read + 1]))
    /\ ring' = [ring EXCEPT !.read = @ + 1]
    /\ UNCHANGED <<s, r, qs, qr, link, buf, ended, fails>>

RecvNext ==
    \/ RListen \/ RRequest \/ ROpen \/ RAccept \/ RHeaderReady \/ RSent("headerReady", "headerWait")
    \/ RHeader \/ RLoop \/ RSent("ready", "size") \/ RSize
    \/ RSent("addressSent", "data") \/ RData \/ RClose
    \/ RSent("closeReady", "closeSize") \/ RCloseSize \/ RDisconnect
    \/ RUnlock

-----------------------------------------------------------------------------
Next == SenderNext \/ RecvNext \/ SendNic \/ RecvNic \/ RTake \/ Fail \/ Lose \/ GiveUp

\* Both programs run on until they block, and dada_dbib -s is run again for the
\* next observation; the adapters carry out what is posted, or give it up; the
\* ring is read.
Spec ==
    /\ Init /\ [][Next]_vars
    /\ WF_vars(SenderNext) /\ WF_vars(RecvNext)
    /\ WF_vars(SendNic) /\ WF_vars(RecvNic) /\ WF_vars(GiveUp) /\ WF_vars(RTake)

-----------------------------------------------------------------------------
(* Properties.                                                             *)

Total(o) == Sum(Obs[o].blocks)

\* Every byte that dada_ibdb_recv_block has returned is, when it is read from
\* dada_ibdb's ring, the byte of dada_dbib's ring in its place: no write comes
\* after the message that the block is there, none is carried out after
\* dada_dbib has given its block back, and none reaches a block already closed.
BlocksExact ==
    LET sent == FlattenSeq([o \in DOMAIN Obs |-> Bytes(o, 0, Total(o))])
        read == FlattenSeq(out)
    IN  \A i \in 1..Len(read) : i <= ring.got => read[i] = sent[i]

\* The two programs agree on where observation o ends: it has no TRANSFER_SIZE,
\* or it ends before it, with a short block.  Of exactly TRANSFER_SIZE bytes (with
\* an OBS_OFFSET), dada_ibdb_close asks for a size that dbib_close does not send;
\* after full blocks only, it asks a second time for the size 0; with more bytes,
\* one of the two goes on where the other waits for something else.
Agreed(o) ==
    \/ Obs[o].want = 0
    \/ /\ Total(o) < Obs[o].want
       /\ \E k \in DOMAIN Obs[o].blocks : Obs[o].blocks[k] \notin {0, BUFSZ}

AllAgreed == \A o \in 1..s.o : Agreed(o)

\* The receives each side posts are there before the other side's messages: no
\* message of dada_ibdb meets an empty receive queue, which rnr_retry_count 0
\* would not forgive, and no program leaves a transfer with an error (a wrong key,
\* a header in a message's buffer, a second unmatched completion, a send queue
\* without room), as long as the link holds and the programs agree on where each
\* observation taken so far ends.
NoError == fails = 0 /\ AllAgreed => s.pc # "unlock" /\ ~r.err

\* Every observation that dada_dbib takes from its ring is ended in dada_ibdb's
\* ring with all its bytes, unless the link fails.
Arrives ==
    \A o \in DOMAIN Obs :
        (s.o = o) ~> ([o |-> o, n |-> Total(o)] \in ended \/ fails > 0)

\* When dada_dbib's queue pair goes into error, the readers of dada_ibdb's ring are
\* not left waiting: dada_dbib -s disconnects, and dada_ibdb, wherever it waits,
\* ends the data and unlocks the ring.  Not when the link is lost: nothing then
\* tells dada_ibdb, whose waits have no timeout.
ErrorEnds == qs.err ~> (r.pc \in {"ended", "listen"} \/ link = "lost")
=============================================================================
