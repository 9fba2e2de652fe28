------------------------------- MODULE Client -------------------------------
(***************************************************************************)
(* Clients of a Header plus Data Unit: dada_hdu.c and dada_client.c with   *)
(* the programs built on them.  A write client (dada_diskdb, dada_junkdb)  *)
(* writes one header and the data of one observation; a read client        *)
(* (dada_dbdisk, dada_dbnull) reads headers and stores the data in files.  *)
(*                                                                         *)
(* The two rings are used through whole calls of ipcbuf.c and ipcio.c, one *)
(* step each: IpcBuf and IpcIO take those calls apart.  A byte of data is  *)
(* <<utc, offset>>, the observation and its place in it.                   *)
(***************************************************************************)
EXTENDS Integers, Sequences, SequencesExt

CONSTANTS
    NHDR,       \* nbufs of the Header Block
    NBUFS,      \* nbufs of the Data Block
    BUFSZ,      \* bufsz of the Data Block
    CHUNK,      \* client->optimal_bytes
    RES,        \* byte_multiple of dada_dbdisk (RESOLUTION, and O_DIRECT)
    DEFSZ,      \* ten seconds of data, by BYTES_PER_SECOND
    Jobs,       \* observations that write clients are run for: [app, zc, files]
    Sinks,      \* read clients that may be started: [app, zc]
    MaxJobs     \* bound: runs of write clients

VARIABLES
    hb, db,     \* the rings: Header Block and Data Block
    wr,         \* the write client
    rd,         \* the read client
    disk,       \* the files of dada_dbdisk, in the order they were closed
    ended       \* history: what each run of a write client has written

vars == <<hb, db, wr, rd, disk, ended>>

-----------------------------------------------------------------------------
(* A ring with one reader: blocks ever filled, transfers [s, e] in blocks, *)
(* the semaphores FULL and CLEAR, and the states of writer and reader.     *)

NewRing == [blocks |-> <<>>, xs |-> <<>>, w |-> "DISCON", full |-> 0,
            clear |-> 0, r |-> 0, rx |-> 0, h |-> "VIEWER"]

\* ipcbuf_get_next_write returns once the buffer's last block is cleared.
Room(q, nbufs) == Len(q.blocks) - q.clear < nbufs

\* ipcbuf_get_next_write raises start of data in state WCHANGE.
Started(q) ==
    IF q.w # "WCHANGE" THEN q
    ELSE [q EXCEPT !.w = "WRITING",
                   !.xs = Append(@, [s |-> Len(q.blocks), e |-> -1])]

\* ipcbuf_mark_filled, with or without end of data.
Filled(q, block, eod) ==
    [q EXCEPT !.blocks = Append(@, block), !.full = @ + 1,
              !.w = IF eod THEN "WRITER" ELSE @,
              !.xs = IF eod THEN [@ EXCEPT ![Len(@)].e = Len(q.blocks)] ELSE @]

\* ipcbuf_eod
Eod(q) == q.h = "RSTOP"

\* ipcbuf_get_next_read waits for FULL; state READER goes to the first block
\* of the transfer that r_xfers names.
Readable(q) == ~Eod(q) /\ q.full > 0
Opened(q) == [q EXCEPT !.full = @ - 1, !.h = "READING",
                       !.r = IF q.h = "READER" THEN q.xs[q.rx + 1].s ELSE @]

\* The block a reader at position q.r finds: the last one put in its buffer.
Block(q, nbufs) ==
    LET n == Len(q.blocks)
        k == CHOOSE k \in 0..(n - 1) : k % nbufs = q.r % nbufs /\ k + nbufs >= n
    IN  q.blocks[k + 1]

\* ipcbuf_mark_cleared: the last block of a transfer leaves RSTOP.
Cleared(q) ==
    LET last == q.xs[q.rx + 1].e = q.r
    IN  [q EXCEPT !.clear = @ + 1, !.r = @ + 1,
                  !.rx = IF last THEN @ + 1 ELSE @,
                  !.h = IF last THEN "RSTOP" ELSE @]

\* ipcbuf_reset by a reader at the end of data.
ResetRead(q) == IF Eod(q) THEN [q EXCEPT !.h = "READER"] ELSE q

-----------------------------------------------------------------------------
(* dada_hdu.c: both rings are locked and unlocked, Header Block first.     *)

Unlocked(q) == [q EXCEPT !.w = "DISCON"]

\* dada_hdu_lock_write waits for the write client before to leave.
HduLockWrite ==
    /\ hb.w = "DISCON" /\ hb' = [hb EXCEPT !.w = "WCHANGE"]
    /\ db.w = "DISCON" /\ db' = [db EXCEPT !.w = "WCHANGE"]

\* dada_hdu_lock_read: the slot was left in state DISCON.
HduLockRead ==
    /\ hb' = [hb EXCEPT !.h = "READER"] /\ db' = [db EXCEPT !.h = "READER"]

\* dada_hdu_unlock_read
HduUnlockRead ==
    /\ hb' = [hb EXCEPT !.h = "VIEWER"] /\ db' = [db EXCEPT !.h = "VIEWER"]

-----------------------------------------------------------------------------
(* The write clients.                                                      *)

NoWriter == [pc |-> "none", job |-> 0, app |-> "", zc |-> FALSE, files |-> <<>>,
             cont |-> <<>>, sizes |-> <<>>, cur |-> 0, pos |-> 0, want |-> 0,
             done |-> 0, buf |-> <<>>, blk |-> <<>>, open |-> FALSE]

\* check_contiguity: file k+1 follows on file k.
Continues(files, k) ==
    /\ k < Len(files) /\ files[k].utc = files[k + 1].utc
    /\ files[k + 1].off = files[k].off + files[k].fsize

\* check_contiguity: the size of file k and of the files that follow on it,
\* as the loop over i adds them up.
JoinedSize(files, k) ==
    LET size[j \in 1..Len(files)] ==
            files[j].fsize + IF Continues(files, j) THEN size[j + 1] ELSE 0
    IN  size[k]

\* A file that another one follows on is as long as its FILE_SIZE says.  That
\* JoinedSize is a number cannot be proved from its recursion.
FileRec == [utc : Nat, off : Nat, size : Nat, fsize : Nat]
Fits ==
    /\ NHDR \in Nat \ {0} /\ NBUFS \in Nat \ {0} /\ BUFSZ \in Nat \ {0}
    /\ CHUNK \in Nat \ {0} /\ RES \in Nat \ {0} /\ DEFSZ \in Nat /\ MaxJobs \in Nat
    /\ Jobs \subseteq [app : {"diskdb", "junkdb"}, zc : BOOLEAN, files : Seq(FileRec)]
    /\ Sinks \subseteq [app : {"dbdisk", "dbnull"}, zc : BOOLEAN]
    /\ \A job \in Jobs :
          /\ job.files # <<>>
          /\ \A k \in 1..Len(job.files) :
                /\ JoinedSize(job.files, k) \in Int
                /\ Continues(job.files, k) => job.files[k].size = job.files[k].fsize
ASSUME FitsAssumption == Fits

\* A write client is started: dada_hdu_connect, dada_hdu_lock_write.
StartWriter(job) ==
    /\ wr.pc = "none" /\ wr.job < MaxJobs
    /\ \A j \in 1..Len(ended) : ended[j].job # job
    /\ HduLockWrite
    /\ ended' = Append(ended, [job |-> job, done |-> FALSE, bytes |-> <<>>])
    /\ UNCHANGED <<rd, disk>>

\* main of dada_diskdb: the files are checked once the rings are locked.
StartDiskdb(job) ==
    /\ job.app = "diskdb" /\ StartWriter(job)
    /\ wr' = [NoWriter EXCEPT
                !.pc = "write", !.job = wr.job + 1, !.app = job.app,
                !.zc = job.zc, !.files = job.files, !.cur = 1,
                !.cont = [k \in 1..Len(job.files) |-> Continues(job.files, k)],
                !.sizes = [k \in 1..Len(job.files) |-> JoinedSize(job.files, k)]]

\* main of dada_junkdb: one transfer of transfer_size bytes.
StartJunkdb(job) ==
    /\ job.app = "junkdb" /\ StartWriter(job)
    /\ wr' = [NoWriter EXCEPT
                !.pc = "write", !.job = wr.job + 1, !.app = job.app,
                !.zc = job.zc, !.files = job.files, !.cur = 1,
                !.sizes = <<job.files[1].size>>]

\* file_open_function of dada_diskdb: the header of the file, with FILE_SIZE
\* for all the files that follow on it.
FileHeader == [utc |-> wr.files[wr.cur].utc, off |-> wr.files[wr.cur].off,
               fsize |-> wr.sizes[wr.cur]]

\* dada_junkdb_open: the header file, with FILE_SIZE and UTC_START set.
JunkHeader == [utc |-> wr.files[1].utc, off |-> 0, fsize |-> wr.sizes[1]]

\* dada_client_transfer: the header goes out with end of data, so that the
\* next one is a transfer of its own.
HeaderSent(q, hdr) == Filled(Started(q), hdr, TRUE)

\* dada_client_write up to the loop over the data.
WriteHeader ==
    LET hdr == IF wr.app = "diskdb" THEN FileHeader ELSE JunkHeader
    IN  /\ wr.pc = "write" /\ Room(hb, NHDR) /\ Started(hb).w = "WRITING"
        /\ hb' = HeaderSent(hb, hdr)
        /\ wr' = [wr EXCEPT !.pc = "loop", !.want = hdr.fsize, !.done = 0, !.pos = 0]
        /\ UNCHANGED <<db, rd, disk, ended>>

\* ipcbuf_enable_eod refuses a second header in the same session: main returns
\* without closing the Data Block.  The roles come back with SEM_UNDO.
WriteHeaderFails ==
    /\ wr.pc = "write" /\ Room(hb, NHDR) /\ Started(hb).w # "WRITING"
    /\ wr' = [wr EXCEPT !.pc = "failed"]
    /\ UNCHANGED <<hb, db, rd, disk, ended>>

\* The bytes file k holds from position pos on, at most n of them.
FileBytes(k, pos, n) ==
    LET f == wr.files[k]
        m == IF n < f.size - pos THEN n ELSE f.size - pos
    IN  [b \in 1..m |-> <<f.utc, f.off + pos + b - 1>>]

\* file_read_function and open_next_contiguous_file: a read that comes up short
\* goes on in the next file if that one follows on it.
FileRead(n) ==
    LET head == FileBytes(wr.cur, wr.pos, n)
        next == Len(head) < n /\ wr.cont[wr.cur]
        tail == IF next THEN FileBytes(wr.cur + 1, 0, n - Len(head)) ELSE <<>>
    IN  [bytes |-> head \o tail,
         cur |-> IF next THEN wr.cur + 1 ELSE wr.cur,
         pos |-> IF next THEN Len(tail) ELSE wr.pos + Len(head)]

\* transfer_data of dada_junkdb: as many bytes as it is asked for.
JunkRead(n) ==
    [bytes |-> [b \in 1..n |-> <<wr.files[1].utc, wr.pos + b - 1>>],
     cur |-> wr.cur, pos |-> wr.pos + n]

\* io_function and io_block_function
Source(n) == IF wr.app = "diskdb" THEN FileRead(n) ELSE JunkRead(n)

\* What the loops ask io_function for: n, or what transfer_bytes leaves.
Ask(n) == IF wr.want = 0 \/ wr.want - wr.done > n THEN n ELSE wr.want - wr.done

\* dada_client_io_loop, writing: io_function is called for the next chunk.
LoopRead ==
    LET s == Source(Ask(CHUNK))
    IN  /\ wr.pc = "loop" /\ ~wr.zc /\ wr.buf = <<>>
        /\ wr.want = 0 \/ wr.done < wr.want
        /\ wr' = [wr EXCEPT !.cur = s.cur, !.pos = s.pos, !.buf = s.bytes,
                            !.done = @ + Len(s.bytes),
                            !.pc = IF s.bytes = <<>> THEN "close" ELSE @]
        /\ ended' = [ended EXCEPT ![wr.job].bytes = @ \o s.bytes]
        /\ UNCHANGED <<hb, db, rd, disk>>

\* ipcio_write: a full block is marked filled before the next one is opened.
LoopFill ==
    /\ wr.pc = "loop" /\ wr.buf # <<>> /\ wr.open /\ Len(wr.blk) = BUFSZ
    /\ db' = Filled(db, wr.blk, FALSE)
    /\ wr' = [wr EXCEPT !.open = FALSE, !.blk = <<>>]
    /\ UNCHANGED <<hb, rd, disk, ended>>

\* ipcio_write: as much as fits is copied to the open block, or to the next.
LoopWrite ==
    LET space == BUFSZ - Len(wr.blk)
        n == IF Len(wr.buf) < space THEN Len(wr.buf) ELSE space
    IN  /\ wr.pc = "loop" /\ wr.buf # <<>> /\ n > 0
        /\ wr.open \/ Room(db, NBUFS)
        /\ db' = Started(db)
        /\ wr' = [wr EXCEPT !.open = TRUE, !.blk = @ \o SubSeq(wr.buf, 1, n),
                            !.buf = SubSeq(@, n + 1, Len(@))]
        /\ UNCHANGED <<hb, rd, disk, ended>>

\* dada_client_io_loop_block, writing: io_block_function fills the next block
\* in place; a short block ends the transfer and the loop.
LoopBlock ==
    LET s == Source(Ask(BUFSZ))
        short == Len(s.bytes) < BUFSZ
    IN  /\ wr.pc = "loop" /\ wr.zc
        /\ wr.want = 0 \/ wr.done < wr.want
        /\ Room(db, NBUFS)
        /\ s.bytes = <<>> => Room(Filled(db, <<>>, FALSE), NBUFS)
        /\ db' = Filled(Started(db), s.bytes, short)
        /\ wr' = [wr EXCEPT !.cur = s.cur, !.pos = s.pos,
                            !.done = @ + Len(s.bytes),
                            !.pc = IF short THEN "close" ELSE @]
        /\ ended' = [ended EXCEPT ![wr.job].bytes = @ \o s.bytes]
        /\ UNCHANGED <<hb, rd, disk>>

\* Either loop ends when transfer_bytes have been transferred.
LoopDone ==
    /\ wr.pc = "loop" /\ wr.buf = <<>> /\ wr.want > 0 /\ wr.done >= wr.want
    /\ wr' = [wr EXCEPT !.pc = "close"]
    /\ UNCHANGED <<hb, db, rd, disk, ended>>

\* file_close_function of dada_diskdb: the next file, or quit after the last.
CloseFile ==
    /\ wr.pc = "close" /\ wr.app = "diskdb"
    /\ wr' = [wr EXCEPT !.cur = @ + 1,
                        !.pc = IF wr.cur + 1 > Len(wr.files) THEN "stop" ELSE "write"]
    /\ UNCHANGED <<hb, db, rd, disk, ended>>

\* dada_junkdb_close: dada_client_write is called once.
CloseJunk ==
    /\ wr.pc = "close" /\ wr.app = "junkdb"
    /\ wr' = [wr EXCEPT !.pc = "stop"]
    /\ UNCHANGED <<hb, db, rd, disk, ended>>

\* dada_client_close: end of data in the block that is open, or in an empty
\* one, unless a short block has already ended the transfer.
DataEnded ==
    IF db.w = "WRITER" THEN db
    ELSE Filled(Started(db), IF wr.open THEN wr.blk ELSE <<>>, TRUE)

\* dada_client_close, dada_hdu_unlock_write and exit.
StopWriter ==
    /\ wr.pc = "stop" /\ (wr.open \/ db.w = "WRITER" \/ Room(db, NBUFS))
    /\ db' = Unlocked(DataEnded) /\ hb' = Unlocked(hb)
    /\ wr' = [NoWriter EXCEPT !.job = wr.job]
    /\ ended' = [ended EXCEPT ![wr.job].done = TRUE]
    /\ UNCHANGED <<rd, disk>>

-----------------------------------------------------------------------------
(* The read clients.                                                       *)

NoReader == [pc |-> "none", app |-> "", zc |-> FALSE,
             hdr |-> [utc |-> 0, off |-> 0, fsize |-> 0], off |-> 0,
             utc_start |-> 0, obs_offset |-> 0, number |-> 0,
             want |-> 0, got |-> 0, ask |-> 0, buf |-> <<>>, file |-> <<>>,
             blk |-> <<>>, open |-> FALSE]

\* main of dada_dbdisk, and of dada_dbnull: connect, dada_hdu_lock_read.
StartDbdisk(sink) ==
    /\ rd.pc = "none" /\ sink.app = "dbdisk" /\ HduLockRead
    /\ rd' = [NoReader EXCEPT !.pc = "read", !.app = sink.app, !.zc = sink.zc]
    /\ UNCHANGED <<wr, disk, ended>>
StartDbnull(sink) ==
    /\ rd.pc = "none" /\ sink.app = "dbnull" /\ HduLockRead
    /\ rd' = [NoReader EXCEPT !.pc = "read", !.app = sink.app, !.zc = sink.zc]
    /\ UNCHANGED <<wr, disk, ended>>

\* dada_client_read: the header is copied and its block cleared.
ReadHeader ==
    LET q == Opened(hb)
        h == Block(q, NHDR)
    IN  /\ rd.pc = "read" /\ Readable(hb)
        /\ hb' = Cleared(q)
        /\ rd' = [rd EXCEPT !.pc = "transfer", !.hdr = h, !.off = h.off]
        /\ UNCHANGED <<db, wr, disk, ended>>

\* Mutant: the call waits for another header instead of returning 0.
ReadHeaderHangs ==
    /\ rd.pc = "read" /\ Eod(hb)
    /\ UNCHANGED vars

\* ipcbuf_get_next_read returns 0 after end of data on the Header Block: the
\* error ends dada_dbdisk, while dada_dbnull locks again.
ReadHeaderFails ==
    /\ rd.pc = "read" /\ Eod(hb)
    /\ rd' = [rd EXCEPT !.pc = "unlock"]
    /\ UNCHANGED <<hb, db, wr, disk, ended>>

\* Mutant: the size is rounded without regard to where the file starts.
FileSizeFromZero(off, fsize) ==
    LET size == IF fsize = 0 THEN DEFSZ ELSE fsize
        gap  == size % RES
        n    == size - gap + IF gap > RES \div 2 THEN RES ELSE 0
    IN  IF n < 0 THEN 0 ELSE n

\* file_open_function of dada_dbdisk: the size for which the file ends on a
\* multiple of RES.  Below 0 it wraps to a size that no transfer reaches: like 0,
\* it is no limit.
FileSize(off, fsize) ==
    LET size == IF fsize = 0 THEN DEFSZ ELSE fsize
        gap  == (off + size) % RES
        n    == size - gap + IF gap > RES \div 2 THEN RES ELSE 0
    IN  IF n < 0 THEN 0 ELSE n

\* Mutant: the offset of the header is left at the start of the observation.
OpenSinkSameOffset ==
    /\ rd.pc = "transfer" /\ ~Eod(db)
    /\ rd' = [rd EXCEPT !.pc = "loop", !.got = 0,
                        !.want = FileSize(rd.off, rd.hdr.fsize),
                        !.number = 0, !.utc_start = rd.hdr.utc]
    /\ UNCHANGED <<hb, db, wr, disk, ended>>

\* file_open_function of dada_dbdisk: the file number counts files with the same
\* name, and FILE_SIZE and FILE_NUMBER go into the header.
DiskOpen(r) ==
    LET same  == r.hdr.utc = r.utc_start /\ r.off = r.obs_offset
        fsize == FileSize(r.off, r.hdr.fsize)
    IN  [r EXCEPT !.hdr.fsize = fsize, !.want = fsize,
                  !.number = IF same THEN @ + 1 ELSE 0,
                  !.utc_start = r.hdr.utc, !.obs_offset = r.off]

\* sock_open_function of dada_dbnull
NullOpen(r) == [r EXCEPT !.want = r.hdr.fsize]

\* dada_client_read, one round of its loop: OBS_OFFSET is set in the header and
\* dada_client_transfer calls open_function.
OpenSink ==
    LET r == [rd EXCEPT !.pc = "loop", !.hdr.off = rd.off, !.got = 0]
    IN  /\ rd.pc = "transfer" /\ ~Eod(db)
        /\ rd' = IF rd.app = "dbdisk" THEN DiskOpen(r) ELSE NullOpen(r)
        /\ UNCHANGED <<hb, db, wr, disk, ended>>

\* The loops go on until transfer_bytes, 0 for no limit.
InLoop == rd.pc = "loop" /\ (rd.want = 0 \/ rd.got < rd.want)

\* The chunk that ipcio_read is asked for.
Chunk == IF rd.want = 0 \/ rd.want - rd.got > CHUNK THEN CHUNK ELSE rd.want - rd.got

\* ipcio_read: one block's worth; a block that is used up is cleared at once.
LoopFetch ==
    LET q    == IF rd.open THEN db ELSE Opened(db)
        rest == IF rd.open THEN rd.blk ELSE Block(q, NBUFS)
        need == Chunk - Len(rd.buf)
        n    == IF need < Len(rest) THEN need ELSE Len(rest)
        left == SubSeq(rest, n + 1, Len(rest))
    IN  /\ InLoop /\ ~rd.zc /\ ~Eod(db) /\ Len(rd.buf) < Chunk
        /\ rd.open \/ Readable(db)
        /\ db' = IF left = <<>> THEN Cleared(q) ELSE q
        /\ rd' = [rd EXCEPT !.buf = @ \o SubSeq(rest, 1, n), !.blk = left,
                            !.open = left # <<>>]
        /\ UNCHANGED <<hb, wr, disk, ended>>

\* file_write_function of dada_dbdisk; dada_dbnull drops what it gets.
Stored(file, bytes) == file \o bytes
Dropped(file, bytes) == file
Sunk(bytes) == IF rd.app = "dbdisk" THEN Stored(rd.file, bytes) ELSE Dropped(rd.file, bytes)

\* dada_client_io_loop, reading: io_function gets the chunk, or what there was
\* before the end of data.
LoopStore ==
    /\ InLoop /\ ~rd.zc /\ rd.buf # <<>> /\ (Eod(db) \/ Len(rd.buf) = Chunk)
    /\ rd' = [rd EXCEPT !.file = Sunk(rd.buf), !.got = @ + Len(rd.buf), !.buf = <<>>]
    /\ UNCHANGED <<hb, db, wr, disk, ended>>

\* dada_client_io_loop_block, reading: a whole block, even past transfer_bytes.
LoopStoreBlock ==
    LET q == Opened(db)
        b == Block(q, NBUFS)
    IN  /\ InLoop /\ rd.zc /\ Readable(db)
        /\ db' = Cleared(q)
        /\ rd' = [rd EXCEPT !.file = Sunk(b), !.got = @ + Len(b)]
        /\ UNCHANGED <<hb, wr, disk, ended>>

TheFile == [utc |-> rd.hdr.utc, off |-> rd.hdr.off, number |-> rd.number,
            fsize |-> rd.hdr.fsize, zc |-> rd.zc, bytes |-> rd.file]

\* Mutant: a file that the end of data cut short is removed.
DiskCloseWhole == IF rd.got < rd.want THEN disk ELSE Append(disk, TheFile)

\* file_close_function of dada_dbdisk removes a file without data.
DiskClose == IF rd.got = 0 THEN disk ELSE Append(disk, TheFile)

\* sock_close_function of dada_dbnull
NullClose == disk

\* The loop ends with transfer_bytes or with the end of data, and
\* dada_client_transfer calls close_function.
CloseSink ==
    /\ rd.pc = "loop" /\ rd.buf = <<>> /\ (Eod(db) \/ ~InLoop)
    /\ disk' = IF rd.app = "dbdisk" THEN DiskClose ELSE NullClose
    /\ rd' = [rd EXCEPT !.pc = "transfer", !.off = @ + rd.got, !.file = <<>>]
    /\ UNCHANGED <<hb, db, wr, ended>>

\* dada_client_read returns at the end of data, after ipcbuf_reset of the Data
\* Block; main of dada_dbdisk reads on, main of dada_dbnull unlocks first.
ReadDone ==
    /\ rd.pc = "transfer" /\ Eod(db)
    /\ db' = ResetRead(db)
    /\ rd' = [rd EXCEPT !.pc = IF rd.app = "dbdisk" THEN "read" ELSE "unlock"]
    /\ UNCHANGED <<hb, wr, disk, ended>>

\* main of dada_dbdisk after an error, of dada_dbnull after a single transfer:
\* dada_hdu_unlock_read and exit.
Quit ==
    /\ rd.pc = "unlock" /\ HduUnlockRead
    /\ rd' = NoReader
    /\ UNCHANGED <<wr, disk, ended>>

\* main of dada_dbnull: unlocked and locked again for the next transfer.
Relock ==
    /\ rd.pc = "unlock" /\ rd.app = "dbnull" /\ HduLockRead
    /\ rd' = [rd EXCEPT !.pc = "read"]
    /\ UNCHANGED <<wr, disk, ended>>

-----------------------------------------------------------------------------

Init ==
    /\ hb = NewRing /\ db = NewRing /\ wr = NoWriter /\ rd = NoReader
    /\ disk = <<>> /\ ended = <<>>

Writer ==
    \/ WriteHeader \/ WriteHeaderFails \/ LoopRead \/ LoopFill \/ LoopWrite \/ LoopBlock
    \/ LoopDone \/ CloseFile \/ CloseJunk
    \/ StopWriter
Reader ==
    \/ ReadHeader \/ ReadHeaderFails \/ OpenSink \/ LoopFetch \/ LoopStore
    \/ LoopStoreBlock \/ CloseSink \/ ReadDone \/ Quit \/ Relock
    \/ \E sink \in Sinks : StartDbdisk(sink) \/ StartDbnull(sink)

Next == (\E job \in Jobs : StartDiskdb(job) \/ StartJunkdb(job)) \/ Writer \/ Reader

\* Every process that can run does, and a reader that has ended is run again.
Spec == Init /\ [][Next]_vars /\ WF_vars(Writer) /\ WF_vars(Reader)

-----------------------------------------------------------------------------
(* What the clients promise.                                               *)

\* Every file holds the bytes its header names: those of the observation
\* UTC_START from OBS_OFFSET on, although header and data come through two
\* rings that only the order of the calls keeps in step.
FilesMatch ==
    \A k \in 1..Len(disk) : \A b \in 1..Len(disk[k].bytes) :
        disk[k].bytes[b] = <<disk[k].utc, disk[k].off + b - 1>>

\* When dada_client_read comes to the end of data, the files of the observation
\* hold, one after the other, exactly what the write client read: no byte is
\* lost or stored twice where a chunk, a block, a file or the transfer ends.
FilesCover ==
    LET Mine(f) == f.utc = rd.hdr.utc
    IN  rd.app = "dbdisk" /\ rd.pc = "transfer" /\ Eod(db) =>
            FlattenSeq([k \in 1..Len(SelectSeq(disk, Mine)) |->
                            SelectSeq(disk, Mine)[k].bytes]) = ended[db.rx].bytes

\* No two runs of write clients are for the same UTC_START.
OwnUtc == \A a, b \in Jobs : a.files[1].utc = b.files[1].utc => a = b

\* dada_diskdb finds that the files follow on each other: where dada_dbdisk
\* started a new file for the same observation, it starts FILE_SIZE bytes
\* after the one before, on a multiple of the resolution.
FilesChain ==
    \A k \in 1..(Len(disk) - 1) :
        disk[k].utc = disk[k + 1].utc /\ ~disk[k].zc =>
            /\ disk[k + 1].off = disk[k].off + disk[k].fsize
            /\ disk[k + 1].off % RES = 0

\* The end of a write client's transfer reaches the reader: every run of a
\* write client that has ended is read to its end.
AllRead ==
    \A j \in 1..MaxJobs :
        (Len(ended) >= j /\ ended[j].done) ~> db.rx >= j
=============================================================================
