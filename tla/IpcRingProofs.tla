--------------------------- MODULE IpcRingProofs ---------------------------
(***************************************************************************)
(* Theorems about the data in the ring buffer, for every number of buffers,*)
(* readers, transfers and processes: a reader that holds a block holds the *)
(* block that was written for it, with the bytes of its transfer, and is   *)
(* told of the end of data after the last block.                           *)
(*                                                                         *)
(* The argument is an account of the semaphores FULL, CLEAR and SODACK and *)
(* of the counts of uses of the buffers.  It goes in layers, each of which *)
(* uses the ones before: who is where in the code; where transfers start   *)
(* and end; the flags; SODACK; where the readers are, and FULL; the counts *)
(* and CLEAR; the bytes.  At the end they are put together: every step of  *)
(* the library is a step of the stream of DataStream under the mapping of  *)
(* IpcBufMC, or leaves what the mapping reads alone.                       *)
(***************************************************************************)
EXTENDS IpcBufProofs, IpcBufMC

(***************************************************************************)
(* The clients of these theorems hold their roles for good, do not reset   *)
(* the ring, hold no more blocks open than the ring has, and start a       *)
(* transfer after the last block of the one before, in a block that was    *)
(* written after the first (ipcbuf_enable_sod leaves the flag of the end   *)
(* of data as it is but when nothing was written yet).                     *)
(***************************************************************************)
Disciplined ==
    /\ Uses \cap {"share", "sodnext", "unlock", "reset"} = {}
    /\ MaxOpen <= NBUFS
    /\ "clock" \in Uses => SodFrom > 0

-----------------------------------------------------------------------------
(* Who is where.                                                           *)

\* The state that goes with each place in the writer's code, and where
\* ipcbuf_enable_sod and the wait for a buffer return to.
WriterCtl ==
    /\ (\A p \in Writers : ~IsWriter(p)) => w_state = "DISCON"
    /\ \A p \in Writers :
        /\ pc[p] \notin {"wunlock", "rst_clear", "rst_sod", "rst_eod"}
        /\ pc[p] = "ending" => state[p] = "WCHANGE"
        /\ pc[p] = "zero" => IsWriter(p)
        /\ pc[p] = "sod_ack" =>
             state[p] \in {"WRITER", "WCHANGE"} /\ ret[p] \in {"idle", "get"}
        /\ pc[p] = "sod_full" => state[p] = "WRITING" /\ ret[p] \in {"idle", "get"}
        /\ pc[p] = "get" => \/ state[p] \in {"WRITER", "WRITING"} /\ ret[p] = "idle"
                            \/ state[p] = "WRITER" /\ ret[p] = "publish"
        /\ pc[p] = "eod_ack" => state[p] \in {"WRITING", "WCHANGE"}
        /\ pc[p] \in {"publish", "full"} => state[p] \in {"WRITING", "WRITER"}
        /\ pc[p] \notin {"sod_ack", "sod_full", "get"} => ret[p] = "idle"

\* A slot that nobody has is as it was created; the states of a reader and of its
\* slot agree.
ReaderCtl ==
    /\ \A s \in Slots : (\A p \in Readers : iread[p] # s) => r_states[s] = "DISCON"
    /\ \A p \in Readers :
        /\ pc[p] \notin {"runlock", "runlocked"}
        /\ pc[p] = "sod_inc" => state[p] = "READER"
        /\ pc[p] \in {"bytes", "have", "cleared"} => state[p] = "READING"
        /\ pc[p] \in {"rorder", "rtry", "rlock", "failed"} => state[p] = "VIEWER"
        /\ iread[p] \in Slots => IsReader(p) \/ pc[p] = "rlock"
        /\ pc[p] = "rlock" => r_states[iread[p]] = "DISCON"
        /\ IsReader(p) => r_states[iread[p]] = state[p]
        /\ state[p] = "READING" => xfer[p] = r_xfers[iread[p]] % XFERS

\* The steps of disciplined clients.
PlainWriter(p) ==
    \/ LockWrite(p) \/ LockWriteState(p)
    \/ NoneOpen /\ state[p] = "WRITER" /\ RelockWrite(p)
    \/ EnableEod(p) \/ DisableSod(p) \/ SetSoclockBuf(p)
    \/ \E b \in 0..MaxBlock, y \in 0..BUFSZ :
          /\ b > 0 /\ b < w_buf_curr /\ y < BUFSZ /\ PastXfers(b)
          /\ EnableSod(p, b, y)
    \/ SodAck(p) \/ SodSet(p) \/ SodFull(p) \/ SodDone(p)
    \/ w_buf_next < w_buf_curr + NBUFS /\ GetNextWrite(p)
    \/ GetClear(p) \/ GetDone(p) \/ ZeroNextWrite(p) \/ ZeroDone(p)
    \/ ~NoneOpen /\ MarkFilledClocked(p)
    \/ \E n \in 0..BUFSZ : /\ state[p] = "WRITING" \/ pc[p] = "ending"
                           /\ n = 0 <=> NoneOpen
                           /\ MarkFilled(p, n)
    \/ EodAck(p) \/ EodSet(p) \/ Publish(p) \/ MarkFull(p)

PlainReader(p) ==
    \/ LockRead(p) \/ LockReadOrder(p) \/ LockReadTry(p) \/ LockReadSkip(p)
    \/ LockReadFail(p) \/ LockReadState(p)
    \/ GetNextRead(p) \/ SodInc(p) \/ ReadBytes(p) \/ MarkCleared(p)
    \/ ClearedNext(p) \/ ClearedEod(p) \/ ResetRead(p)

LEMMA PlainNext ==
    ASSUME Disciplined, TypeOK, WriterCtl, ReaderCtl, [Next]_vars
    PROVE  \/ \E p \in Writers : PlainWriter(p)
           \/ \E p \in Readers : PlainReader(p)
           \/ UNCHANGED vars
  <1>1. /\ "share" \notin Uses /\ "sodnext" \notin Uses /\ "unlock" \notin Uses
        /\ "reset" \notin Uses /\ MaxOpen <= NBUFS /\ MaxOpen \in Nat /\ SodFrom \in Nat
        /\ "clock" \in Uses => SodFrom > 0
    BY ClientAssumption DEF Disciplined
  <1>2. NBUFS \in Nat /\ w_buf_curr \in Nat /\ w_buf_next \in Nat
    BY SizesAssumption DEF TypeOK, SyncType
  <1>3. ASSUME NEW p \in Writers, WriterCall(p) PROVE PlainWriter(p)
    <2>1. ASSUME NEW b \in 0..MaxBlock, NEW y \in 0..BUFSZ,
                 "clock" \in Uses /\ StartsAt(b, y) /\ EnableSod(p, b, y)
          PROVE  PlainWriter(p)
      <3>1. b > 0 /\ b < w_buf_curr /\ y < BUFSZ /\ PastXfers(b)
        BY <1>1, <1>2, <2>1, BoundsAssumption DEF StartsAt
      <3> QED BY <2>1, <3>1 DEF PlainWriter
    <2>2. w_buf_next < w_buf_curr + MaxOpen => w_buf_next < w_buf_curr + NBUFS
      BY <1>1, <1>2
    <2> QED BY Zenon, <1>1, <1>3, <2>1, <2>2 DEF WriterCall, PlainWriter
  <1>4. ASSUME NEW p \in Writers, WriterStep(p) PROVE PlainWriter(p)
    BY <1>4 DEF WriterStep, PlainWriter, WriterCtl, UnlockWriteState, ResetClear,
                ResetCleared, ResetSod, ResetEod, ResetDone
  <1>5. ASSUME NEW p \in Readers, ReaderCall(p) \/ ReaderStep(p) \/ ReaderLeaves(p)
        PROVE  PlainReader(p)
    BY <1>1, <1>5 DEF ReaderCall, ReaderStep, ReaderLeaves, PlainReader, ReaderCtl,
                      UnlockReadRole, UnlockReadState
  <1> QED BY <1>3, <1>4, <1>5 DEF Next, Rest, ZeroPoll

\* Disciplined clients keep their roles, so that there is one writer, and one
\* reader for each slot.
LEMMA OneWriter ==
    ASSUME WriterExclusion, WriterCtl, NEW p \in Writers, NEW q \in Writers,
           IsWriter(p) \/ pc[p] = "wlock", IsWriter(q) \/ pc[q] = "wlock"
    PROVE  p = q
  BY DEF WriterExclusion, HoldsWrite, WriterCtl

LEMMA OneReader ==
    ASSUME TypeOK, SlotInv, ReaderCtl, NEW p \in Readers, NEW q \in Readers,
           iread[p] \in Slots, iread[p] = iread[q]
    PROVE  p = q
  <1>1. iread[p] # -1
    BY SizesAssumption DEF Slots
  <1> QED BY <1>1 DEF SlotInv, Holds, HoldsSlot, ReaderCtl

-----------------------------------------------------------------------------
(* What the two sides leave alone.                                         *)

\* Nothing that the accounts read of the writer, and of the readers.
WriterStill ==
    /\ UNCHANGED <<wsync, count, flags, hist>>
    /\ \A q \in Writers :
        /\ pc'[q] = pc[q] /\ state'[q] = state[q] /\ xfer'[q] = xfer[q]
        /\ i'[q] = i[q] /\ ret'[q] = ret[q] /\ nbytes'[q] = nbytes[q]
        /\ start_buf'[q] = start_buf[q] /\ start_byte'[q] = start_byte[q]

ReaderStill ==
    /\ UNCHANGED rsync
    /\ \A q \in Readers :
        /\ pc'[q] = pc[q] /\ state'[q] = state[q] /\ iread'[q] = iread[q]
        /\ xfer'[q] = xfer[q] /\ start_byte'[q] = start_byte[q] /\ nbytes'[q] = nbytes[q]

LEMMA ReadersLeaveWriter ==
    ASSUME TypeOK, NEW p \in Readers, PlainReader(p)
    PROVE  WriterStill
  <1> SUFFICES ASSUME NEW q \in Writers
               PROVE  /\ UNCHANGED <<wsync, count, flags, hist>>
                      /\ pc'[q] = pc[q] /\ state'[q] = state[q] /\ xfer'[q] = xfer[q]
                      /\ i'[q] = i[q] /\ ret'[q] = ret[q] /\ nbytes'[q] = nbytes[q]
                      /\ start_buf'[q] = start_buf[q] /\ start_byte'[q] = start_byte[q]
    <2>1. UNCHANGED <<wsync, count, flags, hist>>
      BY DEF PlainReader, LockRead, LockReadOrder, LockReadTry, LockReadSkip, LockReadFail,
             LockReadState, GetNextRead, SodInc, ReadBytes, MarkCleared, ClearedNext,
             ClearedEod, ResetRead
    <2> QED BY <2>1 DEF WriterStill
  <1>0. q # p /\ q \in Procs /\ p \in Procs
    BY ProcsAssumption DEF Procs
  <1> QED
    BY <1>0 DEF PlainReader, TypeOK, HandleType, LocalType, LockRead, Goto,
       LockReadOrder, LockReadTry, Rewind, LockReadSkip, Advance, LockReadFail,
       LockReadState, SetState, GetNextRead, IdleReader, SodInc, ReadBytes, MarkCleared,
       ClearedNext, ClearedEod, ResetRead, handle, args, wsync, flags, hist

LEMMA WriterLeavesReaders ==
    ASSUME TypeOK, NEW p \in Writers, PlainWriter(p)
    PROVE  ReaderStill
  <1>1. UNCHANGED rsync
    BY DEF PlainWriter, LockWrite, LockWriteState, RelockWrite, EnableEod, DisableSod,
       SetSoclockBuf, EnableSod, SodAck, SodSet, SodFull, SodDone, GetNextWrite,
       GetClear, GetDone, ZeroNextWrite, ZeroDone, MarkFilledClocked, MarkFilled, EodAck, EodSet,
       Publish, MarkFull, rsync
  <1>2. ASSUME NEW q \in Readers
        PROVE  /\ pc'[q] = pc[q] /\ state'[q] = state[q] /\ iread'[q] = iread[q]
               /\ xfer'[q] = xfer[q] /\ start_byte'[q] = start_byte[q]
               /\ nbytes'[q] = nbytes[q]
    <2>0. q # p /\ q \in Procs /\ p \in Procs
      BY ProcsAssumption DEF Procs
    <2>1. /\ pc \in [Procs -> Labels] /\ state \in [Procs -> PStates]
          /\ xfer \in [Procs -> Xfers] /\ start_byte \in [Procs -> Nat]
          /\ nbytes \in [Procs -> Nat]
      BY DEF TypeOK, HandleType, LocalType
    <2>2. pc'[q] = pc[q]
      BY <2>0, <2>1 DEF PlainWriter, LockWrite, Goto, LockWriteState, SetBoth, SetState,
         RelockWrite, IdleWriter, EnableEod, DisableSod, SetSoclockBuf, EnableSod,
         SodAllowed, CallEnableSod, Rewind, SodAck, Advance, SodSet, SodFull, SodDone,
         GetNextWrite, GetClear, TakeClear, GetDone, ZeroNextWrite, ZeroDone, MarkFilledClocked,
         MarkFilled, EodAck, EodSet, Publish, MarkFull
    <2> QED
      BY <2>0, <2>1, <2>2 DEF PlainWriter, LockWrite, Goto,
         LockWriteState, SetBoth, SetState, RelockWrite, IdleWriter, EnableEod,
         DisableSod, SetSoclockBuf, EnableSod, SodAllowed, CallEnableSod, Rewind,
         SodAck, Advance, SodSet, SodFull, SodDone, GetNextWrite, GetClear, TakeClear,
         GetDone, ZeroNextWrite, ZeroDone, MarkFilledClocked, MarkFilled, EodAck, EodSet, Publish,
         MarkFull, handle, args
  <1> QED BY <1>1, <1>2 DEF ReaderStill

-----------------------------------------------------------------------------
(* Who is where: every step keeps the control invariants.                  *)

LEMMA WriterCtlNext ==
    ASSUME TypeOK, WriterCtl, NEW w \in Writers, PlainWriter(w)
    PROVE  WriterCtl'
  <1>0. \A q \in Writers : q \in Procs
    BY DEF Procs
  <1>1. ASSUME NEW p \in Writers, LockWrite(p)
        PROVE  WriterCtl'
    BY <1>0, <1>1 DEF TypeOK, HandleType, LocalType, Procs, WriterCtl, IsWriter,
       LockWrite, Goto, wsync, handle, args
  <1>2. ASSUME NEW p \in Writers, LockWriteState(p)
        PROVE  WriterCtl'
    BY <1>0, <1>2 DEF TypeOK, HandleType, LocalType, Procs, WriterCtl, IsWriter,
       LockWriteState, SetBoth, SetState, Goto, wsync, handle, args
  <1>3. ASSUME NEW p \in Writers, NoneOpen, state[p] = "WRITER", RelockWrite(p)
        PROVE  WriterCtl'
    BY <1>0, <1>3 DEF TypeOK, HandleType, LocalType, Procs, WriterCtl, IsWriter,
       RelockWrite, IdleWriter, SetBoth, SetState, wsync, handle, args
  <1>4. ASSUME NEW p \in Writers, EnableEod(p)
        PROVE  WriterCtl'
    BY <1>0, <1>4 DEF TypeOK, HandleType, LocalType, Procs, WriterCtl, IsWriter,
       EnableEod, IdleWriter, SetBoth, SetState, Goto, wsync, handle, args
  <1>5. ASSUME NEW p \in Writers, DisableSod(p)
        PROVE  WriterCtl'
    BY <1>0, <1>5 DEF TypeOK, HandleType, LocalType, Procs, WriterCtl, IsWriter,
       DisableSod, IdleWriter, SetBoth, SetState, wsync, handle, args
  <1>6. ASSUME NEW p \in Writers, SetSoclockBuf(p)
        PROVE  WriterCtl'
    BY <1>0, <1>6 DEF TypeOK, HandleType, LocalType, Procs, WriterCtl, IsWriter,
       SetSoclockBuf, IdleWriter, wsync, handle, args
  <1>7. ASSUME NEW p \in Writers, NEW b \in 0..MaxBlock, NEW y \in 0..BUFSZ,
             b > 0, b < w_buf_curr, y < BUFSZ, PastXfers(b),
             EnableSod(p, b, y)
        PROVE  WriterCtl'
    BY <1>0, <1>7 DEF TypeOK, HandleType, LocalType, Procs, WriterCtl, IsWriter,
       EnableSod, IdleWriter, SodAllowed, CallEnableSod, Rewind, Goto, wsync, handle,
       args
  <1>8. ASSUME NEW p \in Writers, SodAck(p)
        PROVE  WriterCtl'
    BY <1>0, <1>8 DEF TypeOK, HandleType, LocalType, Procs, WriterCtl, IsWriter, SodAck,
       Advance, wsync, handle, args
  <1>9. ASSUME NEW p \in Writers, SodSet(p)
        PROVE  WriterCtl'
    BY <1>0, <1>9 DEF TypeOK, HandleType, LocalType, Procs, WriterCtl, IsWriter, SodSet,
       SetBoth, SetState, Rewind, Goto, wsync, handle, args
  <1>10. ASSUME NEW p \in Writers, SodFull(p)
        PROVE  WriterCtl'
    BY <1>0, <1>10 DEF TypeOK, HandleType, LocalType, Procs, WriterCtl, IsWriter,
       SodFull, Advance, wsync, handle, args
  <1>11. ASSUME NEW p \in Writers, SodDone(p)
        PROVE  WriterCtl'
    BY <1>0, <1>11 DEF TypeOK, HandleType, LocalType, Procs, WriterCtl, IsWriter,
       SodDone, Rewind, Goto, wsync, handle, args
  <1>12. ASSUME NEW p \in Writers, w_buf_next < w_buf_curr + NBUFS, GetNextWrite(p)
        PROVE  WriterCtl'
    BY <1>0, <1>12 DEF TypeOK, HandleType, LocalType, Procs, WriterCtl, IsWriter,
       GetNextWrite, IdleWriter, SodAllowed, CallEnableSod, Rewind, Goto, wsync, handle,
       args
  <1>13. ASSUME NEW p \in Writers, GetClear(p)
        PROVE  WriterCtl'
    BY <1>0, <1>13 DEF TypeOK, HandleType, LocalType, Procs, WriterCtl, IsWriter,
       GetClear, TakeClear, Advance, Rewind, wsync, handle, args
  <1>14. ASSUME NEW p \in Writers, GetDone(p)
        PROVE  WriterCtl'
    BY <1>0, <1>14 DEF TypeOK, HandleType, LocalType, Procs, WriterCtl, IsWriter,
       GetDone, Goto, wsync, handle, args
  <1>15. ASSUME NEW p \in Writers, ZeroNextWrite(p)
        PROVE  WriterCtl'
    BY <1>0, <1>15 DEF TypeOK, HandleType, LocalType, Procs, WriterCtl, IsWriter,
       ZeroNextWrite, IdleWriter, Goto, wsync, handle, args
  <1>22. ASSUME NEW p \in Writers, ZeroDone(p)
        PROVE  WriterCtl'
    BY <1>0, <1>22 DEF TypeOK, HandleType, LocalType, Procs, WriterCtl, IsWriter,
       ZeroDone, Goto, wsync, handle, args
  <1>16. ASSUME NEW p \in Writers, ~NoneOpen, MarkFilledClocked(p)
        PROVE  WriterCtl'
    BY <1>0, <1>16 DEF TypeOK, HandleType, LocalType, Procs, WriterCtl, IsWriter,
       MarkFilledClocked, IdleWriter, wsync, handle, args
  <1>17. ASSUME NEW p \in Writers, NEW n \in 0..BUFSZ,
             state[p] = "WRITING" \/ pc[p] = "ending", n = 0 <=> NoneOpen,
             MarkFilled(p, n)
        PROVE  WriterCtl'
    BY <1>0, <1>17 DEF TypeOK, HandleType, LocalType, Procs, WriterCtl, IsWriter,
       MarkFilled, IdleWriter, Goto, wsync, handle, args
  <1>18. ASSUME NEW p \in Writers, EodAck(p)
        PROVE  WriterCtl'
    BY <1>0, <1>18 DEF TypeOK, HandleType, LocalType, Procs, WriterCtl, IsWriter,
       EodAck, Advance, wsync, handle, args
  <1>19. ASSUME NEW p \in Writers, EodSet(p)
        PROVE  WriterCtl'
    BY <1>0, <1>19 DEF TypeOK, HandleType, LocalType, Procs, WriterCtl, IsWriter,
       EodSet, SetBoth, SetState, Rewind, Goto, wsync, handle, args
  <1>20. ASSUME NEW p \in Writers, Publish(p)
        PROVE  WriterCtl'
    BY <1>0, <1>20 DEF TypeOK, HandleType, LocalType, Procs, WriterCtl, IsWriter,
       Publish, Goto, wsync, handle, args
  <1>21. ASSUME NEW p \in Writers, MarkFull(p)
        PROVE  WriterCtl'
    BY <1>0, <1>21 DEF TypeOK, HandleType, LocalType, Procs, WriterCtl, IsWriter,
       MarkFull, Advance, Rewind, Goto, wsync, handle, args
  <1> QED BY <1>1, <1>2, <1>3, <1>4, <1>5, <1>6, <1>7, <1>8, <1>9, <1>10, <1>11, <1>12,
             <1>13, <1>14, <1>15, <1>16, <1>17, <1>18, <1>19, <1>20, <1>21, <1>22 DEF PlainWriter

LEMMA WriterCtlFrame ==
    ASSUME WriterCtl, WriterStill
    PROVE  WriterCtl'
  BY DEF WriterCtl, WriterStill, IsWriter, wsync

LEMMA ReaderCtlNext ==
    ASSUME TypeOK, Control, SlotInv, ReaderCtl, NEW w \in Readers, PlainReader(w)
    PROVE  ReaderCtl'
  <1>0. (\A q \in Readers : q \in Procs) /\ -1 \notin Slots
    BY SizesAssumption DEF Procs, Slots
  <1>u. \A p, q \in Readers : iread[p] \in Slots /\ iread[p] = iread[q] => p = q
    BY OneReader
  <1>1. ASSUME NEW p \in Readers, LockRead(p)
        PROVE  ReaderCtl'
    BY <1>0, <1>u, <1>1 DEF TypeOK, HandleType, LocalType, ReadersType, ReaderCtl,
       Control, IsReader, LockRead, Goto, rsync, handle
  <1>2. ASSUME NEW p \in Readers, LockReadOrder(p)
        PROVE  ReaderCtl'
    BY <1>0, <1>u, <1>2 DEF TypeOK, HandleType, LocalType, ReadersType, ReaderCtl,
       Control, IsReader, LockReadOrder, Goto, rsync, handle
  <1>3. ASSUME NEW p \in Readers, LockReadTry(p)
        PROVE  ReaderCtl'
    <2> DEFINE s == order[p][i[p]]
    <2>1. s \in Slots /\ p \in Procs
      BY <1>0, <1>3, SlotIndex DEF LockReadTry, TypeOK, LocalType
    <2>2. \A q \in Readers : ~Holds(q, s)
      BY <1>3, <2>1 DEF LockReadTry, SlotInv, SlotToken
    <2>3. \A q \in Readers : iread[q] # s
      BY <1>0, <2>1, <2>2 DEF Holds, HoldsSlot, ReaderCtl
    <2>4. r_states[s] = "DISCON"
      BY <2>1, <2>3 DEF ReaderCtl
    <2>5. /\ iread' = [iread EXCEPT ![p] = s] /\ pc' = [pc EXCEPT ![p] = "rlock"]
          /\ UNCHANGED <<r_bufs, r_xfers, r_states, state, xfer>> /\ pc[p] = "rtry"
      BY <1>3 DEF LockReadTry, Goto, rsync
    <2> HIDE DEF s
    <2>6. \A q \in Readers : /\ iread'[q] = (IF q = p THEN s ELSE iread[q])
                             /\ pc'[q] = (IF q = p THEN "rlock" ELSE pc[q])
      BY <1>0, <2>1, <2>5 DEF TypeOK, HandleType, LocalType
    <2> QED BY <1>0, <2>1, <2>3, <2>4, <2>5, <2>6 DEF ReaderCtl, IsReader
  <1>4. ASSUME NEW p \in Readers, LockReadSkip(p)
        PROVE  ReaderCtl'
    BY <1>0, <1>u, <1>4 DEF TypeOK, HandleType, LocalType, ReadersType, ReaderCtl,
       Control, IsReader, LockReadSkip, Advance, rsync, handle
  <1>5. ASSUME NEW p \in Readers, LockReadFail(p)
        PROVE  ReaderCtl'
    BY <1>0, <1>u, <1>5 DEF TypeOK, HandleType, LocalType, ReadersType, ReaderCtl,
       Control, IsReader, LockReadFail, Goto, rsync, handle
  <1>6. ASSUME NEW p \in Readers, LockReadState(p)
        PROVE  ReaderCtl'
    <2> DEFINE s == iread[p]
    <2>1. s \in Slots /\ p \in Procs /\ pc[p] = "rlock"
      BY <1>0, <1>6 DEF LockReadState, Control, SlotLabels
    <2>2. r_states[s] = "DISCON"
      BY <2>1 DEF ReaderCtl
    <2>3. /\ state' = [state EXCEPT ![p] = "READER"] /\ pc' = [pc EXCEPT ![p] = "idle"]
          /\ r_states' = [r_states EXCEPT ![s] = "READER"]
          /\ UNCHANGED <<r_bufs, r_xfers, iread>>
      BY <1>6, <2>2 DEF LockReadState, SetState, Goto
    <2>4. xfer' = [xfer EXCEPT ![p] = r_xfers[s] % XFERS]
      BY <1>6 DEF LockReadState
    <2> HIDE DEF s
    <2>5. \A q \in Readers : /\ state'[q] = (IF q = p THEN "READER" ELSE state[q])
                             /\ pc'[q] = (IF q = p THEN "idle" ELSE pc[q])
                             /\ q # p => xfer'[q] = xfer[q]
      BY <1>0, <2>1, <2>3, <2>4 DEF TypeOK, HandleType, LocalType
    <2>6. \A t \in Slots : r_states'[t] = (IF t = s THEN "READER" ELSE r_states[t])
      BY <2>1, <2>3 DEF TypeOK, ReadersType
    <2>7. \A q \in Readers : iread[q] = s <=> q = p
      BY <1>u, <2>1 DEF s
    <2>8. \A q \in Readers : IsReader(q) \/ pc[q] = "rlock" => iread[q] \in Slots
      BY DEF Control, SlotLabels
    <2>9. ~IsReader(p) /\ iread[p] = s
      BY <2>1 DEF ReaderCtl, IsReader, s
    <2>10. \A t \in Slots : (\A q \in Readers : iread'[q] # t) => r_states'[t] = "DISCON"
      BY <2>1, <2>3, <2>6, <2>9 DEF ReaderCtl
    <2>11. ASSUME NEW q \in Readers, q # p
           PROVE  /\ pc'[q] = pc[q] /\ state'[q] = state[q] /\ iread'[q] = iread[q]
                  /\ xfer'[q] = xfer[q] /\ r_xfers' = r_xfers
                  /\ IsReader(q) \/ pc[q] = "rlock" => r_states'[iread[q]] = r_states[iread[q]]
      BY <2>3, <2>5, <2>6, <2>7, <2>8, <2>11
    <2>12. /\ pc'[p] = "idle" /\ state'[p] = "READER" /\ iread'[p] = s
           /\ r_states'[s] = "READER"
      <3>1. pc'[p] = "idle" /\ state'[p] = "READER"
        BY <1>6, <2>5
      <3>2. iread'[p] = s /\ r_states'[s] = "READER"
        BY Zenon, <1>6, <2>1, <2>3, <2>6, <2>9
      <3> QED BY <3>1, <3>2
    <2> QED BY <1>0, <2>1, <2>10, <2>11, <2>12 DEF ReaderCtl, IsReader
  <1>7. ASSUME NEW p \in Readers, GetNextRead(p)
        PROVE  ReaderCtl'
    BY <1>0, <1>u, <1>7 DEF TypeOK, HandleType, LocalType, ReadersType, ReaderCtl,
       Control, IsReader, GetNextRead, IdleReader, Goto, rsync, handle
  <1>8. ASSUME NEW p \in Readers, SodInc(p)
        PROVE  ReaderCtl'
    BY <1>0, <1>u, <1>8 DEF TypeOK, HandleType, LocalType, ReadersType, ReaderCtl,
       Control, IsReader, SodInc, SetState, Goto, rsync, handle
  <1>9. ASSUME NEW p \in Readers, ReadBytes(p)
        PROVE  ReaderCtl'
    BY <1>0, <1>u, <1>9 DEF TypeOK, HandleType, LocalType, ReadersType, ReaderCtl,
       Control, IsReader, ReadBytes, Goto, rsync, handle
  <1>10. ASSUME NEW p \in Readers, MarkCleared(p)
        PROVE  ReaderCtl'
    BY <1>0, <1>u, <1>10 DEF TypeOK, HandleType, LocalType, ReadersType, ReaderCtl,
       Control, IsReader, MarkCleared, Goto, rsync, handle
  <1>11. ASSUME NEW p \in Readers, ClearedNext(p)
        PROVE  ReaderCtl'
    BY <1>0, <1>u, <1>11 DEF TypeOK, HandleType, LocalType, ReadersType, ReaderCtl,
       Control, IsReader, ClearedNext, Goto, rsync, handle
  <1>12. ASSUME NEW p \in Readers, ClearedEod(p)
        PROVE  ReaderCtl'
    BY <1>0, <1>u, <1>12 DEF TypeOK, HandleType, LocalType, ReadersType, ReaderCtl,
       Control, IsReader, ClearedEod, SetState, Goto, rsync, handle
  <1>13. ASSUME NEW p \in Readers, ResetRead(p)
        PROVE  ReaderCtl'
    BY <1>0, <1>u, <1>13 DEF TypeOK, HandleType, LocalType, ReadersType, ReaderCtl,
       Control, IsReader, ResetRead, IdleReader, SetState, rsync, handle
  <1> QED BY <1>1, <1>2, <1>3, <1>4, <1>5, <1>6, <1>7, <1>8, <1>9, <1>10, <1>11, <1>12,
             <1>13 DEF PlainReader

LEMMA ReaderCtlFrame ==
    ASSUME ReaderCtl, ReaderStill
    PROVE  ReaderCtl'
  BY DEF ReaderCtl, ReaderStill, IsReader, rsync

-----------------------------------------------------------------------------
(* Remainders.                                                             *)

\* Quotient and remainder.
LEMMA Division ==
    ASSUME NEW n \in Nat, n > 0, NEW a \in Int
    PROVE  a = n * (a \div n) + (a % n) /\ a \div n \in Int /\ a % n \in 0..(n - 1)
  OBVIOUS

\* A window of n successive numbers has every remainder once.
LEMMA ModDistinct ==
    ASSUME NEW n \in Nat, n > 0, NEW a \in Int, NEW b \in Int, a < b, b < a + n
    PROVE  a % n # b % n
  <1> DEFINE c == a \div n
             d == b \div n
             r == a % n
  <1> SUFFICES ASSUME r = b % n PROVE FALSE
    OBVIOUS
  <1>1. c \in Int /\ d \in Int /\ r \in Int /\ a = n * c + r /\ b = n * d + r
    BY Division
  <1> HIDE DEF c, d, r
  <1>2. n * d - n * c = b - a
    BY <1>1
  <1>3. CASE d <= c
    <2>1. n * d <= n * c
      BY <1>1, <1>3
    <2> QED BY <1>1, <1>2, <2>1
  <1>4. CASE d >= c + 1
    <2>1. n * d >= n * c + n
      BY <1>1, <1>4
    <2> QED BY <1>1, <1>2, <2>1
  <1> QED BY <1>1, <1>3, <1>4

\* A number and the one n before it have the same remainder.
LEMMA ModBack ==
    ASSUME NEW n \in Nat, n > 0, NEW a \in Int
    PROVE  (a - n) % n = a % n
  <1> DEFINE c == a \div n
             d == (a - n) \div n
             r == a % n
             t == (a - n) % n
  <1>1. c \in Int /\ d \in Int /\ r \in 0..(n - 1) /\ t \in 0..(n - 1)
        /\ a = n * c + r /\ a - n = n * d + t
    BY Division
  <1> HIDE DEF c, d, r, t
  <1>2. n * c - n * d - n = t - r
    BY <1>1
  <1>3. CASE c - 1 > d
    <2>1. n * c >= n * d + n + n
      BY <1>1, <1>3
    <2> QED BY <1>1, <1>2, <2>1
  <1>4. CASE c - 1 < d
    <2>1. n * c <= n * d
      BY <1>1, <1>4
    <2> QED BY <1>1, <1>2, <2>1
  <1>5. CASE c - 1 = d
    <2>1. n * c = n * d + n
      BY <1>1, <1>5
    <2> QED BY <1>1, <1>2, <2>1 DEF t, r
  <1> QED BY <1>1, <1>3, <1>4, <1>5

\* Every block has a buffer, also the ones before the first.
LEMMA BufOf == \A k \in Int : k % NBUFS \in Bufs
  BY SizesAssumption DEF Bufs

-----------------------------------------------------------------------------
(* Counting blocks.                                                        *)

Bit(b) == IF b THEN 1 ELSE 0
Below(S, m) == {k \in S : k < m}
CountBelow(S, m) == Cardinality(Below(S, m))

LEMMA BelowFinite ==
    ASSUME NEW S, IsFiniteSet(S), NEW m
    PROVE  /\ IsFiniteSet(Below(S, m)) /\ Cardinality(S) \in Nat
           /\ CountBelow(S, m) \in Nat /\ CountBelow(S, m) <= Cardinality(S)
  <1>1. Below(S, m) \in SUBSET S
    BY DEF Below
  <1> QED BY <1>1, FS_Subset, FS_CardinalityType DEF CountBelow

LEMMA BelowStep ==
    ASSUME NEW S, \A k \in S : k \in Int, IsFiniteSet(S), NEW m \in Int
    PROVE  CountBelow(S, m + 1) = CountBelow(S, m) + Bit(m \in S)
  <1>1. IsFiniteSet(Below(S, m)) /\ CountBelow(S, m) \in Nat
    BY BelowFinite
  <1>2. CASE m \in S
    <2>1. Below(S, m + 1) = Below(S, m) \cup {m} /\ m \notin Below(S, m)
      <3>1. \A k \in S : k < m + 1 <=> (k < m \/ k = m)
        OBVIOUS
      <3>2. ~(m < m)
        OBVIOUS
      <3> QED BY Zenon, <1>2, <3>1, <3>2 DEF Below
    <2>2. Cardinality(Below(S, m) \cup {m}) = CountBelow(S, m) + 1
      BY <1>1, <2>1, FS_AddElement DEF CountBelow
    <2> QED BY <1>2, <2>1, <2>2 DEF CountBelow, Bit
  <1>3. CASE m \notin S
    <2>1. Below(S, m + 1) = Below(S, m)
      BY <1>3 DEF Below
    <2> QED BY <1>1, <1>3, <2>1 DEF CountBelow, Bit
  <1> QED BY <1>2, <1>3

LEMMA BelowMonotone ==
    ASSUME NEW S, \A k \in S : k \in Int, IsFiniteSet(S), NEW a \in Int, NEW b \in Int, a <= b
    PROVE  CountBelow(S, a) <= CountBelow(S, b)
  <1>1. Below(S, a) \in SUBSET Below(S, b)
    BY DEF Below
  <1> QED BY <1>1, BelowFinite, FS_Subset DEF CountBelow

LEMMA BelowStrict ==
    ASSUME NEW S, \A k \in S : k \in Int, IsFiniteSet(S), NEW a \in S, NEW b \in Int, a < b
    PROVE  CountBelow(S, a) < CountBelow(S, b)
  <1>1. a \in Int /\ a + 1 \in Int /\ a + 1 <= b
    OBVIOUS
  <1>2. CountBelow(S, a + 1) = CountBelow(S, a) + 1
    BY <1>1, BelowStep DEF Bit
  <1>3. CountBelow(S, a + 1) <= CountBelow(S, b)
    BY <1>1, BelowMonotone
  <1>4. CountBelow(S, a) \in Nat /\ CountBelow(S, b) \in Nat
    BY BelowFinite
  <1> QED BY <1>2, <1>3, <1>4

LEMMA BelowSame ==
    ASSUME NEW S, \A k \in S : k \in Int, NEW a \in Int, NEW b \in Int, a <= b,
           \A k \in S : k < a \/ b <= k
    PROVE  CountBelow(S, a) = CountBelow(S, b)
  <1>1. Below(S, a) = Below(S, b)
    BY DEF Below
  <1> QED BY <1>1 DEF CountBelow

LEMMA BelowGrows ==
    ASSUME NEW S, NEW T, \A k \in T : k \in Int, NEW m \in Int, S \subseteq T,
           \A k \in T : k \in S \/ m <= k
    PROVE  CountBelow(T, m) = CountBelow(S, m)
  <1>1. Below(T, m) = Below(S, m)
    BY DEF Below
  <1> QED BY <1>1 DEF CountBelow

LEMMA BelowAll ==
    ASSUME NEW S, \A k \in S : k \in Int, NEW m \in Int, \A k \in S : k < m
    PROVE  CountBelow(S, m) = Cardinality(S)
  <1>1. Below(S, m) = S
    BY DEF Below
  <1> QED BY <1>1 DEF CountBelow

LEMMA AboveSome ==
    ASSUME NEW S, \A k \in S : k \in Int, NEW m \in Int, CountBelow(S, m) # Cardinality(S)
    PROVE  \E k \in S : k >= m
  <1>1. ~(\A k \in S : k < m)
    BY BelowAll
  <1> QED BY <1>1

LEMMA JoinInterval ==
    ASSUME NEW S, IsFiniteSet(S), NEW a \in Int, NEW b \in Int, a <= b,
           \A k \in S : k \notin a..(b - 1)
    PROVE  /\ IsFiniteSet(S \cup (a..(b - 1)))
           /\ Cardinality(S \cup (a..(b - 1))) = Cardinality(S) + (b - a)
  <1>1. IsFiniteSet(a..(b - 1)) /\ Cardinality(a..(b - 1)) = b - a
    <2>1. b - 1 \in Int
      OBVIOUS
    <2>2. /\ IsFiniteSet(a..(b - 1))
          /\ Cardinality(a..(b - 1)) = IF a > b - 1 THEN 0 ELSE (b - 1) - a + 1
      BY <2>1, FS_Interval
    <2> QED BY <2>2
  <1>2. S \cap (a..(b - 1)) = {}
    OBVIOUS
  <1>3. Cardinality(S) \in Nat
    BY FS_CardinalityType
  <1>4. Cardinality(S \cup (a..(b - 1)))
          = Cardinality(S) + Cardinality(a..(b - 1)) - Cardinality({})
    BY <1>1, <1>2, FS_Union
  <1>5. IsFiniteSet(S \cup (a..(b - 1)))
    BY <1>1, FS_Union
  <1> QED BY <1>1, <1>3, <1>4, <1>5, FS_EmptySet

-----------------------------------------------------------------------------
(* The ledger: where transfers start and end, and which of the flags in    *)
(* shared memory still say so.                                             *)

XferRec == [sb : Int, sy : Int, eb : Int, ey : Int]
Started(x) == xlog[x].sb # -1

\* The writer is inside a transfer; it has ended one whose last block is yet
\* to be published.
Opened(p) == state[p] = "WRITING" \/ pc[p] \in {"ending", "eod_ack"}
Closing(p) == /\ state[p] = "WRITER"
              /\ pc[p] = "publish" \/ (pc[p] = "get" /\ ret[p] = "publish")

EndedXfer(x) ==
    /\ 0 <= xlog[x].sb /\ xlog[x].sb <= xlog[x].eb /\ xlog[x].eb <= w_buf_curr
    /\ xlog[x].sy \in 0..BUFSZ /\ xlog[x].ey \in 0..BUFSZ
    /\ xlog[x].sb = xlog[x].eb => xlog[x].sy = 0
CurrentXfer(x) ==
    /\ 0 <= xlog[x].sb /\ xlog[x].sb <= w_buf_curr /\ xlog[x].eb = -1
    /\ xlog[x].sy \in 0..BUFSZ
    /\ xlog[x].sb = w_buf_curr => xlog[x].sy = 0

\* Transfers follow one another, without a block in common.
XlogInv ==
    /\ xlog \in [0..MaxXfer -> XferRec] /\ w_xfer <= MaxXfer
    /\ \A x \in 0..MaxXfer :
         /\ x < w_xfer => EndedXfer(x)
         /\ x = w_xfer /\ Started(x) => CurrentXfer(x)
         /\ x > w_xfer => ~Started(x)
    /\ \A x, y \in 0..MaxXfer :
         x < y /\ y <= w_xfer /\ Started(y) => xlog[x].eb < xlog[y].sb

\* The writer has opened at most as many blocks as there are buffers.
BlocksInv ==
    /\ w_buf_curr <= w_buf_next /\ w_buf_next <= w_buf_curr + NBUFS
    /\ w_buf_next <= MaxBlock

\* The start flags of the last XFERS transfers, the current one included, and
\* the end flags of the last XFERS that ended.  What the end flag of the current
\* transfer holds from an earlier one is not taken for its end.
FlagsInv ==
    /\ \A x \in 0..MaxXfer :
         /\ /\ x <= w_xfer /\ Started(x)
            /\ x >= w_xfer - XFERS /\ (Started(w_xfer) => x > w_xfer - XFERS)
            => s_buf[x % XFERS] = xlog[x].sb /\ s_byte[x % XFERS] = xlog[x].sy
         /\ x < w_xfer /\ x >= w_xfer - XFERS
            => /\ e_buf[x % XFERS] = xlog[x].eb /\ e_byte[x % XFERS] = xlog[x].ey
               /\ eod[x % XFERS] = 1
    /\ \A f \in Xfers : /\ w_xfer = 0 => e_buf[f] = 0
                        /\ w_xfer > 0 => e_buf[f] <= xlog[w_xfer - 1].eb
    /\ Started(w_xfer)
       => eod[w_xfer % XFERS] = 0 \/ e_buf[w_xfer % XFERS] < xlog[w_xfer].sb

\* What the writer's place in the code says about the transfers ...
XferAt(p) ==
    /\ Started(w_xfer) <=> Opened(p)
    /\ Opened(p) => w_xfer < MaxXfer /\ xfer[p] = w_xfer % XFERS
    /\ Closing(p) => w_xfer > 0 /\ xlog[w_xfer - 1].eb = w_buf_curr
    /\ w_xfer > 0 /\ xlog[w_xfer - 1].eb = w_buf_curr => Closing(p)
\* ... about a start of data that is being raised ...
SodAt(p) ==
    /\ pc[p] = "sod_ack" =>
         /\ w_xfer < MaxXfer /\ start_byte[p] <= BUFSZ
         /\ start_buf[p] <= w_buf_curr /\ start_buf[p] > w_buf_next - NBUFS
         /\ start_buf[p] = w_buf_curr => start_byte[p] = 0
         /\ start_buf[p] = 0 => w_buf_curr = 0
         /\ \A x \in 0..MaxXfer : x < w_xfer => xlog[x].eb < start_buf[p]
    /\ pc[p] = "sod_full" =>
         start_buf[p] = xlog[w_xfer].sb /\ start_buf[p] > w_buf_next - NBUFS
\* ... and about the blocks that are open.
BlocksAt(p) ==
    /\ pc[p] = "get" \/ (pc[p] \in {"sod_ack", "sod_full"} /\ ret[p] = "get") =>
         w_buf_next < w_buf_curr + NBUFS /\ w_buf_next < MaxBlock
    /\ pc[p] = "get" /\ ret[p] = "publish" => w_buf_next = w_buf_curr
    /\ pc[p] = "publish" => w_buf_curr < w_buf_next
    /\ pc[p] = "eod_ack" =>
         /\ nbytes[p] <= BUFSZ
         /\ nbytes[p] = 0 <=> NoneOpen
         /\ nbytes[p] = 0 => w_buf_next < MaxBlock

Ledger ==
    /\ XlogInv /\ BlocksInv /\ FlagsInv
    /\ \A p \in Writers : IsWriter(p) => XferAt(p) /\ SodAt(p) /\ BlocksAt(p)
    /\ (\A p \in Writers : ~IsWriter(p)) =>
         w_buf_curr = 0 /\ w_buf_next = 0 /\ w_xfer = 0 /\ ~Started(0)

LEMMA XlogInts ==
    ASSUME XlogInv, NEW x \in 0..MaxXfer
    PROVE  /\ xlog[x].sb \in Int /\ xlog[x].sy \in Int
           /\ xlog[x].eb \in Int /\ xlog[x].ey \in Int
  <1>1. xlog[x] \in XferRec
    BY DEF XlogInv
  <1> QED BY <1>1 DEF XferRec

\* The writer alone has left the start of the code: no other process that may
\* write has the role or is waiting for it.
Alone(p) == \A q \in Writers : q # p => pc[q] = "idle" /\ state[q] = "VIEWER"

LEMMA WriterAlone ==
    ASSUME TypeOK, Control, WriterExclusion, WriterCtl, NEW p \in Writers,
           IsWriter(p) \/ pc[p] = "wlock"
    PROVE  Alone(p)
  <1> SUFFICES ASSUME NEW q \in Writers, q # p
               PROVE  pc[q] = "idle" /\ state[q] = "VIEWER"
    BY DEF Alone
  <1>1. ~IsWriter(q) /\ pc[q] # "wlock"
    BY OneWriter
  <1>2. state[q] \in PStates
    BY DEF TypeOK, HandleType, Procs
  <1> QED BY <1>1, <1>2 DEF Control, PStates, IsWriter, IsReader

\* What a step of the writer does to the local state of the process that takes it.
LEMMA AloneNext ==
    ASSUME TypeOK, NEW p \in Writers, PlainWriter(p), Alone(p)
    PROVE  Alone(p)'
  <1> SUFFICES ASSUME NEW q \in Writers, q # p
               PROVE  pc'[q] = pc[q] /\ state'[q] = state[q]
    BY DEF Alone
  <1>1. q \in Procs /\ p \in Procs
    BY DEF Procs
  <1> QED
    BY <1>1 DEF PlainWriter, TypeOK, HandleType, LocalType, LockWrite, Goto,
       LockWriteState, SetBoth, SetState, RelockWrite, IdleWriter, EnableEod,
       DisableSod, SetSoclockBuf, EnableSod, SodAllowed, CallEnableSod, Rewind, SodAck,
       Advance, SodSet, SodFull, SodDone, GetNextWrite, GetClear, TakeClear, GetDone,
       ZeroNextWrite, ZeroDone, MarkFilledClocked, MarkFilled, EodAck, EodSet, Publish, MarkFull,
       handle

\* The ledger is kept when its parts are kept for the process that writes.
LEMMA LedgerParts ==
    ASSUME NEW p \in Writers, Alone(p)', IsWriter(p)', XlogInv', BlocksInv', FlagsInv',
           XferAt(p)', SodAt(p)', BlocksAt(p)'
    PROVE  Ledger'
  BY DEF Ledger, Alone, IsWriter

\* A step that leaves the transfers, the flags and the block numbers alone.
Unmoved == UNCHANGED <<w_buf_curr, w_buf_next, w_xfer, s_buf, s_byte, eod, e_buf, e_byte, xlog>>

LEMMA QuietParts ==
    ASSUME Ledger, Unmoved
    PROVE  XlogInv' /\ BlocksInv' /\ FlagsInv'
  BY DEF Ledger, Unmoved, XlogInv, BlocksInv, FlagsInv, EndedXfer, CurrentXfer, Started

\* Nor anything that the ledger reads of the process that writes.
Same(p) ==
    /\ pc'[p] = pc[p] /\ state'[p] = state[p] /\ ret'[p] = ret[p] /\ xfer'[p] = xfer[p]
    /\ start_buf'[p] = start_buf[p] /\ start_byte'[p] = start_byte[p]
    /\ nbytes'[p] = nbytes[p]

LEMMA QuietSame ==
    ASSUME Ledger, Unmoved, NEW p \in Writers, IsWriter(p), Alone(p)', Same(p)
    PROVE  Ledger'
  <1>1. XlogInv' /\ BlocksInv' /\ FlagsInv'
    BY QuietParts
  <1>2. XferAt(p) /\ SodAt(p) /\ BlocksAt(p)
    BY DEF Ledger
  <1>3. XferAt(p)' /\ SodAt(p)' /\ BlocksAt(p)' /\ IsWriter(p)'
    BY <1>2 DEF Unmoved, Same, XferAt, SodAt, BlocksAt, Opened, Closing, Started,
       NoneOpen, IsWriter
  <1> QED BY <1>1, <1>3, LedgerParts

\* The numbers that the ledger is about.
LEMMA LedgerInts ==
    ASSUME TypeOK, Ledger
    PROVE  /\ w_buf_curr \in Nat /\ w_buf_next \in Nat /\ w_xfer \in 0..MaxXfer
           /\ NBUFS \in Nat /\ NBUFS > 0 /\ BUFSZ \in Nat /\ BUFSZ > 0 /\ MaxXfer \in Nat
           /\ MaxBlock \in Nat
           /\ \A x \in 0..MaxXfer : /\ xlog[x].sb \in Int /\ xlog[x].sy \in Int
                                    /\ xlog[x].eb \in Int /\ xlog[x].ey \in Int
  <1>1. \A x \in 0..MaxXfer : /\ xlog[x].sb \in Int /\ xlog[x].sy \in Int
                              /\ xlog[x].eb \in Int /\ xlog[x].ey \in Int
    BY XlogInts DEF Ledger
  <1>2. w_buf_curr \in Nat /\ w_buf_next \in Nat /\ w_xfer \in Nat /\ w_xfer <= MaxXfer
    BY DEF TypeOK, SyncType, Ledger, XlogInv
  <1> QED BY <1>1, <1>2, SizesAssumption, BoundsAssumption

LEMMA LedgerSetSoclockBuf ==
    ASSUME TypeOK, Control, WriterCtl, WriterExclusion, Ledger,
           NEW p \in Writers, SetSoclockBuf(p)
    PROVE  Ledger'
  <1>0. p \in Procs /\ IsWriter(p)
    BY DEF Procs, SetSoclockBuf, IdleWriter, IsWriter, Control
  <1>1. Alone(p)'
    BY <1>0, WriterAlone, AloneNext DEF PlainWriter
  <1>2. Unmoved /\ Same(p)
    BY <1>0 DEF Unmoved, Same, TypeOK, LocalType, SetSoclockBuf, IdleWriter, wsync, flags,
       handle, args, hist
  <1> QED BY <1>0, <1>1, <1>2, QuietSame

LEMMA LedgerSodAck ==
    ASSUME TypeOK, Control, WriterCtl, WriterExclusion, Ledger,
           NEW p \in Writers, SodAck(p)
    PROVE  Ledger'
  <1>0. p \in Procs /\ IsWriter(p)
    BY DEF Procs, SodAck, Advance, IsWriter, Control
  <1>1. Alone(p)'
    BY <1>0, WriterAlone, AloneNext DEF PlainWriter
  <1>2. Unmoved /\ Same(p)
    BY <1>0 DEF Unmoved, Same, TypeOK, LocalType, SodAck, Advance, wsync, flags, handle,
       args, hist
  <1> QED BY <1>0, <1>1, <1>2, QuietSame

LEMMA LedgerSodFull ==
    ASSUME TypeOK, Control, WriterCtl, WriterExclusion, Ledger,
           NEW p \in Writers, SodFull(p)
    PROVE  Ledger'
  <1>0. p \in Procs /\ IsWriter(p)
    BY DEF Procs, SodFull, Advance, IsWriter, Control
  <1>1. Alone(p)'
    BY <1>0, WriterAlone, AloneNext DEF PlainWriter
  <1>2. Unmoved /\ Same(p)
    BY <1>0 DEF Unmoved, Same, TypeOK, LocalType, SodFull, Advance, wsync, flags, handle,
       args, hist
  <1> QED BY <1>0, <1>1, <1>2, QuietSame

LEMMA LedgerGetClear ==
    ASSUME TypeOK, Control, WriterCtl, WriterExclusion, Ledger,
           NEW p \in Writers, GetClear(p)
    PROVE  Ledger'
  <1>0. p \in Procs /\ IsWriter(p)
    BY DEF Procs, GetClear, TakeClear, Advance, Rewind, IsWriter, Control
  <1>1. Alone(p)'
    BY <1>0, WriterAlone, AloneNext DEF PlainWriter
  <1>2. Unmoved /\ Same(p)
    BY <1>0 DEF Unmoved, Same, TypeOK, LocalType, GetClear, TakeClear, Advance, Rewind,
       wsync, flags, handle, args, hist
  <1> QED BY <1>0, <1>1, <1>2, QuietSame

LEMMA LedgerZeroNextWrite ==
    ASSUME TypeOK, Control, WriterCtl, WriterExclusion, Ledger,
           NEW p \in Writers, ZeroNextWrite(p)
    PROVE  Ledger'
  <1>0. p \in Procs /\ IsWriter(p) /\ pc[p] = "idle"
    BY DEF Procs, ZeroNextWrite, IdleWriter, IsWriter
  <1>1. Alone(p)'
    BY <1>0, WriterAlone, AloneNext DEF PlainWriter
  <1>2. Unmoved
    BY DEF Unmoved, ZeroNextWrite, wsync, flags, hist
  <1>3. /\ pc'[p] = "zero" /\ state'[p] = state[p] /\ xfer'[p] = xfer[p]
        /\ start_buf'[p] = start_buf[p] /\ nbytes'[p] = nbytes[p]
    BY <1>0 DEF TypeOK, LocalType, ZeroNextWrite, Goto, handle, args
  <1>4. XlogInv' /\ BlocksInv' /\ FlagsInv'
    BY <1>2, QuietParts
  <1>5. XferAt(p) /\ SodAt(p) /\ BlocksAt(p)
    BY <1>0 DEF Ledger
  <1>6. XferAt(p)' /\ SodAt(p)' /\ BlocksAt(p)' /\ IsWriter(p)'
    BY <1>0, <1>2, <1>3, <1>5 DEF Unmoved, XferAt, SodAt, BlocksAt, Opened, Closing,
       Started, NoneOpen, IsWriter
  <1> QED BY <1>1, <1>4, <1>6, LedgerParts

LEMMA LedgerZeroDone ==
    ASSUME TypeOK, Control, WriterCtl, WriterExclusion, Ledger,
           NEW p \in Writers, ZeroDone(p)
    PROVE  Ledger'
  <1>0. p \in Procs /\ IsWriter(p) /\ pc[p] = "zero"
    BY DEF Procs, ZeroDone, WriterCtl
  <1>1. Alone(p)'
    BY <1>0, WriterAlone, AloneNext DEF PlainWriter
  <1>2. Unmoved
    BY DEF Unmoved, ZeroDone, wsync, flags
  <1>3. /\ pc'[p] = "idle" /\ state'[p] = state[p] /\ xfer'[p] = xfer[p]
        /\ start_buf'[p] = start_buf[p] /\ nbytes'[p] = nbytes[p]
    BY <1>0 DEF TypeOK, LocalType, ZeroDone, Goto, handle, args
  <1>4. XlogInv' /\ BlocksInv' /\ FlagsInv'
    BY <1>2, QuietParts
  <1>5. XferAt(p) /\ SodAt(p) /\ BlocksAt(p)
    BY <1>0 DEF Ledger
  <1>6. XferAt(p)' /\ SodAt(p)' /\ BlocksAt(p)' /\ IsWriter(p)'
    BY <1>0, <1>2, <1>3, <1>5 DEF Unmoved, XferAt, SodAt, BlocksAt, Opened, Closing,
       Started, NoneOpen, IsWriter
  <1> QED BY <1>1, <1>4, <1>6, LedgerParts

LEMMA LedgerEodAck ==
    ASSUME TypeOK, Control, WriterCtl, WriterExclusion, Ledger,
           NEW p \in Writers, EodAck(p)
    PROVE  Ledger'
  <1>0. p \in Procs /\ IsWriter(p)
    BY DEF Procs, EodAck, Advance, IsWriter, Control
  <1>1. Alone(p)'
    BY <1>0, WriterAlone, AloneNext DEF PlainWriter
  <1>2. Unmoved /\ Same(p)
    BY <1>0 DEF Unmoved, Same, TypeOK, LocalType, EodAck, Advance, wsync, flags, handle,
       args, hist
  <1> QED BY <1>0, <1>1, <1>2, QuietSame

LEMMA LedgerRelockWrite ==
    ASSUME TypeOK, Control, WriterCtl, WriterExclusion, Ledger,
           NEW p \in Writers, NoneOpen, state[p] = "WRITER", RelockWrite(p)
    PROVE  Ledger'
  <1>0. p \in Procs /\ IsWriter(p)
    BY DEF Procs, RelockWrite, IdleWriter, SetBoth, SetState, IsWriter, Control
  <1>1. Alone(p)'
    BY <1>0, WriterAlone, AloneNext DEF PlainWriter
  <1>2. Unmoved
    BY DEF Unmoved, RelockWrite, IdleWriter, SetBoth, SetState, wsync, flags, hist
  <1>3. XlogInv' /\ BlocksInv' /\ FlagsInv'
    BY <1>2, QuietParts
  <1>4. XferAt(p) /\ SodAt(p) /\ BlocksAt(p)
    BY <1>0 DEF Ledger
  <1>5. /\ pc[p] = "idle" /\ state[p] = "WRITER"
        /\ pc'[p] = "idle" /\ state'[p] = "WCHANGE"
    BY <1>0 DEF TypeOK, HandleType, LocalType, RelockWrite, IdleWriter, SetBoth,
       SetState, handle, args
  <1>6. XferAt(p)' /\ SodAt(p)' /\ BlocksAt(p)' /\ IsWriter(p)'
    BY <1>0, <1>2, <1>4, <1>5 DEF Unmoved, XferAt, SodAt, BlocksAt, Opened, Closing,
       Started, NoneOpen, IsWriter
  <1> QED BY <1>1, <1>3, <1>6, LedgerParts

LEMMA LedgerDisableSod ==
    ASSUME TypeOK, Control, WriterCtl, WriterExclusion, Ledger,
           NEW p \in Writers, DisableSod(p)
    PROVE  Ledger'
  <1>0. p \in Procs /\ IsWriter(p)
    BY DEF Procs, DisableSod, IdleWriter, SetBoth, SetState, IsWriter, Control
  <1>1. Alone(p)'
    BY <1>0, WriterAlone, AloneNext DEF PlainWriter
  <1>2. Unmoved
    BY DEF Unmoved, DisableSod, IdleWriter, SetBoth, SetState, wsync, flags, hist
  <1>3. XlogInv' /\ BlocksInv' /\ FlagsInv'
    BY <1>2, QuietParts
  <1>4. XferAt(p) /\ SodAt(p) /\ BlocksAt(p)
    BY <1>0 DEF Ledger
  <1>5. /\ pc[p] = "idle" /\ state[p] = "WCHANGE"
        /\ pc'[p] = "idle" /\ state'[p] = "WRITER"
    BY <1>0 DEF TypeOK, HandleType, LocalType, DisableSod, IdleWriter, SetBoth,
       SetState, handle, args
  <1>6. XferAt(p)' /\ SodAt(p)' /\ BlocksAt(p)' /\ IsWriter(p)'
    BY <1>0, <1>2, <1>4, <1>5 DEF Unmoved, XferAt, SodAt, BlocksAt, Opened, Closing,
       Started, NoneOpen, IsWriter
  <1> QED BY <1>1, <1>3, <1>6, LedgerParts

LEMMA LedgerEnableEod ==
    ASSUME TypeOK, Control, WriterCtl, WriterExclusion, Ledger,
           NEW p \in Writers, EnableEod(p)
    PROVE  Ledger'
  <1>0. p \in Procs /\ IsWriter(p)
    BY DEF Procs, EnableEod, IdleWriter, SetBoth, SetState, Goto, IsWriter, Control
  <1>1. Alone(p)'
    BY <1>0, WriterAlone, AloneNext DEF PlainWriter
  <1>2. Unmoved
    BY DEF Unmoved, EnableEod, IdleWriter, SetBoth, SetState, Goto, wsync, flags, hist
  <1>3. XlogInv' /\ BlocksInv' /\ FlagsInv'
    BY <1>2, QuietParts
  <1>4. XferAt(p) /\ SodAt(p) /\ BlocksAt(p)
    BY <1>0 DEF Ledger
  <1>5. /\ pc[p] = "idle" /\ state[p] = "WRITING"
        /\ pc'[p] = "ending" /\ state'[p] = "WCHANGE"
        /\ xfer'[p] = xfer[p]
    BY <1>0 DEF TypeOK, HandleType, LocalType, EnableEod, IdleWriter, SetBoth, SetState,
       Goto, handle, args
  <1>6. XferAt(p)' /\ SodAt(p)' /\ BlocksAt(p)' /\ IsWriter(p)'
    BY <1>0, <1>2, <1>4, <1>5 DEF Unmoved, XferAt, SodAt, BlocksAt, Opened, Closing,
       Started, NoneOpen, IsWriter
  <1> QED BY <1>1, <1>3, <1>6, LedgerParts

LEMMA LedgerSodDone ==
    ASSUME TypeOK, Control, WriterCtl, WriterExclusion, Ledger,
           NEW p \in Writers, SodDone(p)
    PROVE  Ledger'
  <1>0. p \in Procs /\ IsWriter(p)
    BY DEF Procs, SodDone, Rewind, Goto, IsWriter, Control
  <1>1. Alone(p)'
    BY <1>0, WriterAlone, AloneNext DEF PlainWriter
  <1>2. Unmoved
    BY DEF Unmoved, SodDone, Rewind, Goto, wsync, flags, hist
  <1>3. XlogInv' /\ BlocksInv' /\ FlagsInv'
    BY <1>2, QuietParts
  <1>4. XferAt(p) /\ SodAt(p) /\ BlocksAt(p)
    BY <1>0 DEF Ledger
  <1>5. /\ pc[p] = "sod_full"
        /\ pc'[p] = ret[p] /\ state'[p] = state[p] /\ ret'[p] = "idle"
        /\ xfer'[p] = xfer[p]
    BY <1>0 DEF TypeOK, HandleType, LocalType, SodDone, Rewind, Goto, handle, args
  <1>7. state[p] = "WRITING" /\ ret[p] \in {"idle", "get"}
    BY <1>5 DEF WriterCtl
  <1>6. XferAt(p)' /\ SodAt(p)' /\ BlocksAt(p)' /\ IsWriter(p)'
    BY <1>0, <1>2, <1>4, <1>5, <1>7 DEF Unmoved, XferAt, SodAt, BlocksAt, Opened, Closing,
       Started, NoneOpen, IsWriter
  <1> QED BY <1>1, <1>3, <1>6, LedgerParts

LEMMA LedgerMarkFull ==
    ASSUME TypeOK, Control, WriterCtl, WriterExclusion, Ledger,
           NEW p \in Writers, MarkFull(p)
    PROVE  Ledger'
  <1>0. p \in Procs /\ IsWriter(p)
    BY DEF Procs, MarkFull, Advance, Rewind, Goto, IsWriter, Control
  <1>1. Alone(p)'
    BY <1>0, WriterAlone, AloneNext DEF PlainWriter
  <1>2. Unmoved
    BY DEF Unmoved, MarkFull, Advance, Rewind, Goto, wsync, flags, hist
  <1>3. XlogInv' /\ BlocksInv' /\ FlagsInv'
    BY <1>2, QuietParts
  <1>4. XferAt(p) /\ SodAt(p) /\ BlocksAt(p)
    BY <1>0 DEF Ledger
  <1>5. /\ pc[p] = "full"
        /\ pc'[p] \in {"full", "idle"} /\ state'[p] = state[p]
        /\ xfer'[p] = xfer[p]
    BY <1>0 DEF TypeOK, HandleType, LocalType, MarkFull, Advance, Rewind, Goto, handle, args
  <1>6. XferAt(p)' /\ SodAt(p)' /\ BlocksAt(p)' /\ IsWriter(p)'
    BY <1>0, <1>2, <1>4, <1>5 DEF Unmoved, XferAt, SodAt, BlocksAt, Opened, Closing,
       Started, NoneOpen, IsWriter
  <1> QED BY <1>1, <1>3, <1>6, LedgerParts

LEMMA LedgerMarkFilled ==
    ASSUME TypeOK, Control, WriterCtl, WriterExclusion, Ledger,
           NEW p \in Writers, NEW n \in 0..BUFSZ,
           state[p] = "WRITING" \/ pc[p] = "ending", n = 0 <=> NoneOpen,
           MarkFilled(p, n)
    PROVE  Ledger'
  <1>0. p \in Procs /\ IsWriter(p)
    BY DEF Procs, MarkFilled, IdleWriter, Goto, IsWriter, Control
  <1>1. Alone(p)'
    BY <1>0, WriterAlone, AloneNext, SizesAssumption DEF PlainWriter
  <1>2. Unmoved
    BY DEF Unmoved, MarkFilled, IdleWriter, Goto, wsync, flags, hist
  <1>3. XlogInv' /\ BlocksInv' /\ FlagsInv'
    BY <1>2, QuietParts
  <1>4. XferAt(p) /\ SodAt(p) /\ BlocksAt(p)
    BY <1>0 DEF Ledger
  <1>5. /\ pc'[p] \in {"eod_ack", "publish"} /\ state'[p] = state[p]
        /\ xfer'[p] = xfer[p] /\ nbytes'[p] = n
        /\ (pc[p] = "idle" /\ state[p] = "WRITING") \/ pc[p] = "ending"
        /\ pc'[p] = "publish" => state[p] = "WRITING" /\ n # 0
        /\ n = 0 => w_buf_next < MaxBlock
    BY <1>0, SizesAssumption DEF WriterCtl, TypeOK, HandleType, LocalType, MarkFilled,
       IdleWriter, Goto, handle, args
  <1>7. w_buf_curr <= w_buf_next /\ w_buf_curr \in Nat /\ w_buf_next \in Nat
    BY LedgerInts DEF Ledger, BlocksInv
  <1>6. XferAt(p)' /\ SodAt(p)' /\ BlocksAt(p)' /\ IsWriter(p)'
    BY <1>0, <1>2, <1>4, <1>5, <1>7 DEF Unmoved, XferAt, SodAt, BlocksAt, Opened, Closing,
       Started, NoneOpen, IsWriter
  <1> QED BY <1>1, <1>3, <1>6, LedgerParts

LEMMA LedgerGetNextWrite ==
    ASSUME TypeOK, Control, WriterCtl, WriterExclusion, Ledger,
           NEW p \in Writers, w_buf_next < w_buf_curr + NBUFS, GetNextWrite(p)
    PROVE  Ledger'
  <1>0. p \in Procs /\ IsWriter(p)
    BY DEF Procs, GetNextWrite, IdleWriter, SodAllowed, CallEnableSod, Rewind, Goto,
       IsWriter, Control
  <1>1. Alone(p)'
    BY <1>0, WriterAlone, AloneNext DEF PlainWriter
  <1>2. Unmoved
    BY DEF Unmoved, GetNextWrite, IdleWriter, SodAllowed, CallEnableSod, Rewind, Goto,
       wsync, flags, hist
  <1>3. XlogInv' /\ BlocksInv' /\ FlagsInv'
    BY <1>2, QuietParts
  <1>4. XferAt(p) /\ SodAt(p) /\ BlocksAt(p)
    BY <1>0 DEF Ledger
  <1>5. /\ pc[p] = "idle" /\ state'[p] = state[p] /\ w_buf_next < MaxBlock
        /\ xfer'[p] = xfer[p]
    BY DEF GetNextWrite, IdleWriter, SodAllowed, CallEnableSod, Rewind, Goto, handle
  <1>6. CASE state[p] = "WCHANGE"
    <2>1. /\ pc'[p] = "sod_ack" /\ start_buf'[p] = w_buf_curr /\ start_byte'[p] = 0
          /\ w_xfer < MaxXfer
      BY <1>0, <1>6 DEF TypeOK, LocalType, GetNextWrite, IdleWriter, SodAllowed,
         CallEnableSod, Rewind, Goto
    <2>2. \A x \in 0..MaxXfer : x < w_xfer => xlog[x].eb < w_buf_curr
      <3> SUFFICES ASSUME NEW x \in 0..MaxXfer, x < w_xfer PROVE xlog[x].eb < w_buf_curr
        OBVIOUS
      <3>1. xlog[x].eb <= w_buf_curr
        BY DEF Ledger, XlogInv, EndedXfer
      <3>2. w_xfer - 1 \in 0..MaxXfer /\ xlog[w_xfer - 1].eb # w_buf_curr
        BY <1>4, <1>5, LedgerInts DEF XferAt, Closing
      <3>3. CASE x = w_xfer - 1
        BY <3>1, <3>2, <3>3, LedgerInts
      <3>4. CASE x < w_xfer - 1
        <4>1. EndedXfer(w_xfer - 1) /\ Started(w_xfer - 1)
          <5>1. EndedXfer(w_xfer - 1)
            BY <3>2, LedgerInts DEF Ledger, XlogInv
          <5> QED BY <3>2, <5>1, LedgerInts DEF EndedXfer, Started
        <4>2. xlog[x].eb < xlog[w_xfer - 1].sb
          BY <3>2, <3>4, <4>1, LedgerInts, SMTT(30) DEF Ledger, XlogInv
        <4> QED BY <3>2, <4>1, <4>2, LedgerInts DEF EndedXfer
      <3> QED BY <3>3, <3>4, LedgerInts
    <2>3. XferAt(p)' /\ IsWriter(p)'
      BY <1>2, <1>4, <1>5, <1>6, <2>1 DEF Unmoved, XferAt, Opened, Closing, Started, IsWriter
    <2>4. SodAt(p)'
      BY <1>2, <2>1, <2>2, LedgerInts DEF Unmoved, SodAt
    <2>5. BlocksAt(p)'
      BY <1>2, <1>5, <2>1, LedgerInts DEF Unmoved, BlocksAt
    <2> QED BY <1>1, <1>3, <2>3, <2>4, <2>5, LedgerParts
  <1>7. CASE state[p] # "WCHANGE"
    <2>1. pc'[p] = "get" /\ ret'[p] = ret[p]
      BY <1>0, <1>7 DEF TypeOK, LocalType, GetNextWrite, IdleWriter, SodAllowed,
         CallEnableSod, Rewind, Goto
    <2>2. ret[p] = "idle"
      BY <1>5 DEF WriterCtl
    <2>3. XferAt(p)' /\ IsWriter(p)' /\ SodAt(p)' /\ BlocksAt(p)'
      BY <1>0, <1>2, <1>4, <1>5, <1>7, <2>1, <2>2
      DEF Unmoved, XferAt, SodAt, BlocksAt, Opened, Closing, Started, IsWriter
    <2> QED BY <1>1, <1>3, <2>3, LedgerParts
  <1> QED BY <1>6, <1>7

\* The last transfer that ended is the one that ended last.
LEMMA EndedBefore ==
    ASSUME TypeOK, Ledger, NEW x \in 0..MaxXfer, NEW y \in 0..MaxXfer, x < y, y < w_xfer
    PROVE  xlog[x].eb < xlog[y].sb /\ xlog[y].sb <= xlog[y].eb /\ xlog[x].eb < xlog[y].eb
  <1>1. EndedXfer(y)
    BY DEF Ledger, XlogInv
  <1>2. Started(y)
    BY <1>1, LedgerInts DEF EndedXfer, Started
  <1>3. xlog[x].eb < xlog[y].sb
    BY <1>2, LedgerInts DEF Ledger, XlogInv
  <1> QED BY <1>1, <1>3, LedgerInts DEF EndedXfer

LEMMA LedgerEnableSod ==
    ASSUME TypeOK, Control, WriterCtl, WriterExclusion, Ledger,
           NEW p \in Writers, NEW b \in 0..MaxBlock, NEW y \in 0..BUFSZ,
           b > 0, b < w_buf_curr, y < BUFSZ, PastXfers(b),
           EnableSod(p, b, y)
    PROVE  Ledger'
  <1>0. p \in Procs /\ IsWriter(p)
    BY DEF Procs, EnableSod, IdleWriter, SodAllowed, CallEnableSod, Rewind, Goto,
       IsWriter, Control
  <1>1. Alone(p)'
    BY <1>0, WriterAlone, AloneNext DEF PlainWriter
  <1>2. Unmoved
    BY DEF Unmoved, EnableSod, IdleWriter, SodAllowed, CallEnableSod, Rewind, Goto, wsync,
       flags, hist
  <1>3. XlogInv' /\ BlocksInv' /\ FlagsInv'
    BY <1>2, QuietParts
  <1>4. XferAt(p) /\ SodAt(p) /\ BlocksAt(p)
    BY <1>0 DEF Ledger
  <1>5. /\ pc[p] = "idle" /\ state'[p] = state[p] /\ state[p] \in {"WRITER", "WCHANGE"}
        /\ w_xfer < MaxXfer /\ pc'[p] = "sod_ack" /\ ret'[p] = "idle"
        /\ start_buf'[p] = b /\ start_byte'[p] = y /\ b <= w_buf_next /\ b >= SodMinbuf(p)
    BY <1>0 DEF TypeOK, LocalType, EnableSod, IdleWriter, SodAllowed, CallEnableSod,
       Rewind, Goto, handle
  <1>6. b > w_buf_next - NBUFS
    <2>1. /\ soclock_buf[p] \in Nat /\ WORD \in Nat /\ w_buf_next < WORD /\ NBUFS < WORD
          /\ w_buf_next + 1 < WORD
      BY <1>0, LedgerInts, BoundsAssumption DEF TypeOK, HandleType, Ledger, BlocksInv
    <2>2. CASE soclock_buf[p] <= w_buf_next /\ w_buf_next - soclock_buf[p] < NBUFS
      <3>1. U64(w_buf_next - soclock_buf[p]) = w_buf_next - soclock_buf[p]
        BY <2>1, <2>2, LedgerInts DEF U64
      <3> QED BY <1>5, <2>1, <2>2, <3>1, LedgerInts DEF SodMinbuf
    <2>3. CASE soclock_buf[p] <= w_buf_next /\ ~(w_buf_next - soclock_buf[p] < NBUFS)
      <3>1. U64(w_buf_next - soclock_buf[p]) = w_buf_next - soclock_buf[p]
        BY <2>1, <2>3, LedgerInts DEF U64
      <3>2. U64(w_buf_next - NBUFS + 1) = w_buf_next - NBUFS + 1
        BY <2>1, <2>3, LedgerInts DEF U64
      <3> QED BY <1>5, <2>1, <2>3, <3>1, <3>2, LedgerInts DEF SodMinbuf
    <2>4. CASE soclock_buf[p] > w_buf_next
      <3>1. CASE U64(w_buf_next - soclock_buf[p]) < NBUFS
        BY <1>5, <2>1, <2>4, <3>1, LedgerInts DEF SodMinbuf
      <3>2. CASE ~(U64(w_buf_next - soclock_buf[p]) < NBUFS)
        <4>1. b >= U64(w_buf_next - NBUFS + 1)
          BY <1>5, <3>2 DEF SodMinbuf
        <4>2. CASE w_buf_next - NBUFS + 1 >= 0
          <5>1. U64(w_buf_next - NBUFS + 1) = w_buf_next - NBUFS + 1
            BY <2>1, <4>2, LedgerInts DEF U64
          <5> QED BY <4>1, <5>1, LedgerInts
        <4>3. CASE w_buf_next - NBUFS + 1 < 0
          BY <4>3, LedgerInts
        <4> QED BY <4>2, <4>3, LedgerInts
      <3> QED BY <3>1, <3>2
    <2> QED BY <2>1, <2>2, <2>3, <2>4, LedgerInts
  <1>7. \A x \in 0..MaxXfer : x < w_xfer => xlog[x].eb < b
    <2> SUFFICES ASSUME NEW x \in 0..MaxXfer, x < w_xfer PROVE xlog[x].eb < b
      OBVIOUS
    <2>1. w_xfer - 1 \in 0..MaxXfer /\ w_xfer - 1 < w_xfer /\ w_xfer - 1 >= w_xfer - XFERS
      BY LedgerInts, SizesAssumption
    <2>2. e_buf[(w_xfer - 1) % XFERS] = xlog[w_xfer - 1].eb
      BY <2>1 DEF Ledger, FlagsInv
    <2>3. b > xlog[w_xfer - 1].eb
      BY <2>1, <2>2, LedgerInts DEF PastXfers
    <2>4. CASE x = w_xfer - 1
      BY <2>1, <2>3, <2>4, LedgerInts
    <2>5. CASE x < w_xfer - 1
      <3>1. xlog[x].eb < xlog[w_xfer - 1].eb
        BY <2>1, <2>5, EndedBefore
      <3> QED BY <2>1, <2>3, <3>1, LedgerInts
    <2> QED BY <2>4, <2>5, LedgerInts
  <1>8. XferAt(p)' /\ IsWriter(p)'
    BY <1>2, <1>4, <1>5 DEF Unmoved, XferAt, Opened, Closing, Started, IsWriter
  <1>9. SodAt(p)'
    BY <1>2, <1>5, <1>6, <1>7, LedgerInts DEF Unmoved, SodAt
  <1>10. BlocksAt(p)'
    BY <1>2, <1>5 DEF Unmoved, BlocksAt
  <1> QED BY <1>1, <1>3, <1>8, <1>9, <1>10, LedgerParts

LEMMA LedgerMarkFilledClocked ==
    ASSUME TypeOK, Control, WriterCtl, WriterExclusion, Ledger,
           NEW p \in Writers, ~NoneOpen, MarkFilledClocked(p)
    PROVE  Ledger'
  <1>0. p \in Procs /\ IsWriter(p)
    BY DEF Procs, MarkFilledClocked, IdleWriter, IsWriter, Control
  <1>1. Alone(p)'
    BY <1>0, WriterAlone, AloneNext DEF PlainWriter
  <1>2. /\ UNCHANGED <<w_buf_next, w_xfer, s_buf, s_byte, eod, e_buf, e_byte, xlog>>
        /\ w_buf_curr' = w_buf_curr + 1
    BY DEF MarkFilledClocked, IdleWriter, flags, hist
  <1>3. /\ pc[p] = "idle" /\ state[p] = "WRITER" /\ pc'[p] = "idle" /\ state'[p] = "WRITER"
    BY DEF MarkFilledClocked, IdleWriter, handle
  <1>4. XferAt(p) /\ SodAt(p) /\ BlocksAt(p)
    BY <1>0 DEF Ledger
  <1>5. w_buf_curr < w_buf_next
    BY LedgerInts DEF NoneOpen, Ledger, BlocksInv
  <1>6. ~Started(w_xfer)
    BY <1>3, <1>4 DEF XferAt, Opened
  <1>7. XlogInv'
    <2>1. xlog' \in [0..MaxXfer -> XferRec] /\ w_xfer' <= MaxXfer
      BY <1>2 DEF Ledger, XlogInv
    <2>2. ASSUME NEW x \in 0..MaxXfer
          PROVE  x < w_xfer' => EndedXfer(x)'
      BY <1>2, LedgerInts, SMTT(30) DEF Ledger, XlogInv, EndedXfer
    <2>3. ASSUME NEW x \in 0..MaxXfer
          PROVE  /\ ~(x = w_xfer' /\ Started(x)')
                 /\ x > w_xfer' => ~Started(x)'
      BY <1>2, <1>6 DEF Ledger, XlogInv, Started
    <2>4. \A x, y \in 0..MaxXfer :
            x < y /\ y <= w_xfer' /\ Started(y)' => xlog'[x].eb < xlog'[y].sb
      BY <1>2 DEF Ledger, XlogInv, Started
    <2> QED BY <2>1, <2>2, <2>3, <2>4 DEF XlogInv
  <1>8. BlocksInv'
    BY <1>2, <1>5, LedgerInts DEF Ledger, BlocksInv
  <1>9. FlagsInv'
    BY <1>2 DEF Ledger, FlagsInv, Started
  <1>10. XferAt(p)' /\ IsWriter(p)'
    <2>1. w_xfer > 0 => xlog[w_xfer - 1].eb <= w_buf_curr
      BY LedgerInts DEF Ledger, XlogInv, EndedXfer
    <2>2. w_xfer > 0 => w_xfer - 1 \in 0..MaxXfer
      BY LedgerInts
    <2> QED BY <1>2, <1>3, <1>4, <1>6, <2>1, <2>2, LedgerInts DEF XferAt, Opened,
               Closing, Started, IsWriter
  <1>11. SodAt(p)' /\ BlocksAt(p)'
    BY <1>3 DEF SodAt, BlocksAt
  <1> QED BY <1>1, <1>7, <1>8, <1>9, <1>10, <1>11, LedgerParts

LEMMA LedgerPublish ==
    ASSUME TypeOK, Control, WriterCtl, WriterExclusion, Ledger,
           NEW p \in Writers, Publish(p)
    PROVE  Ledger'
  <1>0. p \in Procs /\ IsWriter(p)
    BY DEF Procs, Publish, Goto, IsWriter, Control
  <1>1. Alone(p)'
    BY <1>0, WriterAlone, AloneNext DEF PlainWriter
  <1>2. /\ UNCHANGED <<w_buf_next, w_xfer, s_buf, s_byte, eod, e_buf, e_byte, xlog>>
        /\ w_buf_curr' = w_buf_curr + 1
    BY DEF Publish, Goto, flags, hist
  <1>3. /\ pc[p] = "publish" /\ pc'[p] = "full" /\ state'[p] = state[p] /\ xfer'[p] = xfer[p]
    BY <1>0 DEF TypeOK, LocalType, Publish, Goto, handle
  <1>4. XferAt(p) /\ SodAt(p) /\ BlocksAt(p)
    BY <1>0 DEF Ledger
  <1>5. w_buf_curr < w_buf_next
    BY <1>3, <1>4 DEF BlocksAt
  <1>6. XlogInv'
    <2>1. xlog' \in [0..MaxXfer -> XferRec] /\ w_xfer' <= MaxXfer
      BY <1>2 DEF Ledger, XlogInv
    <2>2. ASSUME NEW x \in 0..MaxXfer
          PROVE  /\ x < w_xfer' => EndedXfer(x)'
                 /\ x = w_xfer' /\ Started(x)' => CurrentXfer(x)'
                 /\ x > w_xfer' => ~Started(x)'
      <3>1. x < w_xfer => EndedXfer(x)'
        BY <1>2, LedgerInts DEF Ledger, XlogInv, EndedXfer
      <3>2. x = w_xfer /\ Started(x) => CurrentXfer(x)'
        BY <1>2, LedgerInts DEF Ledger, XlogInv, CurrentXfer
      <3>3. x > w_xfer => ~Started(x)
        BY DEF Ledger, XlogInv
      <3> QED BY <1>2, <3>1, <3>2, <3>3 DEF Started
    <2>3. \A x, y \in 0..MaxXfer :
            x < y /\ y <= w_xfer' /\ Started(y)' => xlog'[x].eb < xlog'[y].sb
      BY <1>2 DEF Ledger, XlogInv, Started
    <2> QED BY <2>1, <2>2, <2>3 DEF XlogInv
  <1>7. BlocksInv'
    BY <1>2, <1>5, LedgerInts DEF Ledger, BlocksInv
  <1>8. FlagsInv'
    BY <1>2 DEF Ledger, FlagsInv, Started
  <1>9. XferAt(p)' /\ IsWriter(p)'
    <2>1. w_xfer > 0 => w_xfer - 1 \in 0..MaxXfer /\ w_xfer - 1 < w_xfer
      BY LedgerInts
    <2>2. w_xfer > 0 => xlog[w_xfer - 1].eb <= w_buf_curr
      BY <2>1 DEF Ledger, XlogInv, EndedXfer
    <2>3. w_xfer > 0 => xlog[w_xfer - 1].eb # w_buf_curr + 1
      BY <2>1, <2>2, LedgerInts
    <2> QED BY <1>0, <1>2, <1>3, <1>4, <2>3 DEF XferAt, Opened, Closing, Started, IsWriter
  <1>10. SodAt(p)' /\ BlocksAt(p)'
    BY <1>3 DEF SodAt, BlocksAt
  <1> QED BY <1>1, <1>6, <1>7, <1>8, <1>9, <1>10, LedgerParts

LEMMA LedgerGetDone ==
    ASSUME TypeOK, Control, WriterCtl, WriterExclusion, Ledger,
           NEW p \in Writers, GetDone(p)
    PROVE  Ledger'
  <1>0. p \in Procs /\ IsWriter(p)
    BY DEF Procs, GetDone, Goto, IsWriter, Control
  <1>1. Alone(p)'
    BY <1>0, WriterAlone, AloneNext DEF PlainWriter
  <1>2. /\ UNCHANGED <<w_buf_curr, w_xfer, s_buf, s_byte, eod, e_buf, e_byte, xlog>>
        /\ w_buf_next' = w_buf_next + 1
    BY DEF GetDone, Goto, flags, hist
  <1>3. /\ pc[p] = "get" /\ pc'[p] = ret[p] /\ ret'[p] = "idle"
        /\ state'[p] = state[p] /\ xfer'[p] = xfer[p]
    BY <1>0 DEF TypeOK, LocalType, GetDone, Goto, handle
  <1>4. XferAt(p) /\ SodAt(p) /\ BlocksAt(p)
    BY <1>0 DEF Ledger
  <1>5. \/ state[p] \in {"WRITER", "WRITING"} /\ ret[p] = "idle"
        \/ state[p] = "WRITER" /\ ret[p] = "publish"
    BY <1>3 DEF WriterCtl
  <1>6. XlogInv' /\ FlagsInv'
    BY <1>2 DEF Ledger, XlogInv, FlagsInv, EndedXfer, CurrentXfer, Started
  <1>7. BlocksInv'
    BY <1>2, <1>3, <1>4, LedgerInts DEF Ledger, BlocksInv, BlocksAt
  <1>8. XferAt(p)' /\ IsWriter(p)'
    BY <1>0, <1>2, <1>3, <1>4, <1>5 DEF XferAt, Opened, Closing, Started, IsWriter
  <1>9. SodAt(p)' /\ BlocksAt(p)'
    BY <1>2, <1>3, <1>4, <1>5, LedgerInts DEF SodAt, BlocksAt
  <1> QED BY <1>1, <1>6, <1>7, <1>8, <1>9, LedgerParts

\* Two transfers within XFERS of each other have different flags.
LEMMA XferApart ==
    ASSUME NEW x \in Nat, NEW y \in Nat, x < y, x > y - XFERS
    PROVE  x % XFERS # y % XFERS /\ x % XFERS \in Xfers /\ y % XFERS \in Xfers
  <1>1. XFERS \in Nat /\ XFERS > 0 /\ x \in Int /\ y \in Int /\ y < x + XFERS
    BY SizesAssumption
  <1> QED BY <1>1, ModDistinct, XferIndex

\* What the start of data writes.
LEMMA SodSetEffect ==
    ASSUME TypeOK, Ledger, NEW p \in Writers, SodSet(p)
    PROVE  /\ xlog' \in [0..MaxXfer -> XferRec]
           /\ \A x \in 0..MaxXfer : x # w_xfer => xlog'[x] = xlog[x]
           /\ xlog'[w_xfer].sb = start_buf[p] /\ xlog'[w_xfer].sy = start_byte[p]
           /\ xlog'[w_xfer].eb = -1
  <1> DEFINE r == [sb |-> start_buf[p], sy |-> start_byte[p], eb |-> -1, ey |-> 0]
  <1>1. xlog' = [xlog EXCEPT ![w_xfer] = r] /\ xlog \in [0..MaxXfer -> XferRec]
    BY DEF SodSet, Ledger, XlogInv
  <1>2. start_buf[p] \in Int /\ start_byte[p] \in Int /\ -1 \in Int /\ 0 \in Int
    BY DEF TypeOK, LocalType, Procs
  <1>3. r \in XferRec
    BY <1>2 DEF XferRec
  <1>4. w_xfer \in 0..MaxXfer
    BY LedgerInts
  <1>5. r.sb = start_buf[p] /\ r.sy = start_byte[p] /\ r.eb = -1
    OBVIOUS
  <1> HIDE DEF r
  <1> QED BY <1>1, <1>3, <1>4, <1>5

\* What the end of data writes.
LEMMA EodSetEffect ==
    ASSUME TypeOK, Ledger, NEW p \in Writers, EodSet(p)
    PROVE  /\ xlog' \in [0..MaxXfer -> XferRec]
           /\ \A x \in 0..MaxXfer : x # w_xfer => xlog'[x] = xlog[x]
           /\ xlog'[w_xfer].sb = xlog[w_xfer].sb /\ xlog'[w_xfer].sy = xlog[w_xfer].sy
           /\ xlog'[w_xfer].eb = w_buf_curr /\ xlog'[w_xfer].ey = nbytes[p]
  <1> DEFINE r == [xlog[w_xfer] EXCEPT !.eb = w_buf_curr, !.ey = nbytes[p]]
  <1>1. xlog \in [0..MaxXfer -> XferRec] /\ w_xfer \in 0..MaxXfer
    BY LedgerInts DEF Ledger, XlogInv
  <1>2. xlog' = [xlog EXCEPT ![w_xfer] = r]
    BY <1>1 DEF EodSet
  <1>3. w_buf_curr \in Int /\ nbytes[p] \in Int /\ xlog[w_xfer] \in XferRec
    <2>1. nbytes[p] \in Nat
      BY DEF TypeOK, LocalType, Procs
    <2>2. w_buf_curr \in Nat
      BY LedgerInts
    <2>3. xlog[w_xfer] \in XferRec
      BY <1>1
    <2> QED BY <2>1, <2>2, <2>3
  <1>4. /\ r \in XferRec /\ r.sb = xlog[w_xfer].sb /\ r.sy = xlog[w_xfer].sy
        /\ r.eb = w_buf_curr /\ r.ey = nbytes[p]
    BY <1>3 DEF XferRec
  <1> HIDE DEF r
  <1> QED BY <1>1, <1>2, <1>4

LEMMA LedgerSodSet ==
    ASSUME TypeOK, Control, WriterCtl, WriterExclusion, Ledger,
           NEW p \in Writers, SodSet(p)
    PROVE  Ledger'
  <1>0. p \in Procs /\ IsWriter(p)
    BY DEF Procs, SodSet, SetBoth, SetState, Rewind, Goto, IsWriter, Control
  <1>1. Alone(p)'
    BY <1>0, WriterAlone, AloneNext DEF PlainWriter
  <1>2. XferAt(p) /\ SodAt(p) /\ BlocksAt(p)
    BY <1>0 DEF Ledger
  <1>3. /\ UNCHANGED <<w_buf_curr, w_buf_next, w_xfer, e_buf, e_byte>>
        /\ pc[p] = "sod_ack" /\ pc'[p] = "sod_full" /\ state'[p] = "WRITING"
        /\ xfer'[p] = w_xfer % XFERS /\ start_buf'[p] = start_buf[p] /\ ret'[p] = ret[p]
    BY <1>0 DEF TypeOK, HandleType, LocalType, SodSet, SetBoth, SetState, Rewind, Goto, args
  <1>4. w_xfer \in 0..MaxXfer /\ w_xfer % XFERS \in Xfers /\ MaxXfer \in Nat
    BY LedgerInts, XferIndex
  <1>5. \A f \in Xfers :
          /\ s_buf'[f] = IF f = w_xfer % XFERS THEN start_buf[p] ELSE s_buf[f]
          /\ s_byte'[f] = IF f = w_xfer % XFERS THEN start_byte[p] ELSE s_byte[f]
          /\ eod'[f] = IF w_buf_curr = 0 /\ f = w_xfer % XFERS THEN 0 ELSE eod[f]
    BY <1>4 DEF TypeOK, FlagsType, SodSet
  <1>6. /\ xlog' \in [0..MaxXfer -> XferRec]
        /\ \A x \in 0..MaxXfer : x # w_xfer => xlog'[x] = xlog[x]
        /\ xlog'[w_xfer].sb = start_buf[p] /\ xlog'[w_xfer].sy = start_byte[p]
        /\ xlog'[w_xfer].eb = -1
    BY SodSetEffect
  <1>7. /\ w_xfer < MaxXfer /\ start_byte[p] <= BUFSZ /\ start_byte[p] \in Nat
        /\ start_buf[p] \in Nat
        /\ start_buf[p] <= w_buf_curr /\ start_buf[p] > w_buf_next - NBUFS
        /\ start_buf[p] = w_buf_curr => start_byte[p] = 0
        /\ start_buf[p] = 0 => w_buf_curr = 0
        /\ \A x \in 0..MaxXfer : x < w_xfer => xlog[x].eb < start_buf[p]
    BY <1>0, <1>2, <1>3 DEF SodAt, TypeOK, LocalType
  <1>8. ~Started(w_xfer) /\ (w_buf_curr = 0 => w_xfer = 0)
    <2>1. state[p] \in {"WRITER", "WCHANGE"}
      BY <1>3 DEF WriterCtl
    <2>2. ~Started(w_xfer)
      BY <1>2, <1>3, <2>1 DEF XferAt, Opened
    <2>3. ASSUME w_xfer > 0, w_buf_curr = 0 PROVE FALSE
      <3>1. w_xfer - 1 \in 0..MaxXfer /\ w_xfer - 1 < w_xfer
        BY <1>4, <2>3
      <3>2. 0 <= xlog[w_xfer - 1].sb /\ xlog[w_xfer - 1].sb <= xlog[w_xfer - 1].eb
        BY <3>1 DEF Ledger, XlogInv, EndedXfer
      <3> QED BY <1>7, <2>3, <3>1, <3>2, LedgerInts
    <2> QED BY <1>4, <2>2, <2>3
  <1>9. XlogInv'
    <2>1. ASSUME NEW x \in 0..MaxXfer
          PROVE  /\ x < w_xfer' => EndedXfer(x)'
                 /\ x = w_xfer' /\ Started(x)' => CurrentXfer(x)'
                 /\ x > w_xfer' => ~Started(x)'
      <3>1. x < w_xfer => EndedXfer(x)'
        <4>1. x < w_xfer => EndedXfer(x) /\ xlog'[x] = xlog[x]
          BY <1>4, <1>6 DEF Ledger, XlogInv
        <4> QED BY <1>3, <4>1 DEF EndedXfer
      <3>2. x = w_xfer => CurrentXfer(x)'
        BY <1>3, <1>6, <1>7, LedgerInts DEF CurrentXfer
      <3>3. x > w_xfer => ~Started(x)'
        BY <1>4, <1>6 DEF Ledger, XlogInv, Started
      <3> QED BY <1>3, <3>1, <3>2, <3>3
    <2>2. ASSUME NEW x \in 0..MaxXfer, NEW y \in 0..MaxXfer,
                 x < y, y <= w_xfer, Started(y)'
          PROVE  xlog'[x].eb < xlog'[y].sb
      <3>1. x # w_xfer /\ xlog'[x] = xlog[x]
        BY <1>4, <1>6, <2>2
      <3>2. CASE y = w_xfer
        BY <1>6, <1>7, <2>2, <3>1, <3>2
      <3>3. CASE y # w_xfer
        BY <1>6, <2>2, <3>1, <3>3 DEF Ledger, XlogInv, Started
      <3> QED BY <3>2, <3>3
    <2> QED BY <1>3, <1>4, <1>6, <2>1, <2>2 DEF XlogInv
  <1>10. BlocksInv'
    BY <1>3 DEF Ledger, BlocksInv
  <1>11. Started(w_xfer)' /\ w_xfer' = w_xfer
    BY <1>3, <1>6, <1>7 DEF Started
  <1>12. FlagsInv'
    <2>1. ASSUME NEW x \in 0..MaxXfer, x <= w_xfer, Started(x)', x > w_xfer - XFERS
          PROVE  s_buf'[x % XFERS] = xlog'[x].sb /\ s_byte'[x % XFERS] = xlog'[x].sy
      <3>1. CASE x = w_xfer
        BY <1>4, <1>5, <1>6, <3>1
      <3>2. CASE x < w_xfer
        <4>1. x % XFERS # w_xfer % XFERS /\ x % XFERS \in Xfers
          BY <1>4, <2>1, <3>2, XferApart
        <4>2. xlog'[x] = xlog[x] /\ Started(x) /\ x >= w_xfer - XFERS
          BY <1>4, <1>6, <2>1, <3>2, SizesAssumption DEF Started
        <4>3. s_buf[x % XFERS] = xlog[x].sb /\ s_byte[x % XFERS] = xlog[x].sy
          BY <1>8, <2>1, <4>2 DEF Ledger, FlagsInv
        <4> QED BY <1>5, <4>1, <4>2, <4>3
      <3> QED BY <1>4, <2>1, <3>1, <3>2
    <2>2. ASSUME NEW x \in 0..MaxXfer, x < w_xfer, x >= w_xfer - XFERS
          PROVE  /\ e_buf'[x % XFERS] = xlog'[x].eb /\ e_byte'[x % XFERS] = xlog'[x].ey
                 /\ eod'[x % XFERS] = 1
      <3>1. xlog'[x] = xlog[x] /\ x % XFERS \in Xfers /\ w_buf_curr # 0
        BY <1>4, <1>6, <1>8, <2>2, XferIndex
      <3>2. /\ e_buf[x % XFERS] = xlog[x].eb /\ e_byte[x % XFERS] = xlog[x].ey
            /\ eod[x % XFERS] = 1
        BY <2>2 DEF Ledger, FlagsInv
      <3> QED BY <1>3, <1>5, <3>1, <3>2
    <2>3. ASSUME NEW f \in Xfers
          PROVE  /\ w_xfer = 0 => e_buf'[f] = 0
                 /\ w_xfer > 0 => e_buf'[f] <= xlog'[w_xfer - 1].eb
      <3>1. w_xfer > 0 => w_xfer - 1 \in 0..MaxXfer /\ w_xfer - 1 # w_xfer
        BY <1>4
      <3> QED BY <1>3, <1>6, <3>1 DEF Ledger, FlagsInv
    <2>4. eod'[w_xfer % XFERS] = 0 \/ e_buf'[w_xfer % XFERS] < xlog'[w_xfer].sb
      <3>1. CASE w_buf_curr = 0
        BY <1>4, <1>5, <3>1
      <3>2. CASE w_buf_curr # 0 /\ w_xfer = 0
        BY <1>3, <1>4, <1>6, <1>7, <3>2 DEF Ledger, FlagsInv
      <3>3. CASE w_xfer > 0
        <4>1. w_xfer - 1 \in 0..MaxXfer /\ w_xfer - 1 < w_xfer
          BY <1>4, <3>3
        <4>2. e_buf[w_xfer % XFERS] <= xlog[w_xfer - 1].eb
          BY <1>4, <3>3 DEF Ledger, FlagsInv
        <4>3. e_buf[w_xfer % XFERS] \in Nat
          BY <1>4 DEF TypeOK, FlagsType
        <4>4. xlog[w_xfer - 1].eb \in Int
          BY <4>1, LedgerInts
        <4>5. e_buf' = e_buf
          BY <1>3
        <4> QED BY <1>4, <1>6, <1>7, <4>1, <4>2, <4>3, <4>4, <4>5
      <3> QED BY <1>4, <3>1, <3>2, <3>3
    <2> QED BY <1>3, <1>11, <2>1, <2>2, <2>3, <2>4 DEF FlagsInv
  <1>13. XferAt(p)' /\ IsWriter(p)'
    <2>1. w_xfer > 0 => xlog'[w_xfer - 1].eb # w_buf_curr
      <3> SUFFICES ASSUME w_xfer > 0 PROVE xlog'[w_xfer - 1].eb # w_buf_curr
        OBVIOUS
      <3>1. w_xfer - 1 \in 0..MaxXfer /\ w_xfer - 1 < w_xfer
        BY <1>4
      <3>2. xlog'[w_xfer - 1] = xlog[w_xfer - 1]
        BY <1>6, <3>1, <1>4
      <3> QED BY <1>7, <3>1, <3>2, LedgerInts
    <2> QED BY <1>3, <1>7, <1>11, <2>1 DEF XferAt, Opened, Closing, IsWriter
  <1>14. SodAt(p)' /\ BlocksAt(p)'
    BY <1>2, <1>3, <1>6, <1>7 DEF SodAt, BlocksAt
  <1> QED BY <1>1, <1>9, <1>10, <1>12, <1>13, <1>14, LedgerParts

LEMMA LedgerEodSet ==
    ASSUME TypeOK, Control, WriterCtl, WriterExclusion, Ledger,
           NEW p \in Writers, EodSet(p)
    PROVE  Ledger'
  <1>0. p \in Procs /\ IsWriter(p)
    BY DEF Procs, EodSet, SetBoth, SetState, Rewind, Goto, IsWriter, Control
  <1>1. Alone(p)'
    BY <1>0, WriterAlone, AloneNext DEF PlainWriter
  <1>2. XferAt(p) /\ SodAt(p) /\ BlocksAt(p)
    BY <1>0 DEF Ledger
  <1>3. pc[p] = "eod_ack" /\ Opened(p) /\ Started(w_xfer) /\ xfer[p] = w_xfer % XFERS
    BY <1>2 DEF EodSet, XferAt, Opened
  <1>4. /\ UNCHANGED <<w_buf_curr, w_buf_next, s_buf, s_byte>> /\ w_xfer' = w_xfer + 1
        /\ pc'[p] = (IF nbytes[p] = 0 THEN "get" ELSE "publish") /\ state'[p] = "WRITER"
        /\ ret'[p] = (IF nbytes[p] = 0 THEN "publish" ELSE ret[p])
    BY <1>0 DEF TypeOK, HandleType, LocalType, EodSet, SetBoth, SetState, Rewind, Goto
  <1>5. ret[p] = "idle"
    BY <1>3 DEF WriterCtl
  <1>6. /\ w_xfer \in 0..MaxXfer /\ w_xfer % XFERS \in Xfers /\ w_xfer + 1 \in 0..MaxXfer
        /\ w_buf_curr \in Nat /\ w_buf_next \in Nat /\ nbytes[p] \in Nat /\ MaxXfer \in Nat
    BY <1>0, <1>2, <1>3, LedgerInts, XferIndex DEF XferAt, TypeOK, LocalType
  <1>7. \A f \in Xfers :
          /\ e_buf'[f] = IF f = w_xfer % XFERS THEN w_buf_curr ELSE e_buf[f]
          /\ e_byte'[f] = IF f = w_xfer % XFERS THEN nbytes[p] ELSE e_byte[f]
          /\ eod'[f] = IF f = w_xfer % XFERS THEN 1 ELSE eod[f]
    BY <1>3, <1>6 DEF TypeOK, FlagsType, EodSet
  <1>8. /\ xlog' \in [0..MaxXfer -> XferRec]
        /\ \A x \in 0..MaxXfer : x # w_xfer => xlog'[x] = xlog[x]
        /\ xlog'[w_xfer].sb = xlog[w_xfer].sb /\ xlog'[w_xfer].sy = xlog[w_xfer].sy
        /\ xlog'[w_xfer].eb = w_buf_curr /\ xlog'[w_xfer].ey = nbytes[p]
    BY EodSetEffect
  <1>9. /\ 0 <= xlog[w_xfer].sb /\ xlog[w_xfer].sb <= w_buf_curr
        /\ xlog[w_xfer].sy \in 0..BUFSZ
        /\ xlog[w_xfer].sb = w_buf_curr => xlog[w_xfer].sy = 0
    BY <1>3, <1>6 DEF Ledger, XlogInv, CurrentXfer
  <1>10. nbytes[p] <= BUFSZ /\ (nbytes[p] = 0 <=> w_buf_curr = w_buf_next)
         /\ (nbytes[p] = 0 => w_buf_next < MaxBlock)
    BY <1>2, <1>3 DEF BlocksAt, NoneOpen
  <1>11. xlog'[w_xfer + 1].sb = -1
    BY <1>6, <1>8 DEF Ledger, XlogInv, Started
  <1>12. XlogInv'
    <2>1. ASSUME NEW x \in 0..MaxXfer
          PROVE  /\ x < w_xfer + 1 => EndedXfer(x)'
                 /\ x > w_xfer + 1 => ~Started(x)'
      <3>1. x < w_xfer => EndedXfer(x)'
        BY <1>4, <1>6, <1>8 DEF Ledger, XlogInv, EndedXfer
      <3>2. x = w_xfer => EndedXfer(x)'
        <4> SUFFICES ASSUME x = w_xfer PROVE EndedXfer(x)'
          OBVIOUS
        <4>1. w_buf_curr' = w_buf_curr /\ w_buf_curr \in Nat /\ BUFSZ \in Nat
          BY <1>4, LedgerInts
        <4>2. /\ 0 <= xlog'[x].sb /\ xlog'[x].sb <= w_buf_curr /\ xlog'[x].eb = w_buf_curr
              /\ xlog'[x].sy \in 0..BUFSZ /\ xlog'[x].ey \in 0..BUFSZ
              /\ xlog'[x].sb = w_buf_curr => xlog'[x].sy = 0
          BY <1>6, <1>8, <1>9, <1>10, <4>1
        <4> QED BY <4>1, <4>2 DEF EndedXfer
      <3>3. x > w_xfer + 1 => ~Started(x)'
        BY <1>6, <1>8 DEF Ledger, XlogInv, Started
      <3> QED BY <1>6, <3>1, <3>2, <3>3
    <2>2. ASSUME NEW x \in 0..MaxXfer, NEW y \in 0..MaxXfer,
                 x < y, y <= w_xfer + 1, Started(y)'
          PROVE  xlog'[x].eb < xlog'[y].sb
      <3>1. y <= w_xfer /\ x # w_xfer
        <4>1. y # w_xfer + 1
          BY <1>11, <2>2 DEF Started
        <4> QED BY <1>6, <2>2, <4>1
      <3>2. xlog'[y].sb = xlog[y].sb /\ xlog'[x] = xlog[x]
        BY <1>8, <3>1
      <3>3. Started(y)
        BY <2>2, <3>2 DEF Started
      <3> QED BY <2>2, <3>1, <3>2, <3>3 DEF Ledger, XlogInv
    <2>3. ~Started(w_xfer)'
      BY <1>4, <1>11 DEF Started
    <2> QED BY <1>4, <1>6, <1>8, <2>1, <2>2, <2>3 DEF XlogInv, Started
  <1>13. BlocksInv'
    BY <1>4 DEF Ledger, BlocksInv
  <1>14. FlagsInv'
    <2>1. ASSUME NEW x \in 0..MaxXfer, x < w_xfer + 1, x >= w_xfer + 1 - XFERS
          PROVE  /\ s_buf'[x % XFERS] = xlog'[x].sb /\ s_byte'[x % XFERS] = xlog'[x].sy
                 /\ e_buf'[x % XFERS] = xlog'[x].eb /\ e_byte'[x % XFERS] = xlog'[x].ey
                 /\ eod'[x % XFERS] = 1
      <3>1. x <= w_xfer /\ x > w_xfer - XFERS /\ x >= w_xfer - XFERS
        BY <1>6, <2>1, SizesAssumption
      <3>2. Started(x)
        <4>1. CASE x = w_xfer
          BY <1>3, <4>1
        <4>2. CASE x < w_xfer
          BY <4>2, LedgerInts DEF Ledger, XlogInv, EndedXfer, Started
        <4> QED BY <1>6, <3>1, <4>1, <4>2
      <3>3. s_buf[x % XFERS] = xlog[x].sb /\ s_byte[x % XFERS] = xlog[x].sy
        BY <3>1, <3>2 DEF Ledger, FlagsInv
      <3>4. CASE x = w_xfer
        BY <1>4, <1>6, <1>7, <1>8, <3>3, <3>4
      <3>5. CASE x < w_xfer
        <4>1. x % XFERS # w_xfer % XFERS /\ x % XFERS \in Xfers
          BY <1>6, <3>1, <3>5, XferApart
        <4>2. xlog'[x] = xlog[x]
          BY <1>6, <1>8, <3>5
        <4>3. /\ e_buf[x % XFERS] = xlog[x].eb /\ e_byte[x % XFERS] = xlog[x].ey
              /\ eod[x % XFERS] = 1
          BY <3>1, <3>5 DEF Ledger, FlagsInv
        <4> QED BY <1>4, <1>7, <3>3, <4>1, <4>2, <4>3
      <3> QED BY <1>6, <3>1, <3>4, <3>5
    <2>2. ASSUME NEW f \in Xfers PROVE e_buf'[f] <= xlog'[w_xfer].eb
      <3>1. CASE f = w_xfer % XFERS
        BY <1>6, <1>7, <1>8, <3>1
      <3>2. CASE f # w_xfer % XFERS /\ w_xfer = 0
        BY <1>6, <1>7, <1>8, <3>2 DEF Ledger, FlagsInv
      <3>3. CASE f # w_xfer % XFERS /\ w_xfer > 0
        <4>1. w_xfer - 1 \in 0..MaxXfer /\ w_xfer - 1 < w_xfer
          BY <1>6, <3>3
        <4>2. e_buf[f] <= xlog[w_xfer - 1].eb /\ xlog[w_xfer - 1].eb <= w_buf_curr
          BY <3>3, <4>1 DEF Ledger, FlagsInv, XlogInv, EndedXfer
        <4>3. e_buf[f] \in Nat /\ xlog[w_xfer - 1].eb \in Int
          BY <4>1, LedgerInts DEF TypeOK, FlagsType
        <4> QED BY <1>6, <1>7, <1>8, <3>3, <4>2, <4>3
      <3> QED BY <1>6, <3>1, <3>2, <3>3
    <2>3. w_xfer' > 0 /\ w_xfer' - 1 = w_xfer /\ w_xfer' # 0
      BY <1>4, <1>6
    <2>4. ASSUME NEW x \in 0..MaxXfer, x <= w_xfer + 1, Started(x)' PROVE x < w_xfer + 1
      <3>1. x # w_xfer + 1
        BY <1>11, <2>4 DEF Started
      <3> QED BY <1>6, <2>4, <3>1
    <2>5. ~Started(w_xfer)'
      BY <1>4, <1>11 DEF Started
    <2>6. ASSUME NEW x \in 0..MaxXfer
          PROVE  /\ x <= w_xfer' /\ Started(x)' /\ x >= w_xfer' - XFERS
                    => s_buf'[x % XFERS] = xlog'[x].sb /\ s_byte'[x % XFERS] = xlog'[x].sy
                 /\ x < w_xfer' /\ x >= w_xfer' - XFERS
                    => /\ e_buf'[x % XFERS] = xlog'[x].eb /\ e_byte'[x % XFERS] = xlog'[x].ey
                       /\ eod'[x % XFERS] = 1
      <3>1. ASSUME x <= w_xfer + 1, Started(x)', x >= w_xfer + 1 - XFERS
            PROVE  s_buf'[x % XFERS] = xlog'[x].sb /\ s_byte'[x % XFERS] = xlog'[x].sy
        <4>1. x < w_xfer + 1
          BY <2>4, <3>1
        <4> QED BY <2>1, <3>1, <4>1
      <3>2. ASSUME x < w_xfer + 1, x >= w_xfer + 1 - XFERS
            PROVE  /\ e_buf'[x % XFERS] = xlog'[x].eb /\ e_byte'[x % XFERS] = xlog'[x].ey
                   /\ eod'[x % XFERS] = 1
        BY <2>1, <3>2
      <3> QED BY <1>4, <1>6, <3>1, <3>2, SizesAssumption
    <2>7. \A f \in Xfers : e_buf'[f] <= xlog'[w_xfer' - 1].eb
      BY <2>2, <2>3
    <2>8. xlog'[w_xfer'].sb = -1
      BY <2>5 DEF Started
    <2> QED BY <2>3, <2>6, <2>7, <2>8 DEF FlagsInv, Started
  <1>15. XferAt(p)' /\ IsWriter(p)'
    <2>1. w_xfer' > 0 /\ w_xfer' - 1 = w_xfer
      BY <1>4, <1>6
    <2>2. Closing(p)' /\ ~Opened(p)' /\ IsWriter(p)'
      BY <1>4 DEF Closing, Opened, IsWriter
    <2>3. ~Started(w_xfer)'
      BY <1>4, <1>11 DEF Started
    <2> QED BY <1>4, <1>8, <2>1, <2>2, <2>3 DEF XferAt
  <1>16. SodAt(p)' /\ BlocksAt(p)'
    <2>1. w_buf_curr <= w_buf_next
      BY DEF Ledger, BlocksInv
    <2> QED BY <1>4, <1>5, <1>6, <1>10, <2>1, SizesAssumption DEF SodAt, BlocksAt
  <1> QED BY <1>1, <1>12, <1>13, <1>14, <1>15, <1>16, LedgerParts

LEMMA LedgerLockWrite ==
    ASSUME TypeOK, Control, WriterCtl, WriterExclusion, Ledger,
           NEW p \in Writers, LockWrite(p)
    PROVE  Ledger'
  <1>1. /\ Unmoved /\ UNCHANGED <<state, xfer, ret, start_buf, start_byte, nbytes>>
        /\ pc' = [pc EXCEPT ![p] = "wlock"] /\ ~IsWriter(p)
    BY DEF LockWrite, Goto, IsWriter, Unmoved, wsync, flags, handle, args, hist
  <1>2. XlogInv' /\ BlocksInv' /\ FlagsInv'
    BY <1>1, QuietParts
  <1>3. ASSUME NEW q \in Writers, IsWriter(q)'
        PROVE  XferAt(q)' /\ SodAt(q)' /\ BlocksAt(q)'
    <2>1. IsWriter(q) /\ q # p /\ q \in Procs
      BY <1>1, <1>3 DEF IsWriter, Procs
    <2>2. pc'[q] = pc[q]
      BY <1>1, <2>1 DEF TypeOK, LocalType
    <2>3. XferAt(q) /\ SodAt(q) /\ BlocksAt(q)
      BY <2>1 DEF Ledger
    <2> QED BY <1>1, <2>2, <2>3
        DEF Unmoved, XferAt, SodAt, BlocksAt, Opened, Closing, Started, NoneOpen
  <1>4. (\A q \in Writers : ~IsWriter(q)') =>
          w_buf_curr' = 0 /\ w_buf_next' = 0 /\ w_xfer' = 0 /\ ~Started(0)'
    BY <1>1 DEF Ledger, Unmoved, IsWriter, Started
  <1> QED BY <1>2, <1>3, <1>4 DEF Ledger

LEMMA LedgerLockWriteState ==
    ASSUME TypeOK, Control, WriterCtl, WriterExclusion, Ledger,
           NEW p \in Writers, LockWriteState(p)
    PROVE  Ledger'
  <1>0. p \in Procs /\ pc[p] = "wlock" /\ state[p] = "VIEWER"
    BY DEF Procs, LockWriteState, Control
  <1>1. Alone(p) /\ Alone(p)'
    BY <1>0, WriterAlone, AloneNext DEF PlainWriter
  <1>2. \A q \in Writers : ~IsWriter(q)
    BY <1>0, <1>1 DEF Alone, IsWriter
  <1>3. w_state = "DISCON" /\ w_xfer = 0 /\ ~Started(0)
    BY <1>2 DEF WriterCtl, Ledger
  <1>4. Unmoved /\ pc'[p] = "idle" /\ state'[p] = "WCHANGE"
    BY <1>0, <1>3 DEF TypeOK, HandleType, LocalType, Unmoved, LockWriteState, SetBoth,
       SetState, Goto, flags, hist
  <1>5. XlogInv' /\ BlocksInv' /\ FlagsInv'
    BY <1>4, QuietParts
  <1>6. XferAt(p)' /\ SodAt(p)' /\ BlocksAt(p)' /\ IsWriter(p)'
    BY <1>3, <1>4 DEF Unmoved, XferAt, SodAt, BlocksAt, Opened, Closing, Started, IsWriter
  <1> QED BY <1>1, <1>5, <1>6, LedgerParts

\* Readers do not write in the ledger.
LEMMA LedgerFrame ==
    ASSUME Ledger, WriterStill
    PROVE  Ledger'
  <1>1. Unmoved
    BY DEF WriterStill, Unmoved, wsync, flags, hist
  <1>2. XlogInv' /\ BlocksInv' /\ FlagsInv'
    BY <1>1, QuietParts
  <1>3. \A q \in Writers : IsWriter(q)' <=> IsWriter(q)
    BY DEF WriterStill, IsWriter
  <1>4. ASSUME NEW q \in Writers, IsWriter(q)'
        PROVE  XferAt(q)' /\ SodAt(q)' /\ BlocksAt(q)'
    <2>1. XferAt(q) /\ SodAt(q) /\ BlocksAt(q)
      BY <1>3, <1>4 DEF Ledger
    <2>2. Same(q)
      BY DEF WriterStill, Same
    <2> QED BY <1>1, <2>1, <2>2
        DEF Unmoved, Same, XferAt, SodAt, BlocksAt, Opened, Closing, Started, NoneOpen
  <1>5. (\A q \in Writers : ~IsWriter(q)') =>
          w_buf_curr' = 0 /\ w_buf_next' = 0 /\ w_xfer' = 0 /\ ~Started(0)'
    BY <1>1, <1>3 DEF Ledger, Unmoved, Started
  <1> QED BY <1>2, <1>4, <1>5 DEF Ledger

\* Every step of the writer keeps the ledger.
LEMMA LedgerWriter ==
    ASSUME TypeOK, Control, WriterCtl, WriterExclusion, Ledger, NEW p \in Writers, PlainWriter(p)
    PROVE  Ledger'
  BY LedgerLockWrite, LedgerLockWriteState, LedgerRelockWrite, LedgerEnableEod,
     LedgerDisableSod, LedgerSetSoclockBuf, LedgerEnableSod, LedgerSodAck, LedgerSodSet,
     LedgerSodFull, LedgerSodDone, LedgerGetNextWrite, LedgerGetClear, LedgerGetDone,
     LedgerZeroNextWrite, LedgerZeroDone, LedgerMarkFilledClocked, LedgerMarkFilled, LedgerEodAck,
     LedgerEodSet, LedgerPublish, LedgerMarkFull DEF PlainWriter

LEMMA LedgerInit == Init => Ledger
  <1> SUFFICES ASSUME Init PROVE Ledger
    OBVIOUS
  <1>1. NoXfer \in XferRec /\ NoXfer.sb = -1
    BY DEF NoXfer, XferRec
  <1>2. /\ w_buf_curr = 0 /\ w_buf_next = 0 /\ w_xfer = 0
        /\ xlog = [x \in 0..MaxXfer |-> NoXfer] /\ e_buf = [x \in Xfers |-> 0]
        /\ \A p \in Writers : ~IsWriter(p)
    BY DEF Init, IsWriter, Procs
  <1>3. \A x \in 0..MaxXfer : ~Started(x)
    BY <1>1, <1>2 DEF Started
  <1>4. XlogInv
    BY <1>1, <1>2, <1>3, BoundsAssumption DEF XlogInv
  <1>5. BlocksInv
    BY <1>2, BoundsAssumption, SizesAssumption DEF BlocksInv
  <1>6. 0 \in 0..MaxXfer /\ ~Started(0)
    BY <1>3, BoundsAssumption
  <1>7. FlagsInv
    BY <1>2, <1>3, <1>6, BoundsAssumption DEF FlagsInv
  <1> QED BY <1>2, <1>4, <1>5, <1>6, <1>7 DEF Ledger

-----------------------------------------------------------------------------
(* What a step of a reader does to its slot.                               *)

\* The reader of slot s has taken a block from FULL and not counted it as read;
\* it has given the block back.
InLabels == {"sod_inc", "bytes", "have", "cleared"}
Inside(s) == \E p \in Readers : iread[p] = s /\ pc[p] \in InLabels
Cleared(s) == \E p \in Readers : iread[p] = s /\ pc[p] = "cleared"
Reading(s) == r_states[s] = "READING"

\* Nothing that the accounts read of slot s has changed.
SlotStill(s) ==
    /\ r_bufs'[s] = r_bufs[s] /\ r_xfers'[s] = r_xfers[s] /\ (Reading(s)' <=> Reading(s))
    /\ (Inside(s)' <=> Inside(s)) /\ (Cleared(s)' <=> Cleared(s))
    /\ FULL'[s] = FULL[s] /\ CLEAR'[s] = CLEAR[s] /\ SODACK'[s] = SODACK[s]

\* The five ways in which a reader changes it.
TakesBlock(s) ==
    /\ FULL[s] > 0 /\ FULL'[s] = FULL[s] - 1 /\ ~Inside(s) /\ Inside(s)'
    /\ ~Cleared(s) /\ ~Cleared(s)' /\ (Reading(s)' <=> Reading(s))
    /\ r_bufs'[s] = r_bufs[s] /\ r_xfers'[s] = r_xfers[s]
    /\ CLEAR'[s] = CLEAR[s] /\ SODACK'[s] = SODACK[s]
FindsStart(s) ==
    /\ r_bufs'[s] = s_buf[r_xfers[s] % XFERS] /\ r_xfers'[s] = r_xfers[s]
    /\ ~Reading(s) /\ Reading(s)' /\ Inside(s) /\ Inside(s)'
    /\ ~Cleared(s) /\ ~Cleared(s)' /\ SODACK'[s] = SODACK[s] + 1
    /\ FULL'[s] = FULL[s] /\ CLEAR'[s] = CLEAR[s]
GivesBack(s) ==
    /\ CLEAR'[s] = CLEAR[s] + 1 /\ ~Cleared(s) /\ Cleared(s)' /\ Inside(s) /\ Inside(s)'
    /\ Reading(s) /\ Reading(s)' /\ r_bufs'[s] = r_bufs[s] /\ r_xfers'[s] = r_xfers[s]
    /\ FULL'[s] = FULL[s] /\ SODACK'[s] = SODACK[s]
MovesOn(s) ==
    /\ r_bufs'[s] = r_bufs[s] + 1 /\ Inside(s) /\ Cleared(s) /\ ~Inside(s)' /\ ~Cleared(s)'
    /\ Reading(s) /\ Reading(s)' /\ r_xfers'[s] = r_xfers[s]
    /\ FULL'[s] = FULL[s] /\ CLEAR'[s] = CLEAR[s] /\ SODACK'[s] = SODACK[s]
EndsXfer(s) ==
    /\ r_bufs'[s] = r_bufs[s] + 1 /\ Inside(s) /\ Cleared(s) /\ ~Inside(s)' /\ ~Cleared(s)'
    /\ Reading(s) /\ ~Reading(s)' /\ r_xfers'[s] = r_xfers[s] + 1
    /\ FULL'[s] = FULL[s] /\ CLEAR'[s] = CLEAR[s] /\ SODACK'[s] = SODACK[s]

\* The test for the last block, as the slot sees it.
SlotAtEod(s) == LET f == r_xfers[s] % XFERS IN eod[f] = 1 /\ r_bufs[s] = e_buf[f]

SlotMoves(s) ==
    \/ TakesBlock(s) \/ FindsStart(s) \/ GivesBack(s)
    \/ MovesOn(s) /\ ~SlotAtEod(s)
    \/ EndsXfer(s) /\ SlotAtEod(s)

\* Where its reader is says whether a slot is inside.
LEMMA SlotOfReader ==
    ASSUME TypeOK, SlotInv, ReaderCtl, NEW p \in Readers, iread[p] \in Slots,
           iread' = iread, \A q \in Readers : q # p => pc'[q] = pc[q]
    PROVE  /\ Inside(iread[p]) <=> pc[p] \in InLabels
           /\ Cleared(iread[p]) <=> pc[p] = "cleared"
           /\ Inside(iread[p])' <=> pc'[p] \in InLabels
           /\ Cleared(iread[p])' <=> pc'[p] = "cleared"
           /\ \A t \in Slots : t # iread[p] =>
              (Inside(t)' <=> Inside(t)) /\ (Cleared(t)' <=> Cleared(t))
  <1>1. \A q \in Readers : iread[q] = iread[p] => q = p
    BY OneReader
  <1>2. \A q \in Readers : iread'[q] = iread[q]
    OBVIOUS
  <1>3. Inside(iread[p]) <=> pc[p] \in InLabels
    BY <1>1 DEF Inside
  <1>4. Cleared(iread[p]) <=> pc[p] = "cleared"
    BY <1>1 DEF Cleared
  <1>5. Inside(iread[p])' <=> pc'[p] \in InLabels
    BY <1>1, <1>2 DEF Inside, InLabels
  <1>6. Cleared(iread[p])' <=> pc'[p] = "cleared"
    BY <1>1, <1>2 DEF Cleared
  <1>7. ASSUME NEW t \in Slots, t # iread[p]
        PROVE  (Inside(t)' <=> Inside(t)) /\ (Cleared(t)' <=> Cleared(t))
    BY <1>2, <1>7 DEF Inside, Cleared, InLabels
  <1> QED BY <1>3, <1>4, <1>5, <1>6, <1>7

\* A step of a reader changes at most its own slot, in one of these ways.
LEMMA ReaderMoves ==
    ASSUME TypeOK, Control, SlotInv, ReaderCtl, NEW w \in Readers, PlainReader(w)
    PROVE  \/ \A t \in Slots : SlotStill(t)
           \/ \E s \in Slots : SlotMoves(s) /\ \A t \in Slots \ {s} : SlotStill(t)
  <1>0. (\A q \in Readers : q \in Procs) /\ -1 \notin Slots
    BY SizesAssumption DEF Procs, Slots
  <1>1. ASSUME NEW p \in Readers, LockRead(p)
        PROVE  \/ \A t \in Slots : SlotStill(t)
               \/ \E s \in Slots : SlotMoves(s) /\ \A t \in Slots \ {s} : SlotStill(t)
    <2>1. /\ UNCHANGED <<r_bufs, r_xfers, r_states, FULL, CLEAR, SODACK, iread>>
          /\ pc[p] = "idle" /\ pc' = [pc EXCEPT ![p] = "rorder"]
      BY <1>1 DEF LockRead, Goto, rsync, datasem, handle
    <2>2. \A q \in Readers : (pc'[q] \in InLabels <=> pc[q] \in InLabels)
                            /\ (pc'[q] = "cleared" <=> pc[q] = "cleared")
      BY <1>0, <2>1 DEF TypeOK, LocalType, InLabels
    <2> QED BY <2>1, <2>2 DEF SlotStill, Inside, Cleared, Reading
  <1>2. ASSUME NEW p \in Readers, LockReadOrder(p)
        PROVE  \/ \A t \in Slots : SlotStill(t)
               \/ \E s \in Slots : SlotMoves(s) /\ \A t \in Slots \ {s} : SlotStill(t)
    <2>1. /\ UNCHANGED <<r_bufs, r_xfers, r_states, FULL, CLEAR, SODACK, iread>>
          /\ pc[p] = "rorder" /\ pc' = [pc EXCEPT ![p] = "rtry"]
      BY <1>2 DEF LockReadOrder, Goto, rsync, datasem, handle
    <2>2. \A q \in Readers : (pc'[q] \in InLabels <=> pc[q] \in InLabels)
                            /\ (pc'[q] = "cleared" <=> pc[q] = "cleared")
      BY <1>0, <2>1 DEF TypeOK, LocalType, InLabels
    <2> QED BY <2>1, <2>2 DEF SlotStill, Inside, Cleared, Reading
  <1>3. ASSUME NEW p \in Readers, LockReadFail(p)
        PROVE  \/ \A t \in Slots : SlotStill(t)
               \/ \E s \in Slots : SlotMoves(s) /\ \A t \in Slots \ {s} : SlotStill(t)
    <2>1. /\ UNCHANGED <<r_bufs, r_xfers, r_states, FULL, CLEAR, SODACK, iread>>
          /\ pc[p] = "rtry" /\ pc' = [pc EXCEPT ![p] = "failed"]
      BY <1>3 DEF LockReadFail, Goto, rsync, datasem, handle
    <2>2. \A q \in Readers : (pc'[q] \in InLabels <=> pc[q] \in InLabels)
                            /\ (pc'[q] = "cleared" <=> pc[q] = "cleared")
      BY <1>0, <2>1 DEF TypeOK, LocalType, InLabels
    <2> QED BY <2>1, <2>2 DEF SlotStill, Inside, Cleared, Reading
  <1>4. ASSUME NEW p \in Readers, LockReadTry(p)
        PROVE  \/ \A t \in Slots : SlotStill(t)
               \/ \E s \in Slots : SlotMoves(s) /\ \A t \in Slots \ {s} : SlotStill(t)
    <2>1. /\ UNCHANGED <<r_bufs, r_xfers, r_states, FULL, CLEAR, SODACK>>
          /\ pc[p] = "rtry" /\ pc' = [pc EXCEPT ![p] = "rlock"]
      BY <1>4 DEF LockReadTry, Rewind, Goto, rsync, datasem
    <2>2. \A q \in Readers : q # p => iread'[q] = iread[q] /\ pc'[q] = pc[q]
      BY <1>4, <1>0, <2>1 DEF LockReadTry, TypeOK, HandleType, LocalType
    <2>3. pc[p] \notin InLabels /\ pc[p] # "cleared" /\ pc'[p] \notin InLabels /\ pc'[p] # "cleared"
      BY <1>4, <1>0, <2>1 DEF TypeOK, LocalType, InLabels
    <2>4. \A t \in Slots : (Inside(t)' <=> Inside(t)) /\ (Cleared(t)' <=> Cleared(t))
      BY <2>2, <2>3 DEF Inside, Cleared, InLabels
    <2> QED BY <2>1, <2>4 DEF SlotStill, Reading
  <1>5. ASSUME NEW p \in Readers, LockReadSkip(p)
        PROVE  \/ \A t \in Slots : SlotStill(t)
               \/ \E s \in Slots : SlotMoves(s) /\ \A t \in Slots \ {s} : SlotStill(t)
    <2>1. UNCHANGED <<r_bufs, r_xfers, r_states, FULL, CLEAR, SODACK, iread, pc>>
      BY <1>5 DEF LockReadSkip, Advance, rsync, datasem, handle
    <2> QED BY <2>1 DEF SlotStill, Inside, Cleared, Reading
  <1>6. ASSUME NEW p \in Readers, LockReadState(p)
        PROVE  \/ \A t \in Slots : SlotStill(t)
               \/ \E s \in Slots : SlotMoves(s) /\ \A t \in Slots \ {s} : SlotStill(t)
    <2>0. iread[p] \in Slots
      BY <1>6 DEF LockReadState, SetState, Goto, Control, SlotLabels
    <2>1. UNCHANGED <<r_bufs, r_xfers, FULL, CLEAR, SODACK, iread>> /\ pc[p] = "rlock"
      BY <1>6 DEF LockReadState, SetState, Goto, datasem
    <2>2. pc' = [pc EXCEPT ![p] = "idle"] /\ r_states[iread[p]] = "DISCON"
      BY <1>6, <2>1 DEF LockReadState, SetState, Goto, ReaderCtl
    <2>3. r_states' = [r_states EXCEPT ![iread[p]] = "READER"]
      BY <1>6, <2>2 DEF LockReadState, SetState, Goto
    <2>4. \A q \in Readers : (pc'[q] \in InLabels <=> pc[q] \in InLabels)
                            /\ (pc'[q] = "cleared" <=> pc[q] = "cleared")
      BY <1>0, <2>1, <2>2 DEF TypeOK, LocalType, InLabels
    <2>5. \A t \in Slots : Reading(t)' <=> Reading(t)
      BY <2>0, <2>2, <2>3 DEF TypeOK, ReadersType, Reading
    <2> QED BY <2>1, <2>4, <2>5 DEF SlotStill, Inside, Cleared
  <1>7. ASSUME NEW p \in Readers, ReadBytes(p)
        PROVE  \/ \A t \in Slots : SlotStill(t)
               \/ \E s \in Slots : SlotMoves(s) /\ \A t \in Slots \ {s} : SlotStill(t)
    <2>1. /\ UNCHANGED <<r_bufs, r_xfers, r_states, FULL, CLEAR, SODACK, iread>>
          /\ pc[p] = "bytes" /\ pc' = [pc EXCEPT ![p] = "have"]
      BY <1>7 DEF ReadBytes, Goto, rsync, datasem, handle
    <2>2. \A q \in Readers : (pc'[q] \in InLabels <=> pc[q] \in InLabels)
                            /\ (pc'[q] = "cleared" <=> pc[q] = "cleared")
      BY <1>0, <2>1 DEF TypeOK, LocalType, InLabels
    <2> QED BY <2>1, <2>2 DEF SlotStill, Inside, Cleared, Reading
  <1>8. ASSUME NEW p \in Readers, ResetRead(p)
        PROVE  \/ \A t \in Slots : SlotStill(t)
               \/ \E s \in Slots : SlotMoves(s) /\ \A t \in Slots \ {s} : SlotStill(t)
    <2>0. iread[p] \in Slots
      BY <1>8 DEF ResetRead, IdleReader, SetState, Control, IsReader
    <2>1. UNCHANGED <<r_bufs, r_xfers, FULL, CLEAR, SODACK, iread, pc>>
      BY <1>8 DEF ResetRead, IdleReader, SetState, datasem
    <2>2. /\ r_states' = [r_states EXCEPT ![iread[p]] = "READER"]
          /\ r_states[iread[p]] = "RSTOP"
      BY <1>8 DEF ResetRead, IdleReader, SetState, ReaderCtl
    <2>3. \A t \in Slots : Reading(t)' <=> Reading(t)
      BY <2>0, <2>2 DEF TypeOK, ReadersType, Reading
    <2> QED BY <2>1, <2>3 DEF SlotStill, Inside, Cleared
  <1>9. ASSUME NEW p \in Readers, GetNextRead(p)
        PROVE  \/ \A t \in Slots : SlotStill(t)
               \/ \E s \in Slots : SlotMoves(s) /\ \A t \in Slots \ {s} : SlotStill(t)
    <2>0. iread[p] \in Slots
      BY <1>9 DEF GetNextRead, IdleReader, Goto, Control, IsReader
    <2>1. UNCHANGED <<r_bufs, r_xfers, r_states, CLEAR, SODACK, iread>> /\ pc[p] = "idle"
      BY <1>9 DEF GetNextRead, IdleReader, Goto, rsync, datasem, handle
    <2>2. pc' = [pc EXCEPT ![p] = (IF state[p] = "READER" THEN "sod_inc" ELSE "bytes")]
      BY <1>9 DEF GetNextRead, IdleReader, Goto
    <2>3. pc'[p] = (IF state[p] = "READER" THEN "sod_inc" ELSE "bytes") /\ \A q \in Readers : q # p => pc'[q] = pc[q]
      BY <1>9, <1>0, <2>2 DEF TypeOK, LocalType
    <2>4. /\ Inside(iread[p]) <=> pc[p] \in InLabels
          /\ Cleared(iread[p]) <=> pc[p] = "cleared"
          /\ Inside(iread[p])' <=> pc'[p] \in InLabels
          /\ Cleared(iread[p])' <=> pc'[p] = "cleared"
          /\ \A t \in Slots : t # iread[p] =>
              (Inside(t)' <=> Inside(t)) /\ (Cleared(t)' <=> Cleared(t))
      BY <1>9, <2>0, <2>1, <2>3, SlotOfReader
    <2>5. state[p] \in {"READER", "READING"} /\ IsReader(p) /\ r_states[iread[p]] = state[p]
      BY <1>9, <2>1 DEF GetNextRead, IdleReader, Goto, ReaderCtl, IsReader
    <2>6. /\ \A t \in Slots \ {iread[p]} : FULL'[t] = FULL[t]
          /\ FULL[iread[p]] > 0 /\ FULL'[iread[p]] = FULL[iread[p]] - 1
      BY <1>9, <2>0 DEF GetNextRead, IdleReader, Goto, TypeOK, SemType
    <2>7. TakesBlock(iread[p])
      <3>1. pc[p] \notin InLabels /\ pc[p] # "cleared" /\ pc'[p] \in InLabels /\ pc'[p] # "cleared"
        BY <2>1, <2>3 DEF InLabels
      <3> QED BY <2>1, <2>4, <2>6, <3>1 DEF TakesBlock, Reading
    <2>8. ASSUME NEW t \in Slots \ {iread[p]} PROVE SlotStill(t)
      <3>1. t \in Slots /\ t # iread[p]
        BY <2>8
      <3>2. (Inside(t)' <=> Inside(t)) /\ (Cleared(t)' <=> Cleared(t))
        BY <2>4, <3>1
      <3>3. /\ r_bufs'[t] = r_bufs[t] /\ r_xfers'[t] = r_xfers[t] /\ r_states'[t] = r_states[t]
            /\ FULL'[t] = FULL[t] /\ CLEAR'[t] = CLEAR[t] /\ SODACK'[t] = SODACK[t]
        BY <2>1, <2>6, <2>8
      <3> QED BY <3>2, <3>3 DEF SlotStill, Reading
    <2> QED BY <2>0, <2>7, <2>8 DEF SlotMoves
  <1>10. ASSUME NEW p \in Readers, SodInc(p)
        PROVE  \/ \A t \in Slots : SlotStill(t)
               \/ \E s \in Slots : SlotMoves(s) /\ \A t \in Slots \ {s} : SlotStill(t)
    <2>0. iread[p] \in Slots
      BY <1>10 DEF SodInc, SetState, Goto, Control, SlotLabels
    <2>1. UNCHANGED <<r_xfers, FULL, CLEAR, iread>> /\ pc[p] = "sod_inc"
      BY <1>10 DEF SodInc, SetState, Goto, rsync, datasem, handle
    <2>2. pc' = [pc EXCEPT ![p] = "bytes"]
      BY <1>10 DEF SodInc, SetState, Goto
    <2>3. pc'[p] = "bytes" /\ \A q \in Readers : q # p => pc'[q] = pc[q]
      BY <1>10, <1>0, <2>2 DEF TypeOK, LocalType
    <2>4. /\ Inside(iread[p]) <=> pc[p] \in InLabels
          /\ Cleared(iread[p]) <=> pc[p] = "cleared"
          /\ Inside(iread[p])' <=> pc'[p] \in InLabels
          /\ Cleared(iread[p])' <=> pc'[p] = "cleared"
          /\ \A t \in Slots : t # iread[p] =>
              (Inside(t)' <=> Inside(t)) /\ (Cleared(t)' <=> Cleared(t))
      BY <1>10, <2>0, <2>1, <2>3, SlotOfReader
    <2>5. state[p] = "READER" /\ IsReader(p) /\ r_states[iread[p]] = state[p]
      BY <1>10, <2>1 DEF SodInc, SetState, Goto, ReaderCtl, IsReader
    <2>6. /\ \A t \in Slots \ {iread[p]} : /\ SODACK'[t] = SODACK[t] /\ r_bufs'[t] = r_bufs[t]
                                          /\ r_states'[t] = r_states[t]
          /\ SODACK'[iread[p]] = SODACK[iread[p]] + 1 /\ r_states'[iread[p]] = "READING"
          /\ r_bufs'[iread[p]] = s_buf[r_xfers[iread[p]] % XFERS]
      BY <1>10, <2>0 DEF SodInc, SetState, Goto, TypeOK, SemType, ReadersType
    <2>7. FindsStart(iread[p])
      BY <2>1, <2>3, <2>4, <2>5, <2>6 DEF FindsStart, Reading, InLabels
    <2>8. ASSUME NEW t \in Slots \ {iread[p]} PROVE SlotStill(t)
      <3>1. t \in Slots /\ t # iread[p]
        BY <2>8
      <3>2. (Inside(t)' <=> Inside(t)) /\ (Cleared(t)' <=> Cleared(t))
        BY <2>4, <3>1
      <3>3. /\ r_bufs'[t] = r_bufs[t] /\ r_xfers'[t] = r_xfers[t] /\ r_states'[t] = r_states[t]
            /\ FULL'[t] = FULL[t] /\ CLEAR'[t] = CLEAR[t] /\ SODACK'[t] = SODACK[t]
        BY <2>1, <2>6, <2>8
      <3> QED BY <3>2, <3>3 DEF SlotStill, Reading
    <2> QED BY <2>0, <2>7, <2>8 DEF SlotMoves
  <1>11. ASSUME NEW p \in Readers, MarkCleared(p)
        PROVE  \/ \A t \in Slots : SlotStill(t)
               \/ \E s \in Slots : SlotMoves(s) /\ \A t \in Slots \ {s} : SlotStill(t)
    <2>0. iread[p] \in Slots
      BY <1>11 DEF MarkCleared, Goto, Control, SlotLabels
    <2>1. UNCHANGED <<r_bufs, r_xfers, r_states, FULL, SODACK, iread>> /\ pc[p] = "have"
      BY <1>11 DEF MarkCleared, Goto, rsync, datasem, handle
    <2>2. pc' = [pc EXCEPT ![p] = "cleared"]
      BY <1>11 DEF MarkCleared, Goto
    <2>3. pc'[p] = "cleared" /\ \A q \in Readers : q # p => pc'[q] = pc[q]
      BY <1>11, <1>0, <2>2 DEF TypeOK, LocalType
    <2>4. /\ Inside(iread[p]) <=> pc[p] \in InLabels
          /\ Cleared(iread[p]) <=> pc[p] = "cleared"
          /\ Inside(iread[p])' <=> pc'[p] \in InLabels
          /\ Cleared(iread[p])' <=> pc'[p] = "cleared"
          /\ \A t \in Slots : t # iread[p] =>
              (Inside(t)' <=> Inside(t)) /\ (Cleared(t)' <=> Cleared(t))
      BY <1>11, <2>0, <2>1, <2>3, SlotOfReader
    <2>5. state[p] = "READING" /\ IsReader(p) /\ r_states[iread[p]] = state[p]
      BY <1>11, <2>1 DEF MarkCleared, Goto, ReaderCtl, IsReader
    <2>6. /\ \A t \in Slots \ {iread[p]} : CLEAR'[t] = CLEAR[t]
          /\ CLEAR'[iread[p]] = CLEAR[iread[p]] + 1
      BY <1>11, <2>0 DEF MarkCleared, Goto, TypeOK, SemType
    <2>7. GivesBack(iread[p])
      BY <2>1, <2>3, <2>4, <2>5, <2>6 DEF GivesBack, Reading, InLabels
    <2>8. ASSUME NEW t \in Slots \ {iread[p]} PROVE SlotStill(t)
      <3>1. t \in Slots /\ t # iread[p]
        BY <2>8
      <3>2. (Inside(t)' <=> Inside(t)) /\ (Cleared(t)' <=> Cleared(t))
        BY <2>4, <3>1
      <3>3. /\ r_bufs'[t] = r_bufs[t] /\ r_xfers'[t] = r_xfers[t] /\ r_states'[t] = r_states[t]
            /\ FULL'[t] = FULL[t] /\ CLEAR'[t] = CLEAR[t] /\ SODACK'[t] = SODACK[t]
        BY <2>1, <2>6, <2>8
      <3> QED BY <3>2, <3>3 DEF SlotStill, Reading
    <2> QED BY <2>0, <2>7, <2>8 DEF SlotMoves
  <1>12. ASSUME NEW p \in Readers, ClearedNext(p)
        PROVE  \/ \A t \in Slots : SlotStill(t)
               \/ \E s \in Slots : SlotMoves(s) /\ \A t \in Slots \ {s} : SlotStill(t)
    <2>0. iread[p] \in Slots
      BY <1>12 DEF ClearedNext, Goto, Control, SlotLabels
    <2>1. UNCHANGED <<r_xfers, r_states, FULL, CLEAR, SODACK, iread>> /\ pc[p] = "cleared"
      BY <1>12 DEF ClearedNext, Goto, rsync, datasem, handle
    <2>2. pc' = [pc EXCEPT ![p] = "idle"]
      BY <1>12 DEF ClearedNext, Goto
    <2>3. pc'[p] = "idle" /\ \A q \in Readers : q # p => pc'[q] = pc[q]
      BY <1>12, <1>0, <2>2 DEF TypeOK, LocalType
    <2>4. /\ Inside(iread[p]) <=> pc[p] \in InLabels
          /\ Cleared(iread[p]) <=> pc[p] = "cleared"
          /\ Inside(iread[p])' <=> pc'[p] \in InLabels
          /\ Cleared(iread[p])' <=> pc'[p] = "cleared"
          /\ \A t \in Slots : t # iread[p] =>
              (Inside(t)' <=> Inside(t)) /\ (Cleared(t)' <=> Cleared(t))
      BY <1>12, <2>0, <2>1, <2>3, SlotOfReader
    <2>5. state[p] = "READING" /\ IsReader(p) /\ r_states[iread[p]] = state[p]
      BY <1>12, <2>1 DEF ClearedNext, Goto, ReaderCtl, IsReader
    <2>6. /\ \A t \in Slots \ {iread[p]} : r_bufs'[t] = r_bufs[t]
          /\ r_bufs'[iread[p]] = r_bufs[iread[p]] + 1
      BY <1>12, <2>0 DEF ClearedNext, Goto, TypeOK, ReadersType
    <2>9. AtEod(p) <=> SlotAtEod(iread[p])
      BY <1>12, <2>5 DEF AtEod, SlotAtEod, ReaderCtl
    <2>7. MovesOn(iread[p]) /\ ~SlotAtEod(iread[p])
      BY <1>12, <2>1, <2>3, <2>4, <2>5, <2>6, <2>9 DEF ClearedNext, MovesOn, Reading,
         InLabels
    <2>8. ASSUME NEW t \in Slots \ {iread[p]} PROVE SlotStill(t)
      <3>1. t \in Slots /\ t # iread[p]
        BY <2>8
      <3>2. (Inside(t)' <=> Inside(t)) /\ (Cleared(t)' <=> Cleared(t))
        BY <2>4, <3>1
      <3>3. /\ r_bufs'[t] = r_bufs[t] /\ r_xfers'[t] = r_xfers[t] /\ r_states'[t] = r_states[t]
            /\ FULL'[t] = FULL[t] /\ CLEAR'[t] = CLEAR[t] /\ SODACK'[t] = SODACK[t]
        BY <2>1, <2>6, <2>8
      <3> QED BY <3>2, <3>3 DEF SlotStill, Reading
    <2> QED BY <2>0, <2>7, <2>8 DEF SlotMoves
  <1>13. ASSUME NEW p \in Readers, ClearedEod(p)
        PROVE  \/ \A t \in Slots : SlotStill(t)
               \/ \E s \in Slots : SlotMoves(s) /\ \A t \in Slots \ {s} : SlotStill(t)
    <2>0. iread[p] \in Slots
      BY <1>13 DEF ClearedEod, SetState, Goto, Control, SlotLabels
    <2>1. UNCHANGED <<FULL, CLEAR, SODACK, iread>> /\ pc[p] = "cleared"
      BY <1>13 DEF ClearedEod, SetState, Goto, rsync, datasem, handle
    <2>2. pc' = [pc EXCEPT ![p] = "idle"]
      BY <1>13 DEF ClearedEod, SetState, Goto
    <2>3. pc'[p] = "idle" /\ \A q \in Readers : q # p => pc'[q] = pc[q]
      BY <1>13, <1>0, <2>2 DEF TypeOK, LocalType
    <2>4. /\ Inside(iread[p]) <=> pc[p] \in InLabels
          /\ Cleared(iread[p]) <=> pc[p] = "cleared"
          /\ Inside(iread[p])' <=> pc'[p] \in InLabels
          /\ Cleared(iread[p])' <=> pc'[p] = "cleared"
          /\ \A t \in Slots : t # iread[p] =>
              (Inside(t)' <=> Inside(t)) /\ (Cleared(t)' <=> Cleared(t))
      BY <1>13, <2>0, <2>1, <2>3, SlotOfReader
    <2>5. state[p] = "READING" /\ IsReader(p) /\ r_states[iread[p]] = state[p]
      BY <1>13, <2>1 DEF ClearedEod, SetState, Goto, ReaderCtl, IsReader
    <2>6. /\ \A t \in Slots \ {iread[p]} : /\ r_bufs'[t] = r_bufs[t] /\ r_xfers'[t] = r_xfers[t]
                                          /\ r_states'[t] = r_states[t]
          /\ r_bufs'[iread[p]] = r_bufs[iread[p]] + 1 /\ r_states'[iread[p]] = "RSTOP"
          /\ r_xfers'[iread[p]] = r_xfers[iread[p]] + 1
      BY <1>13, <2>0 DEF ClearedEod, SetState, Goto, TypeOK, ReadersType
    <2>9. AtEod(p) <=> SlotAtEod(iread[p])
      BY <1>13, <2>5 DEF AtEod, SlotAtEod, ReaderCtl
    <2>7. EndsXfer(iread[p]) /\ SlotAtEod(iread[p])
      BY <1>13, <2>1, <2>3, <2>4, <2>5, <2>6, <2>9 DEF ClearedEod, EndsXfer, Reading,
         InLabels
    <2>8. ASSUME NEW t \in Slots \ {iread[p]} PROVE SlotStill(t)
      <3>1. t \in Slots /\ t # iread[p]
        BY <2>8
      <3>2. (Inside(t)' <=> Inside(t)) /\ (Cleared(t)' <=> Cleared(t))
        BY <2>4, <3>1
      <3>3. /\ r_bufs'[t] = r_bufs[t] /\ r_xfers'[t] = r_xfers[t] /\ r_states'[t] = r_states[t]
            /\ FULL'[t] = FULL[t] /\ CLEAR'[t] = CLEAR[t] /\ SODACK'[t] = SODACK[t]
        BY <2>1, <2>6, <2>8
      <3> QED BY <3>2, <3>3 DEF SlotStill, Reading
    <2> QED BY <2>0, <2>7, <2>8 DEF SlotMoves
  <1> QED BY <1>1, <1>2, <1>3, <1>4, <1>5, <1>6, <1>7, <1>8, <1>9, <1>10, <1>11, <1>12,
             <1>13 DEF PlainReader

-----------------------------------------------------------------------------
(* SODACK: of the XFERS that a slot starts with, one is out for every      *)
(* transfer that has started and that the slot's reader has not found, and *)
(* one while the writer is raising start of data.                          *)

Raising(p, s) == pc[p] = "sod_ack" /\ i[p] > s
Raised(s) == \E p \in Writers : Raising(p, s)

SodCount ==
    \A s \in Slots :
        SODACK[s] + w_xfer + Bit(Started(w_xfer)) + Bit(Raised(s))
            = XFERS + r_xfers[s] + Bit(Reading(s))

LEMMA SodInts ==
    ASSUME TypeOK, NEW s \in Slots
    PROVE  /\ SODACK[s] \in Nat /\ w_xfer \in Nat /\ XFERS \in Nat /\ r_xfers[s] \in Nat
           /\ FULL[s] \in Nat /\ CLEAR[s] \in Nat /\ r_bufs[s] \in Nat
  BY SizesAssumption DEF TypeOK, SemType, SyncType, ReadersType

\* A step of a reader keeps the account of SODACK.
LEMMA SodReader ==
    ASSUME TypeOK, SodCount, WriterStill,
           \/ \A t \in Slots : SlotStill(t)
           \/ \E s \in Slots : SlotMoves(s) /\ \A t \in Slots \ {s} : SlotStill(t)
    PROVE  SodCount'
  <1>1. w_xfer' = w_xfer /\ (Started(w_xfer)' <=> Started(w_xfer))
    BY DEF WriterStill, Started, wsync, hist
  <1>2. \A t \in Slots : Raised(t)' <=> Raised(t)
    BY DEF WriterStill, Raised, Raising
  <1>3. ASSUME NEW t \in Slots, SlotStill(t)
        PROVE  SODACK'[t] + w_xfer' + Bit(Started(w_xfer)') + Bit(Raised(t)')
                 = XFERS + r_xfers'[t] + Bit(Reading(t)')
    BY <1>1, <1>2, <1>3 DEF SodCount, SlotStill, Bit
  <1>4. ASSUME NEW t \in Slots, SlotMoves(t)
        PROVE  SODACK'[t] + w_xfer' + Bit(Started(w_xfer)') + Bit(Raised(t)')
                 = XFERS + r_xfers'[t] + Bit(Reading(t)')
    <2>1. SODACK[t] + w_xfer + Bit(Started(w_xfer)) + Bit(Raised(t))
            = XFERS + r_xfers[t] + Bit(Reading(t))
      BY DEF SodCount
    <2>2. CASE TakesBlock(t) \/ GivesBack(t) \/ MovesOn(t)
      BY <1>1, <1>2, <1>4, <2>1, <2>2 DEF TakesBlock, GivesBack, MovesOn, Bit
    <2>3. CASE FindsStart(t)
      BY <1>1, <1>2, <1>4, <2>1, <2>3, SodInts DEF FindsStart, Bit
    <2>4. CASE EndsXfer(t)
      BY <1>1, <1>2, <1>4, <2>1, <2>4, SodInts DEF EndsXfer, Bit
    <2> QED BY <1>4, <2>2, <2>3, <2>4 DEF SlotMoves
  <1> QED BY <1>3, <1>4 DEF SodCount

\* The one writer decides whether start of data is being raised.
LEMMA RaisedAlone ==
    ASSUME NEW p \in Writers, Alone(p)
    PROVE  \A s \in Slots : Raised(s) <=> Raising(p, s)
  BY DEF Alone, Raised, Raising

\* A step of the writer keeps the account of SODACK.
LEMMA SodWriter ==
    ASSUME TypeOK, Control, WriterExclusion, WriterCtl, Ledger, Ledger', SodCount,
           NEW w \in Writers, PlainWriter(w)
    PROVE  SodCount'
  <1>1. /\ \A s \in Slots : r_xfers'[s] = r_xfers[s] /\ (Reading(s)' <=> Reading(s))
    BY WriterLeavesReaders DEF ReaderStill, Reading, rsync
  <1>2. CASE LockWrite(w)
    <2>1. UNCHANGED <<SODACK, w_xfer, xlog, i>> /\ pc[w] = "idle" /\ w \in Procs
          /\ pc' = [pc EXCEPT ![w] = "wlock"]
      BY <1>2 DEF LockWrite, Goto, Procs, wsync, datasem, hist
    <2>2. \A q \in Writers, s \in Slots : Raising(q, s)' <=> Raising(q, s)
      BY <2>1 DEF Raising, TypeOK, LocalType, Procs
    <2>3. \A s \in Slots : Raised(s)' <=> Raised(s)
      BY <2>2 DEF Raised
    <2> QED BY <1>1, <2>1, <2>3 DEF SodCount, Started, Bit
  <1>3. CASE ~LockWrite(w)
    <2>0. w \in Procs /\ (IsWriter(w) \/ pc[w] = "wlock")
      BY <1>3 DEF Procs, PlainWriter, Control, IsWriter, LockWrite, Goto,
         LockWriteState, SetBoth, SetState, RelockWrite, IdleWriter, EnableEod,
         DisableSod, SetSoclockBuf, EnableSod, SodAllowed, CallEnableSod, Rewind,
         SodAck, Advance, SodSet, SodFull, SodDone, GetNextWrite, GetClear, TakeClear,
         GetDone, ZeroNextWrite, ZeroDone, MarkFilledClocked, MarkFilled, EodAck, EodSet, Publish,
         MarkFull
    <2>1. Alone(w) /\ Alone(w)'
      BY <2>0, WriterAlone, AloneNext
    <2>2. \A s \in Slots : (Raised(s) <=> Raising(w, s)) /\ (Raised(s)' <=> Raising(w, s)')
      <3>1. \A s \in Slots : Raised(s) <=> Raising(w, s)
        BY <2>1, RaisedAlone
      <3>2. \A s \in Slots : Raised(s)' <=> Raising(w, s)'
        BY <2>1 DEF Alone, Raised, Raising
      <3> QED BY <3>1, <3>2
    <2>3. CASE SodAck(w)
      <3>1. /\ UNCHANGED <<w_xfer, xlog>> /\ pc[w] = "sod_ack" /\ pc'[w] = "sod_ack"
            /\ i[w] \in Slots /\ i'[w] = i[w] + 1 /\ i[w] \in Int
            /\ SODACK'[i[w]] = SODACK[i[w]] - 1
            /\ \A s \in Slots : s # i[w] => SODACK'[s] = SODACK[s]
        <4>1. UNCHANGED <<w_xfer, xlog>> /\ pc[w] = "sod_ack" /\ pc'[w] = "sod_ack"
          BY <2>3 DEF SodAck, wsync, hist
        <4>2. i[w] \in Slots /\ i[w] \in Int
          BY <2>0, <2>3, SizesAssumption DEF SodAck, TypeOK, LocalType, Slots
        <4>3. i'[w] = i[w] + 1
          BY <2>0, <2>3 DEF SodAck, Advance, TypeOK, LocalType
        <4>4. /\ SODACK'[i[w]] = SODACK[i[w]] - 1
              /\ \A s \in Slots : s # i[w] => SODACK'[s] = SODACK[s]
          BY <2>3, <4>2 DEF SodAck, TypeOK, SemType
        <4> QED BY <4>1, <4>2, <4>3, <4>4
      <3> SUFFICES ASSUME NEW s \in Slots
                   PROVE  SODACK'[s] + w_xfer' + Bit(Started(w_xfer)') + Bit(Raised(s)')
                            = XFERS + r_xfers'[s] + Bit(Reading(s)')
        BY DEF SodCount
      <3>2. SODACK[s] + w_xfer + Bit(Started(w_xfer)) + Bit(Raised(s))
              = XFERS + r_xfers[s] + Bit(Reading(s))
        BY DEF SodCount
      <3>3. s \in Int /\ (Started(w_xfer)' <=> Started(w_xfer))
        BY <3>1 DEF Slots, Started
      <3>4. CASE s = i[w]
        BY <1>1, <2>2, <3>1, <3>2, <3>3, <3>4, SodInts DEF Raising, Bit
      <3>5. CASE s # i[w]
        BY <1>1, <2>2, <3>1, <3>2, <3>3, <3>5, SodInts DEF Raising, Bit
      <3> QED BY <3>4, <3>5
    <2>4. CASE SodSet(w)
      <3>1. /\ UNCHANGED <<w_xfer, SODACK>> /\ pc[w] = "sod_ack" /\ pc'[w] = "sod_full"
            /\ i[w] = NREADERS
        BY <2>0, <2>4 DEF SodSet, Goto, TypeOK, LocalType, datasem
      <3>2. ~Started(w_xfer) /\ Started(w_xfer)'
        <4>1. state[w] \in {"WRITER", "WCHANGE"} /\ IsWriter(w)
          BY <3>1 DEF WriterCtl, IsWriter
        <4>2. XferAt(w)
          BY <4>1 DEF Ledger
        <4>3. ~Started(w_xfer)
          BY <3>1, <4>1, <4>2 DEF XferAt, Opened
        <4>4. state'[w] = "WRITING"
          BY <2>0, <2>4 DEF SodSet, SetBoth, SetState, TypeOK, HandleType
        <4>5. XferAt(w)' /\ Opened(w)'
          BY <4>4 DEF Ledger, IsWriter, Opened
        <4> QED BY <4>3, <4>5 DEF XferAt
      <3>3. \A s \in Slots : Raised(s) /\ ~Raised(s)'
        BY <2>2, <3>1, SizesAssumption DEF Raising, Slots
      <3> QED BY <1>1, <3>1, <3>2, <3>3, SodInts DEF SodCount, Bit
    <2>5. CASE EodSet(w)
      <3>1. /\ SODACK' = SODACK /\ w_xfer' = w_xfer + 1 /\ pc[w] = "eod_ack"
            /\ pc'[w] # "sod_ack"
        BY <2>0, <2>5 DEF EodSet, Goto, TypeOK, LocalType, datasem
      <3>2. Started(w_xfer)
        BY <2>0, <3>1 DEF Ledger, XferAt, Opened
      <3>3. ~Started(w_xfer)'
        <4>1. state'[w] = "WRITER" /\ pc'[w] \in {"get", "publish"}
          BY <2>0, <2>5 DEF EodSet, Goto, SetBoth, SetState, TypeOK, HandleType, LocalType
        <4>2. XferAt(w)' /\ ~Opened(w)'
          BY <4>1 DEF Ledger, IsWriter, Opened
        <4> QED BY <4>2 DEF XferAt
      <3>4. \A s \in Slots : ~Raised(s) /\ ~Raised(s)'
        BY <2>2, <3>1 DEF Raising
      <3> QED BY <1>1, <3>1, <3>2, <3>3, <3>4, SodInts DEF SodCount, Bit
    <2>6. CASE ~SodAck(w) /\ ~SodSet(w) /\ ~EodSet(w)
      <3>1. UNCHANGED <<SODACK, w_xfer, xlog>>
        BY <1>3, <2>6 DEF PlainWriter, LockWrite, Goto, LockWriteState, SetBoth,
           SetState, RelockWrite, IdleWriter, EnableEod, DisableSod, SetSoclockBuf,
           EnableSod, SodAllowed, CallEnableSod, Rewind, SodAck, Advance, SodSet,
           SodFull, SodDone, GetNextWrite, GetClear, TakeClear, GetDone, ZeroNextWrite, ZeroDone,
           MarkFilledClocked, MarkFilled, EodAck, EodSet, Publish, MarkFull, wsync,
           datasem, hist
      <3>2. pc[w] = "sod_ack" => FALSE
        BY <1>3, <2>6 DEF PlainWriter, LockWrite, Goto, LockWriteState, SetBoth,
           SetState, RelockWrite, IdleWriter, EnableEod, DisableSod, SetSoclockBuf,
           EnableSod, SodAllowed, CallEnableSod, Rewind, SodAck, Advance, SodSet,
           SodFull, SodDone, GetNextWrite, GetClear, TakeClear, GetDone, ZeroNextWrite, ZeroDone,
           MarkFilledClocked, MarkFilled, EodAck, EodSet, Publish, MarkFull
      <3>3. pc'[w] = "sod_ack" => i'[w] = 0
        BY <1>3, <2>0, <2>6 DEF PlainWriter, WriterCtl, TypeOK, LocalType, LockWrite,
           Goto, LockWriteState, SetBoth, SetState, RelockWrite, IdleWriter, EnableEod,
           DisableSod, SetSoclockBuf, EnableSod, SodAllowed, CallEnableSod, Rewind,
           SodAck, Advance, SodSet, SodFull, SodDone, GetNextWrite, GetClear, TakeClear,
           GetDone, ZeroNextWrite, ZeroDone, MarkFilledClocked, MarkFilled, EodAck, EodSet,
           Publish, MarkFull, args
      <3>4. \A s \in Slots : ~Raised(s) /\ ~Raised(s)'
        BY <2>2, <3>2, <3>3 DEF Raising, Slots
      <3> QED BY <1>1, <3>1, <3>4 DEF SodCount, Started, Bit
    <2> QED BY <2>3, <2>4, <2>5, <2>6
  <1> QED BY <1>2, <1>3

\* Which of the flags a reader may rely on: the start of the transfer that it is
\* about to read, and the end of the one that it is reading.
LEMMA SodWindow ==
    ASSUME TypeOK, Ledger, SodCount, NEW s \in Slots, ~Reading(s), r_xfers[s] <= w_xfer,
           Started(r_xfers[s])
    PROVE  /\ r_xfers[s] \in 0..MaxXfer
           /\ s_buf[r_xfers[s] % XFERS] = xlog[r_xfers[s]].sb
           /\ s_byte[r_xfers[s] % XFERS] = xlog[r_xfers[s]].sy
  <1>1. SODACK[s] + w_xfer + Bit(Started(w_xfer)) + Bit(Raised(s))
          = XFERS + r_xfers[s] + Bit(Reading(s))
    BY DEF SodCount
  <1>2. r_xfers[s] \in 0..MaxXfer
    BY LedgerInts, SodInts
  <1>3. r_xfers[s] >= w_xfer - XFERS /\ (Started(w_xfer) => r_xfers[s] > w_xfer - XFERS)
    BY <1>1, SodInts DEF Bit
  <1> QED BY <1>2, <1>3 DEF Ledger, FlagsInv

LEMMA EodWindow ==
    ASSUME TypeOK, Ledger, EodCount, NEW s \in Slots, r_xfers[s] <= w_xfer
    PROVE  r_xfers[s] >= w_xfer - XFERS
  <1>1. EODACK[s] \in Nat
    BY DEF TypeOK, SemType
  <1>2. EODACK[s] + w_xfer + (IF \E p \in Writers : Ending(p, s) THEN 1 ELSE 0)
            = XFERS + r_xfers[s]
    BY DEF EodCount
  <1> QED BY <1>1, <1>2, SodInts

-----------------------------------------------------------------------------
(* The blocks that count: the written ones that belong to a transfer.      *)

InXfer(x, k) == /\ Started(x) /\ xlog[x].sb <= k
                /\ xlog[x].eb # -1 => k <= xlog[x].eb
Announced == {k \in 0..(w_buf_curr - 1) : \E x \in 0..MaxXfer : InXfer(x, k)}

LEMMA AnnouncedFinite ==
    ASSUME TypeOK
    PROVE  /\ IsFiniteSet(Announced) /\ Cardinality(Announced) \in Nat
           /\ \A k \in Announced : k \in Int
           /\ \A k \in Announced : k >= 0 /\ k < w_buf_curr
  <1>1. w_buf_curr \in Nat /\ w_buf_curr - 1 \in Int /\ 0 \in Int
    BY DEF TypeOK, SyncType
  <1>2. IsFiniteSet(0..(w_buf_curr - 1))
    BY <1>1, FS_Interval
  <1>3. Announced \in SUBSET (0..(w_buf_curr - 1))
    BY DEF Announced
  <1>4. IsFiniteSet(Announced) /\ Cardinality(Announced) \in Nat
    BY <1>2, <1>3, FS_Subset, FS_CardinalityType
  <1> QED BY <1>1, <1>3, <1>4

\* Transfers keep their order.
LEMMA XferOrder ==
    ASSUME TypeOK, Ledger, NEW x \in 0..MaxXfer, NEW y \in 0..MaxXfer,
           x < y, Started(y)
    PROVE  /\ Started(x) /\ y <= w_xfer /\ xlog[x].eb # -1
           /\ xlog[x].sb <= xlog[x].eb /\ xlog[x].eb < xlog[y].sb
  <1>1. y <= w_xfer
    BY LedgerInts DEF Ledger, XlogInv
  <1>2. EndedXfer(x)
    BY <1>1, LedgerInts DEF Ledger, XlogInv
  <1>3. xlog[x].eb < xlog[y].sb
    BY <1>1 DEF Ledger, XlogInv
  <1> QED BY <1>1, <1>2, <1>3, LedgerInts DEF EndedXfer, Started

\* What a step of the writer does to the transfers.
Grows ==
    /\ w_xfer <= w_xfer' /\ w_buf_curr <= w_buf_curr'
    /\ \A x \in 0..MaxXfer :
         /\ Started(x) => xlog'[x].sb = xlog[x].sb /\ xlog'[x].sy = xlog[x].sy
         /\ x < w_xfer => xlog'[x].eb = xlog[x].eb /\ xlog'[x].ey = xlog[x].ey
    /\ Started(w_xfer) => xlog'[w_xfer].eb \in {-1, w_buf_curr}

\* A step of the writer publishes at most one block.
LEMMA WrittenNext ==
    ASSUME NEW w \in Writers, PlainWriter(w)
    PROVE  w_buf_curr' \in {w_buf_curr, w_buf_curr + 1}
  BY DEF PlainWriter, LockWrite, Goto, LockWriteState, SetBoth, SetState,
     RelockWrite, IdleWriter, EnableEod, DisableSod, SetSoclockBuf, EnableSod,
     SodAllowed, CallEnableSod, Rewind, SodAck, Advance, SodSet, SodFull, SodDone,
     GetNextWrite, GetClear, TakeClear, GetDone, ZeroNextWrite, ZeroDone, MarkFilledClocked,
     MarkFilled, EodAck, EodSet, Publish, MarkFull, wsync

\* The writer's other steps leave its place in the code alone, or move it to one
\* where nobody is being told of blocks.
LEMMA PlainLabels ==
    ASSUME NEW w \in Writers, PlainWriter(w), w \in Procs, pc \in [Procs -> Labels],
           ret[w] \in {"idle", "get", "publish"},
           ~SodAck(w), ~SodSet(w), ~SodFull(w), ~SodDone(w), ~Publish(w), ~MarkFull(w)
    PROVE  pc'[w] = pc[w] \/ pc'[w] \notin {"full", "sod_full"}
  BY DEF PlainWriter, LockWrite, Goto, LockWriteState, SetBoth, SetState,
     RelockWrite, IdleWriter, EnableEod, DisableSod, SetSoclockBuf, EnableSod,
     SodAllowed, CallEnableSod, Rewind, SodAck, Advance, SodSet, SodFull, SodDone,
     GetNextWrite, GetClear, TakeClear, GetDone, ZeroNextWrite, ZeroDone, MarkFilledClocked,
     MarkFilled, EodAck, EodSet, Publish, MarkFull

LEMMA LedgerGrows ==
    ASSUME TypeOK, Control, WriterExclusion, WriterCtl, Ledger, NEW w \in Writers, PlainWriter(w)
    PROVE  Grows
  <1>0. w_xfer \in 0..MaxXfer /\ w_buf_curr \in Nat
    BY LedgerInts
  <1>1. Started(w_xfer) => xlog[w_xfer].eb = -1
    BY <1>0 DEF Ledger, XlogInv, CurrentXfer
  <1>2. CASE SodSet(w)
    <2>1. UNCHANGED <<w_xfer, w_buf_curr>> /\ pc[w] = "sod_ack"
      BY <1>2 DEF SodSet
    <2>2. state[w] \in {"WRITER", "WCHANGE"}
      BY <2>1 DEF WriterCtl
    <2>3. ~Started(w_xfer)
      BY <2>1, <2>2 DEF Ledger, IsWriter, XferAt, Opened
    <2>4. \A x \in 0..MaxXfer : x # w_xfer => xlog'[x] = xlog[x]
      BY <1>2, SodSetEffect
    <2> QED BY <1>0, <2>1, <2>3, <2>4 DEF Grows
  <1>3. CASE EodSet(w)
    <2>1. w_xfer' = w_xfer + 1 /\ w_buf_curr' = w_buf_curr
      BY <1>3 DEF EodSet
    <2>2. /\ \A x \in 0..MaxXfer : x # w_xfer => xlog'[x] = xlog[x]
          /\ xlog'[w_xfer].sb = xlog[w_xfer].sb /\ xlog'[w_xfer].sy = xlog[w_xfer].sy
          /\ xlog'[w_xfer].eb = w_buf_curr
      BY <1>3, EodSetEffect
    <2> QED BY <1>0, <2>1, <2>2 DEF Grows
  <1>4. CASE ~SodSet(w) /\ ~EodSet(w)
    <2>1. w_xfer' = w_xfer /\ xlog' = xlog /\ w_buf_curr' \in {w_buf_curr, w_buf_curr + 1}
      BY <1>4 DEF PlainWriter, LockWrite, Goto, LockWriteState, SetBoth, SetState,
         RelockWrite, IdleWriter, EnableEod, DisableSod, SetSoclockBuf, EnableSod,
         SodAllowed, CallEnableSod, Rewind, SodAck, Advance, SodSet, SodFull, SodDone,
         GetNextWrite, GetClear, TakeClear, GetDone, ZeroNextWrite, ZeroDone, MarkFilledClocked,
         MarkFilled, EodAck, EodSet, Publish, MarkFull, wsync, hist
    <2> QED BY <1>0, <1>1, <2>1 DEF Grows
  <1> QED BY <1>2, <1>3, <1>4

\* What a step of the writer does to the blocks that count: start of data adds
\* the blocks clocked in since, publishing adds a block, nothing else does.
LEMMA AnnouncedNext ==
    ASSUME TypeOK, Control, WriterExclusion, WriterCtl, Ledger, Ledger', NEW w \in Writers, PlainWriter(w)
    PROVE  /\ SodSet(w) => /\ Announced' = Announced \cup (start_buf[w]..(w_buf_curr - 1))
                           /\ \A k \in Announced : k < start_buf[w]
           /\ Publish(w) => Announced' = Announced \cup {w_buf_curr}
           /\ ~SodSet(w) /\ ~Publish(w) => Announced' = Announced
  <1>0. w_xfer \in 0..MaxXfer /\ w_buf_curr \in Nat /\ MaxXfer \in Nat /\ w \in Procs
    BY LedgerInts DEF Procs
  <1>i. \A x \in 0..MaxXfer : xlog[x].sb \in Int /\ xlog[x].eb \in Int
    BY LedgerInts
  <1>1. CASE SodSet(w)
    <2>1. w_buf_curr' = w_buf_curr /\ pc[w] = "sod_ack"
      BY <1>1 DEF SodSet
    <2>2. state[w] \in {"WRITER", "WCHANGE"} /\ IsWriter(w)
      BY <2>1 DEF WriterCtl, IsWriter
    <2>3. ~Started(w_xfer)
      BY <2>1, <2>2 DEF Ledger, XferAt, Opened
    <2>4. /\ \A x \in 0..MaxXfer : x # w_xfer => xlog'[x] = xlog[x]
          /\ xlog'[w_xfer].sb = start_buf[w] /\ xlog'[w_xfer].eb = -1
      BY <1>1, SodSetEffect
    <2>5. /\ \A x \in 0..MaxXfer : x < w_xfer => xlog[x].eb < start_buf[w]
          /\ start_buf[w] \in Nat /\ start_buf[w] <= w_buf_curr
      BY <1>0, <2>1, <2>2 DEF Ledger, SodAt, TypeOK, LocalType
    <2>6. ASSUME NEW k \in Announced PROVE k < start_buf[w]
      <3>1. PICK x \in 0..MaxXfer : InXfer(x, k)
        BY DEF Announced
      <3>2. x < w_xfer
        BY <1>0, <2>3, <3>1 DEF InXfer, Ledger, XlogInv
      <3>3. xlog[x].eb # -1
        BY <1>i, <3>2 DEF Ledger, XlogInv, EndedXfer
      <3> QED BY <1>i, <2>5, <3>1, <3>2, <3>3, AnnouncedFinite DEF InXfer
    <2>7. ASSUME NEW k \in 0..(w_buf_curr - 1)
          PROVE  (\E x \in 0..MaxXfer : InXfer(x, k)') <=>
                   ((\E x \in 0..MaxXfer : InXfer(x, k)) \/ start_buf[w] <= k)
      <3>1. \A x \in 0..MaxXfer : x # w_xfer => (InXfer(x, k)' <=> InXfer(x, k))
        BY <2>4 DEF InXfer, Started
      <3>2. InXfer(w_xfer, k) <=> FALSE
        BY <2>3 DEF InXfer
      <3>3. (Started(w_xfer) /\ xlog[w_xfer].sb <= k)' <=> start_buf[w] <= k
        BY <1>1, <2>4, <2>5 DEF SodSet, Started
      <3>4. w_xfer' = w_xfer
        BY <1>1 DEF SodSet
      <3>5. \A x \in 0..MaxXfer : x = w_xfer => (InXfer(x, k)' <=> start_buf[w] <= k)
        BY <2>4, <2>5, <3>4 DEF InXfer, Started
      <3> QED BY <1>0, <3>1, <3>2, <3>5
    <2>8. Announced' = Announced \cup (start_buf[w]..(w_buf_curr - 1))
      <3>1. Announced' = {k \in 0..(w_buf_curr - 1) : \E x \in 0..MaxXfer : InXfer(x, k)'}
        BY <2>1 DEF Announced
      <3>2. \A k : k \in start_buf[w]..(w_buf_curr - 1) <=>
                     k \in 0..(w_buf_curr - 1) /\ start_buf[w] <= k
        BY <1>0, <2>5
      <3> QED BY Zenon, <2>7, <3>1, <3>2 DEF Announced
    <2>9. ~Publish(w)
      BY <2>1 DEF Publish
    <2> QED BY <1>1, <2>6, <2>8, <2>9
  <1>2. CASE Publish(w)
    <2>1. w_buf_curr' = w_buf_curr + 1 /\ pc[w] = "publish" /\ UNCHANGED <<xlog, w_xfer>>
      BY <1>2 DEF Publish, hist
    <2>2. state[w] \in {"WRITING", "WRITER"} /\ IsWriter(w)
      BY <2>1 DEF WriterCtl, IsWriter
    <2>3. \E x \in 0..MaxXfer : InXfer(x, w_buf_curr)
      <3>1. CASE state[w] = "WRITING"
        <4>1. Started(w_xfer)
          BY <2>2, <3>1 DEF Ledger, XferAt, Opened
        <4>2. InXfer(w_xfer, w_buf_curr)
          BY <1>0, <4>1 DEF Ledger, XlogInv, CurrentXfer, InXfer
        <4> QED BY <1>0, <4>2
      <3>2. CASE state[w] = "WRITER"
        <4>1. w_xfer > 0 /\ xlog[w_xfer - 1].eb = w_buf_curr
          BY <2>1, <2>2, <3>2 DEF Ledger, XferAt, Closing
        <4>2. w_xfer - 1 \in 0..MaxXfer /\ w_xfer - 1 < w_xfer
          BY <1>0, <4>1
        <4>3. EndedXfer(w_xfer - 1)
          BY <4>2 DEF Ledger, XlogInv
        <4>4. InXfer(w_xfer - 1, w_buf_curr)
          BY <1>0, <1>i, <4>1, <4>2, <4>3 DEF EndedXfer, InXfer, Started
        <4> QED BY <4>2, <4>4
      <3> QED BY <2>2, <3>1, <3>2
    <2>4. Announced' = {k \in 0..w_buf_curr : \E x \in 0..MaxXfer : InXfer(x, k)}
      <3>1. w_buf_curr' - 1 = w_buf_curr
        BY <1>0, <2>1
      <3> QED BY <2>1, <3>1 DEF Announced, InXfer, Started
    <2>5. \A k : k \in 0..w_buf_curr <=> k \in 0..(w_buf_curr - 1) \/ k = w_buf_curr
      BY <1>0
    <2>6. Announced' = Announced \cup {w_buf_curr}
      BY Zenon, <2>3, <2>4, <2>5 DEF Announced
    <2>7. ~SodSet(w)
      BY <2>1 DEF SodSet
    <2> QED BY <1>2, <2>6, <2>7
  <1>3. CASE MarkFilledClocked(w)
    <2>1. /\ w_buf_curr' = w_buf_curr + 1 /\ pc[w] = "idle" /\ state[w] = "WRITER"
          /\ UNCHANGED <<xlog, w_xfer>> /\ IsWriter(w)
      BY <1>3 DEF MarkFilledClocked, IdleWriter, hist
    <2>2. ~Started(w_xfer) /\ (w_xfer > 0 => xlog[w_xfer - 1].eb # w_buf_curr)
      BY <2>1 DEF Ledger, XferAt, Opened, Closing
    <2>3. ASSUME NEW x \in 0..MaxXfer, InXfer(x, w_buf_curr) PROVE FALSE
      <3>1. x < w_xfer
        BY <1>0, <2>2, <2>3 DEF InXfer, Ledger, XlogInv
      <3>2. EndedXfer(x)
        BY <3>1 DEF Ledger, XlogInv
      <3>3. xlog[x].eb = w_buf_curr
        BY <1>0, <1>i, <2>3, <3>2 DEF EndedXfer, InXfer
      <3>4. w_xfer - 1 \in 0..MaxXfer /\ w_xfer - 1 < w_xfer /\ x < w_xfer - 1
        BY <1>0, <2>2, <3>1, <3>3
      <3>5. xlog[x].eb < xlog[w_xfer - 1].eb /\ EndedXfer(w_xfer - 1)
        BY <3>4, EndedBefore DEF Ledger, XlogInv
      <3> QED BY <1>0, <1>i, <3>3, <3>4, <3>5 DEF EndedXfer
    <2>4. Announced' = {k \in 0..w_buf_curr : \E x \in 0..MaxXfer : InXfer(x, k)}
      <3>1. w_buf_curr' - 1 = w_buf_curr
        BY <1>0, <2>1
      <3> QED BY <2>1, <3>1 DEF Announced, InXfer, Started
    <2>5. \A k : k \in 0..w_buf_curr <=> k \in 0..(w_buf_curr - 1) \/ k = w_buf_curr
      BY <1>0
    <2>6. Announced' = Announced
      BY Zenon, <2>3, <2>4, <2>5 DEF Announced
    <2>7. ~SodSet(w) /\ ~Publish(w)
      BY <2>1 DEF SodSet, Publish
    <2> QED BY <2>6, <2>7
  <1>4. CASE EodSet(w)
    <2>1. w_buf_curr' = w_buf_curr /\ pc[w] = "eod_ack" /\ IsWriter(w)
      BY <1>4 DEF EodSet, Control
    <2>2. /\ \A x \in 0..MaxXfer : x # w_xfer => xlog'[x] = xlog[x]
          /\ xlog'[w_xfer].sb = xlog[w_xfer].sb /\ xlog'[w_xfer].eb = w_buf_curr
      BY <1>4, EodSetEffect
    <2>3. xlog[w_xfer].eb = -1
      BY <1>0, <2>1 DEF Ledger, XferAt, Opened, XlogInv, CurrentXfer
    <2>4. ASSUME NEW k \in 0..(w_buf_curr - 1), NEW x \in 0..MaxXfer
          PROVE  InXfer(x, k)' <=> InXfer(x, k)
      <3>1. CASE x = w_xfer
        <4>1. k <= w_buf_curr
          BY <1>0
        <4> QED BY <2>2, <2>3, <3>1, <4>1 DEF InXfer, Started
      <3>2. CASE x # w_xfer
        BY <2>2, <3>2 DEF InXfer, Started
      <3> QED BY <3>1, <3>2
    <2>5. Announced' = {k \in 0..(w_buf_curr - 1) : \E x \in 0..MaxXfer : InXfer(x, k)'}
      BY <2>1 DEF Announced
    <2>6. Announced' = Announced
      BY Zenon, <2>4, <2>5 DEF Announced
    <2>7. ~SodSet(w) /\ ~Publish(w)
      BY <2>1, <1>4 DEF SodSet, Publish
    <2> QED BY <2>6, <2>7
  <1>5. CASE ~SodSet(w) /\ ~Publish(w) /\ ~MarkFilledClocked(w) /\ ~EodSet(w)
    <2>1. UNCHANGED <<w_buf_curr, xlog>>
      BY <1>5 DEF PlainWriter, LockWrite, Goto, LockWriteState, SetBoth, SetState,
         RelockWrite, IdleWriter, EnableEod, DisableSod, SetSoclockBuf, EnableSod,
         SodAllowed, CallEnableSod, Rewind, SodAck, Advance, SodSet, SodFull, SodDone,
         GetNextWrite, GetClear, TakeClear, GetDone, ZeroNextWrite, ZeroDone, MarkFilledClocked,
         MarkFilled, EodAck, EodSet, Publish, MarkFull, wsync, hist
    <2>2. Announced' = Announced
      BY <2>1 DEF Announced, InXfer, Started
    <2> QED BY <1>5, <2>2
  <1> QED BY <1>1, <1>2, <1>3, <1>4, <1>5

-----------------------------------------------------------------------------
(* Where the reader of a slot is: inside its transfer, or at the block     *)
(* after the transfer before.                                              *)

Position(s) ==
    /\ r_xfers[s] <= w_xfer /\ r_bufs[s] <= w_buf_curr
    /\ Reading(s) =>
         /\ Started(r_xfers[s]) /\ xlog[r_xfers[s]].sb <= r_bufs[s]
         /\ xlog[r_xfers[s]].eb # -1 => r_bufs[s] <= xlog[r_xfers[s]].eb
         /\ Inside(s) => r_bufs[s] < w_buf_curr
    /\ ~Reading(s) =>
         /\ r_xfers[s] = 0 => r_bufs[s] = 0
         /\ r_xfers[s] > 0 => r_bufs[s] = xlog[r_xfers[s] - 1].eb + 1
         /\ Inside(s) => Started(r_xfers[s]) /\ xlog[r_xfers[s]].sb < w_buf_curr
Positions == \A s \in Slots : Position(s)

\* A reader between transfers has before it no block but those of the transfers
\* from its own on.
LEMMA NextXfer ==
    ASSUME TypeOK, Ledger, NEW s \in Slots, Position(s), ~Reading(s),
           NEW k \in Announced, k >= r_bufs[s]
    PROVE  Started(r_xfers[s]) /\ xlog[r_xfers[s]].sb <= k
  <1> DEFINE x == r_xfers[s]
  <1>0. x \in 0..MaxXfer /\ r_bufs[s] \in Nat /\ w_xfer \in 0..MaxXfer /\ MaxXfer \in Nat
    BY LedgerInts, SodInts DEF Position
  <1>1. PICK y \in 0..MaxXfer : InXfer(y, k)
    BY DEF Announced
  <1>2. k \in Int /\ k >= 0
    BY AnnouncedFinite
  <1>3. /\ x <= w_xfer /\ (x > 0 => r_bufs[s] = xlog[x - 1].eb + 1)
    BY DEF Position
  <1>i. \A z \in 0..MaxXfer : xlog[z].sb \in Int /\ xlog[z].eb \in Int
    BY LedgerInts
  <1> HIDE DEF x
  <1>4. ASSUME y < x PROVE FALSE
    <2>1. x - 1 \in 0..MaxXfer /\ x - 1 < w_xfer /\ x > 0
      BY <1>0, <1>3, <1>4
    <2>2. EndedXfer(x - 1)
      BY <2>1 DEF Ledger, XlogInv
    <2>3. Started(x - 1) /\ xlog[x - 1].eb # -1
      BY <1>i, <2>1, <2>2 DEF EndedXfer, Started
    <2>4. CASE y = x - 1
      BY <1>1, <1>2, <1>3, <1>i, <2>1, <2>3, <2>4 DEF InXfer
    <2>5. CASE y < x - 1
      <3>1. xlog[y].eb # -1 /\ xlog[y].eb < xlog[x - 1].sb
        BY <2>1, <2>3, <2>5, XferOrder
      <3> QED BY <1>1, <1>2, <1>3, <1>i, <2>1, <2>2, <3>1 DEF InXfer, EndedXfer
    <2> QED BY <1>0, <1>4, <2>4, <2>5
  <1>5. CASE y = x
    BY <1>1, <1>5 DEF InXfer, x
  <1>6. CASE y > x
    <2>1. Started(x) /\ xlog[x].sb <= xlog[x].eb /\ xlog[x].eb < xlog[y].sb
      BY <1>0, <1>1, <1>6, XferOrder DEF InXfer
    <2>2. xlog[y].sb <= k
      BY <1>1 DEF InXfer
    <2> QED BY <1>0, <1>2, <1>i, <2>1, <2>2 DEF x
  <1> QED BY <1>0, <1>4, <1>5, <1>6

\* A step of the writer leaves the readers where they are.
LEMMA PositionWriter ==
    ASSUME TypeOK, Ledger, Positions, Grows, ReaderStill, w_buf_curr' \in Nat, w_xfer' \in Nat
    PROVE  Positions'
  <1> SUFFICES ASSUME NEW s \in Slots PROVE Position(s)'
    BY DEF Positions
  <1> DEFINE x == r_xfers[s]
             r == r_bufs[s]
  <1>1. /\ r_xfers'[s] = x /\ r_bufs'[s] = r
        /\ (Reading(s)' <=> Reading(s)) /\ (Inside(s)' <=> Inside(s))
    BY DEF ReaderStill, Reading, Inside, InLabels, rsync
  <1>2. Position(s)
    BY DEF Positions
  <1>3. x \in 0..MaxXfer /\ r \in Nat /\ w_xfer \in 0..MaxXfer /\ w_buf_curr \in Nat /\ MaxXfer \in Nat
    BY <1>2, LedgerInts, SodInts DEF Position
  <1>i. \A z \in 0..MaxXfer : xlog[z].sb \in Int /\ xlog[z].eb \in Int
    BY LedgerInts
  <1>4. x <= w_xfer' /\ r <= w_buf_curr'
    BY <1>2, <1>3 DEF Position, Grows
  <1>5. ASSUME Reading(s)
        PROVE  /\ xlog'[x].sb # -1 /\ xlog'[x].sb <= r
               /\ xlog'[x].eb # -1 => r <= xlog'[x].eb
               /\ Inside(s) => r < w_buf_curr'
    <2>1. /\ Started(x) /\ xlog[x].sb <= r /\ x <= w_xfer /\ r <= w_buf_curr
          /\ xlog[x].eb # -1 => r <= xlog[x].eb
          /\ Inside(s) => r < w_buf_curr
      BY <1>2, <1>5 DEF Position
    <2>2. xlog'[x].sb = xlog[x].sb
      BY <1>3, <2>1 DEF Grows
    <2>3. xlog'[x].eb # -1 => r <= xlog'[x].eb
      <3>1. CASE x < w_xfer
        BY <1>3, <2>1, <3>1 DEF Grows
      <3>2. CASE x = w_xfer
        BY <1>3, <2>1, <3>2 DEF Grows
      <3> QED BY <1>3, <2>1, <3>1, <3>2
    <2>4. Inside(s) => r < w_buf_curr'
      BY <1>3, <2>1 DEF Grows
    <2> QED BY <2>1, <2>2, <2>3, <2>4 DEF Started
  <1>6. ASSUME ~Reading(s)
        PROVE  /\ x = 0 => r = 0
               /\ x > 0 => r = xlog'[x - 1].eb + 1
               /\ Inside(s) => xlog'[x].sb # -1 /\ xlog'[x].sb < w_buf_curr'
    <2>1. /\ x = 0 => r = 0
          /\ x > 0 => r = xlog[x - 1].eb + 1
          /\ Inside(s) => Started(x) /\ xlog[x].sb < w_buf_curr
          /\ x <= w_xfer
      BY <1>2, <1>6 DEF Position
    <2>2. x > 0 => xlog'[x - 1].eb = xlog[x - 1].eb
      <3>1. x > 0 => x - 1 \in 0..MaxXfer /\ x - 1 < w_xfer
        BY <1>3, <2>1
      <3> QED BY <3>1 DEF Grows
    <2>3. Inside(s) => xlog'[x].sb = xlog[x].sb
      BY <1>3, <2>1 DEF Grows
    <2>4. Inside(s) => xlog'[x].sb < w_buf_curr'
      BY <1>3, <1>i, <2>1, <2>3 DEF Grows
    <2> QED BY <2>1, <2>2, <2>3, <2>4 DEF Started
  <1> QED BY <1>1, <1>4, <1>5, <1>6 DEF Position, Started

\* FULL tells the reader of a slot that there is a block for it.
HasBlock(s) == FULL[s] > 0 => \E k \in Announced : k >= r_bufs[s]

\* A step of a reader takes it from one place to the next.
LEMMA PositionReader ==
    ASSUME TypeOK, Ledger, SodCount, EodCount, WriterStill, NEW s \in Slots,
           Position(s), HasBlock(s), SlotStill(s) \/ SlotMoves(s)
    PROVE  Position(s)'
  <1> DEFINE x == r_xfers[s]
             r == r_bufs[s]
  <1>1. UNCHANGED <<w_xfer, w_buf_curr, xlog>>
    BY DEF WriterStill, wsync, hist
  <1>2. x \in 0..MaxXfer /\ r \in Nat /\ w_xfer \in 0..MaxXfer /\ w_buf_curr \in Nat /\ MaxXfer \in Nat
    BY LedgerInts, SodInts DEF Position
  <1>i. \A z \in 0..MaxXfer : xlog[z].sb \in Int /\ xlog[z].eb \in Int
    BY LedgerInts
  <1>p. x <= w_xfer /\ r <= w_buf_curr
    BY DEF Position
  <1>q. Reading(s) => /\ Started(x) /\ xlog[x].sb <= r
                      /\ xlog[x].eb # -1 => r <= xlog[x].eb
                      /\ Inside(s) => r < w_buf_curr
    BY DEF Position
  <1>r. ~Reading(s) => /\ x = 0 => r = 0
                       /\ x > 0 => r = xlog[x - 1].eb + 1
                       /\ Inside(s) => Started(x) /\ xlog[x].sb < w_buf_curr
    BY DEF Position
  <1>e. Started(x) /\ xlog[x].eb # -1 => x < w_xfer
    BY <1>2, <1>p DEF Ledger, XlogInv, CurrentXfer
  <1>f. x < w_xfer => e_buf[x % XFERS] = xlog[x].eb /\ eod[x % XFERS] = 1
    BY <1>2, <1>p, EodWindow DEF Ledger, FlagsInv
  <1>3. CASE SlotStill(s) \/ GivesBack(s)
    BY <1>1, <1>3 DEF SlotStill, GivesBack, Position, Started
  <1>4. CASE TakesBlock(s)
    <2>1. /\ r_bufs'[s] = r /\ r_xfers'[s] = x /\ (Reading(s)' <=> Reading(s))
      BY <1>4 DEF TakesBlock
    <2>2. PICK k \in Announced : k >= r
      BY <1>4 DEF HasBlock, TakesBlock
    <2>3. k \in Int /\ k < w_buf_curr
      BY AnnouncedFinite
    <2>4. r < w_buf_curr
      BY <1>2, <2>2, <2>3
    <2>5. ~Reading(s) => Started(x) /\ xlog[x].sb < w_buf_curr
      <3>1. ~Reading(s) => Started(x) /\ xlog[x].sb <= k
        BY <2>2, NextXfer
      <3> QED BY <1>2, <1>i, <2>3, <3>1
    <2> QED BY <1>1, <1>p, <1>q, <1>r, <2>1, <2>4, <2>5 DEF Position, Started
  <1>5. CASE FindsStart(s)
    <2>1. Started(x) /\ xlog[x].sb < w_buf_curr
      BY <1>5, <1>r DEF FindsStart
    <2>2. s_buf[x % XFERS] = xlog[x].sb
      BY <1>5, <1>p, <2>1, SodWindow DEF FindsStart
    <2>3. r_bufs'[s] = xlog[x].sb /\ r_xfers'[s] = x /\ Reading(s)'
      BY <1>5, <2>2 DEF FindsStart
    <2>4. xlog[x].eb # -1 => xlog[x].sb <= xlog[x].eb
      BY <1>2, <1>e, <2>1 DEF Ledger, XlogInv, EndedXfer
    <2> QED BY <1>1, <1>2, <1>i, <1>p, <2>1, <2>3, <2>4 DEF Position, Started
  <1>6. CASE MovesOn(s) /\ ~SlotAtEod(s)
    <2>1. /\ r_bufs'[s] = r + 1 /\ r_xfers'[s] = x /\ Reading(s) /\ Reading(s)'
          /\ ~Inside(s)' /\ Inside(s)
      BY <1>6 DEF MovesOn
    <2>2. r < w_buf_curr
      BY <1>q, <2>1
    <2>3. xlog[x].eb # -1 => r # xlog[x].eb
      BY <1>6, <1>e, <1>f, <1>q, <2>1 DEF SlotAtEod
    <2>4. xlog[x].eb # -1 => r + 1 <= xlog[x].eb
      BY <1>2, <1>i, <1>q, <2>1, <2>3
    <2> QED BY <1>1, <1>2, <1>i, <1>p, <1>q, <2>1, <2>2, <2>4 DEF Position, Started
  <1>7. CASE EndsXfer(s) /\ SlotAtEod(s)
    <2>1. /\ r_bufs'[s] = r + 1 /\ r_xfers'[s] = x + 1 /\ Reading(s) /\ ~Reading(s)'
          /\ ~Inside(s)' /\ Inside(s)
      BY <1>7 DEF EndsXfer
    <2>2. r < w_buf_curr
      BY <1>q, <2>1
    <2>3. eod[x % XFERS] = 1 /\ r = e_buf[x % XFERS]
      BY <1>7 DEF SlotAtEod
    <2>4. x # w_xfer
      <3>1. x = w_xfer => eod[x % XFERS] = 0 \/ e_buf[x % XFERS] < xlog[x].sb
        BY <1>q, <2>1 DEF Ledger, FlagsInv
      <3>2. xlog[x].sb <= r
        BY <1>q, <2>1
      <3> QED BY <1>2, <1>i, <2>3, <3>1, <3>2
    <2>5. x < w_xfer
      BY <1>2, <1>p, <2>4
    <2>6. r = xlog[x].eb
      BY <1>f, <2>3, <2>5
    <2>7. (x + 1) - 1 = x /\ x + 1 > 0 /\ x + 1 <= w_xfer /\ r + 1 <= w_buf_curr /\ x + 1 # 0
      BY <1>2, <2>2, <2>5
    <2> QED BY <1>1, <2>1, <2>6, <2>7 DEF Position
  <1> QED BY <1>3, <1>4, <1>5, <1>6, <1>7 DEF SlotMoves
-----------------------------------------------------------------------------
(* FULL: every block that counts has been taken by the reader of the slot, *)
(* or is in its semaphore, or the writer has yet to tell it.               *)

TellsBlock(p, s) == pc[p] = "full" /\ i[p] <= s
TellsXfer(p, s) == pc[p] = "sod_full" /\ i[p] <= s
Untold(s) ==
    Bit(\E p \in Writers : TellsBlock(p, s))
  + (IF \E p \in Writers : TellsXfer(p, s) THEN w_buf_curr - xlog[w_xfer].sb ELSE 0)
Told(s) == FULL[s] + CountBelow(Announced, r_bufs[s]) + Bit(Inside(s))
FullCount == \A s \in Slots : Told(s) + Untold(s) = Cardinality(Announced)

LEMMA ToldInts ==
    ASSUME TypeOK, Ledger, NEW s \in Slots
    PROVE  /\ Told(s) \in Nat /\ Untold(s) \in Nat
           /\ CountBelow(Announced, r_bufs[s]) \in Nat
           /\ CountBelow(Announced, r_bufs[s]) <= Told(s)
  <1>1. CountBelow(Announced, r_bufs[s]) \in Nat /\ FULL[s] \in Nat
    BY AnnouncedFinite, BelowFinite, SodInts
  <1>2. \A p \in Writers : TellsXfer(p, s) /\ IsWriter(p) => Started(w_xfer) \/ ~Opened(p)
    BY DEF Ledger, XferAt
  <1>3. w_xfer \in 0..MaxXfer /\ w_buf_curr \in Nat /\ xlog[w_xfer].sb \in Int
    BY LedgerInts
  <1>4. xlog[w_xfer].sb <= w_buf_curr
    BY <1>3 DEF Ledger, XlogInv, CurrentXfer, Started
  <1> QED BY <1>1, <1>3, <1>4 DEF Told, Untold, Bit

LEMMA FullHasBlock ==
    ASSUME TypeOK, Ledger, FullCount, NEW s \in Slots
    PROVE  HasBlock(s)
  <1> SUFFICES ASSUME FULL[s] > 0 PROVE \E k \in Announced : k >= r_bufs[s]
    BY DEF HasBlock
  <1>1. FULL[s] \in Nat /\ r_bufs[s] \in Int /\ Untold(s) \in Nat
        /\ CountBelow(Announced, r_bufs[s]) \in Nat
    BY SodInts, ToldInts
  <1>2. Told(s) + Untold(s) = Cardinality(Announced)
    BY DEF FullCount
  <1>3. CountBelow(Announced, r_bufs[s]) # Cardinality(Announced)
    BY <1>1, <1>2 DEF Told, Bit
  <1> QED BY <1>1, <1>3, AboveSome, AnnouncedFinite

\* A reader that holds a block holds one that counts.
LEMMA HoldsAnnounced ==
    ASSUME TypeOK, Ledger, NEW s \in Slots, Position(s), Reading(s), Inside(s)
    PROVE  r_bufs[s] \in Announced
  <1>1. /\ Started(r_xfers[s]) /\ xlog[r_xfers[s]].sb <= r_bufs[s]
        /\ xlog[r_xfers[s]].eb # -1 => r_bufs[s] <= xlog[r_xfers[s]].eb
        /\ r_bufs[s] < w_buf_curr
    BY DEF Position
  <1>2. r_xfers[s] \in 0..MaxXfer /\ r_bufs[s] \in 0..(w_buf_curr - 1)
    BY <1>1, LedgerInts, SodInts DEF Position
  <1> QED BY <1>1, <1>2 DEF Announced, InXfer

\* How many blocks its reader has passed, when a slot changes.
LEMMA PassedReader ==
    ASSUME TypeOK, Ledger, SodCount, Announced' = Announced, NEW s \in Slots, Position(s),
           SlotStill(s) \/ SlotMoves(s)
    PROVE  CountBelow(Announced, r_bufs[s])'
             = CountBelow(Announced, r_bufs[s]) + Bit(MovesOn(s) \/ EndsXfer(s))
  <1> DEFINE A == Announced
             x == r_xfers[s]
             r == r_bufs[s]
  <1>1. IsFiniteSet(A) /\ (\A k \in A : k \in Int) /\ r \in Int
    BY AnnouncedFinite, SodInts
  <1>2. CountBelow(Announced, r_bufs[s])' = CountBelow(A, r_bufs'[s])
    BY DEF CountBelow, Below
  <1>3. CountBelow(A, r) \in Nat
    BY <1>1, BelowFinite
  <1>4. CASE SlotStill(s) \/ TakesBlock(s) \/ GivesBack(s)
    <2>1. r_bufs'[s] = r /\ ~MovesOn(s) /\ ~EndsXfer(s)
      BY <1>1, <1>4 DEF SlotStill, TakesBlock, GivesBack, MovesOn, EndsXfer
    <2> QED BY <1>2, <1>3, <2>1 DEF Bit
  <1>5. CASE FindsStart(s)
    <2>1. Started(x) /\ ~Reading(s) /\ x <= w_xfer
      BY <1>5 DEF FindsStart, Position
    <2>2. r_bufs'[s] = xlog[x].sb /\ x \in 0..MaxXfer
      BY <1>5, <2>1, SodWindow DEF FindsStart
    <2>3. ~MovesOn(s) /\ ~EndsXfer(s)
      BY <1>5 DEF FindsStart, MovesOn, EndsXfer
    <2>4. xlog[x].sb \in Int /\ xlog[x].sb >= 0
      BY <2>1, <2>2, LedgerInts DEF Ledger, XlogInv, EndedXfer, CurrentXfer
    <2>5. r <= xlog[x].sb
      <3>1. CASE x = 0
        BY <2>1, <2>4, <3>1 DEF Position
      <3>2. CASE x > 0
        <4>1. x - 1 \in 0..MaxXfer /\ x - 1 < x
          BY <2>2, <3>2, LedgerInts
        <4>2. xlog[x - 1].eb < xlog[x].sb
          BY <2>1, <2>2, <4>1, XferOrder
        <4>3. r = xlog[x - 1].eb + 1 /\ xlog[x - 1].eb \in Int
          BY <2>1, <3>2, <4>1, LedgerInts DEF Position
        <4> QED BY <2>4, <4>2, <4>3
      <3> QED BY <2>2, <3>1, <3>2
    <2>6. \A k \in A : k < r \/ xlog[x].sb <= k
      <3>1. \A k \in A : k >= r => xlog[x].sb <= k
        BY <2>1, NextXfer
      <3> QED BY <1>1, <3>1
    <2>7. CountBelow(A, r) = CountBelow(A, xlog[x].sb)
      BY <1>1, <2>4, <2>5, <2>6, BelowSame
    <2> QED BY <1>2, <1>3, <2>2, <2>3, <2>7 DEF Bit
  <1>6. CASE MovesOn(s) \/ EndsXfer(s)
    <2>1. r_bufs'[s] = r + 1 /\ Reading(s) /\ Inside(s)
      BY <1>6 DEF MovesOn, EndsXfer
    <2>2. r \in A
      BY <2>1, HoldsAnnounced
    <2>3. CountBelow(A, r + 1) = CountBelow(A, r) + Bit(r \in A)
      BY <1>1, BelowStep
    <2> QED BY <1>2, <1>6, <2>1, <2>2, <2>3 DEF Bit
  <1> QED BY <1>4, <1>5, <1>6 DEF SlotMoves

\* A step of a reader leaves the blocks that count, and what is to be told.
LEMMA ReaderLeavesBlocks ==
    ASSUME WriterStill
    PROVE  /\ Announced' = Announced
           /\ \A s \in Slots : Untold(s)' = Untold(s)
  <1>1. UNCHANGED <<w_buf_curr, w_xfer, xlog>>
    BY DEF WriterStill, wsync, hist
  <1>2. \A q \in Writers, s \in Slots : /\ TellsBlock(q, s)' <=> TellsBlock(q, s)
                                        /\ TellsXfer(q, s)' <=> TellsXfer(q, s)
    BY DEF WriterStill, TellsBlock, TellsXfer
  <1>3. Announced' = Announced
    BY <1>1 DEF Announced, InXfer, Started
  <1> QED BY <1>1, <1>2, <1>3 DEF Untold, Bit

LEMMA FullReader ==
    ASSUME TypeOK, TypeOK', Ledger, SodCount, Positions, FullCount, WriterStill,
           \A s \in Slots : SlotStill(s) \/ SlotMoves(s)
    PROVE  FullCount'
  <1> SUFFICES ASSUME NEW s \in Slots PROVE Told(s)' + Untold(s)' = Cardinality(Announced)'
    BY DEF FullCount
  <1>1. Announced' = Announced /\ Untold(s)' = Untold(s)
    BY ReaderLeavesBlocks
  <1>2. CountBelow(Announced, r_bufs[s])'
             = CountBelow(Announced, r_bufs[s]) + Bit(MovesOn(s) \/ EndsXfer(s))
    BY <1>1, PassedReader DEF Positions
  <1>3. FULL[s] \in Nat /\ CountBelow(Announced, r_bufs[s]) \in Nat
    BY SodInts, ToldInts
  <1>4. Told(s)' = Told(s)
    <2>1. Told(s)' = FULL'[s] + CountBelow(Announced, r_bufs[s])' + Bit(Inside(s)')
      BY DEF Told, Bit
    <2>2. CASE SlotStill(s) /\ ~MovesOn(s) /\ ~EndsXfer(s)
      BY <1>2, <1>3, <2>1, <2>2 DEF SlotStill, Told, Bit
    <2>3. CASE TakesBlock(s)
      BY <1>2, <1>3, <2>1, <2>3 DEF TakesBlock, MovesOn, EndsXfer, Told, Bit
    <2>4. CASE FindsStart(s)
      BY <1>2, <1>3, <2>1, <2>4 DEF FindsStart, MovesOn, EndsXfer, Told, Bit
    <2>5. CASE GivesBack(s)
      BY <1>2, <1>3, <2>1, <2>5 DEF GivesBack, MovesOn, EndsXfer, Told, Bit
    <2>6. CASE MovesOn(s) \/ EndsXfer(s)
      BY <1>2, <1>3, <2>1, <2>6 DEF MovesOn, EndsXfer, Told, Bit
    <2> QED BY <2>2, <2>3, <2>4, <2>5, <2>6 DEF SlotMoves
  <1> QED BY <1>1, <1>4 DEF FullCount

\* The writer alone tells the readers.
LEMMA UntoldAlone ==
    ASSUME NEW p \in Writers, Alone(p), NEW s \in Slots
    PROVE  /\ (\E q \in Writers : TellsBlock(q, s)) <=> TellsBlock(p, s)
           /\ (\E q \in Writers : TellsXfer(q, s)) <=> TellsXfer(p, s)
  BY DEF Alone, TellsBlock, TellsXfer

\* Every reader is at or before the block in which a new transfer starts.
LEMMA BeforeStart ==
    ASSUME TypeOK, Control, WriterCtl, Ledger, NEW w \in Writers, pc[w] = "sod_ack",
           NEW s \in Slots, Position(s)
    PROVE  r_bufs[s] <= start_buf[w] /\ start_buf[w] \in Nat /\ start_buf[w] <= w_buf_curr
  <1> DEFINE x == r_xfers[s]
             r == r_bufs[s]
  <1>0. w \in Procs /\ IsWriter(w) /\ ~Opened(w)
    BY DEF Procs, WriterCtl, IsWriter, Opened
  <1>1. /\ ~Started(w_xfer) /\ start_buf[w] <= w_buf_curr
        /\ \A z \in 0..MaxXfer : z < w_xfer => xlog[z].eb < start_buf[w]
    BY <1>0 DEF Ledger, XferAt, SodAt
  <1>2. x \in 0..MaxXfer /\ r \in Nat /\ w_xfer \in 0..MaxXfer /\ w_buf_curr \in Nat
        /\ MaxXfer \in Nat /\ start_buf[w] \in Nat
    BY <1>0, LedgerInts, SodInts DEF Position, TypeOK, LocalType
  <1>3. x <= w_xfer
    BY DEF Position
  <1>i. \A z \in 0..MaxXfer : xlog[z].sb \in Int /\ xlog[z].eb \in Int
    BY LedgerInts
  <1>4. CASE Reading(s)
    <2>1. Started(x) /\ (xlog[x].eb # -1 => r <= xlog[x].eb)
      BY <1>4 DEF Position
    <2>2. x < w_xfer
      BY <1>1, <1>2, <1>3, <2>1
    <2>3. EndedXfer(x)
      BY <1>2, <2>2 DEF Ledger, XlogInv
    <2>4. xlog[x].eb # -1
      BY <1>2, <1>i, <2>3 DEF EndedXfer
    <2> QED BY <1>1, <1>2, <1>i, <2>1, <2>2, <2>4
  <1>5. CASE ~Reading(s) /\ x > 0
    <2>1. r = xlog[x - 1].eb + 1 /\ x - 1 \in 0..MaxXfer /\ x - 1 < w_xfer
      BY <1>2, <1>3, <1>5 DEF Position
    <2> QED BY <1>1, <1>2, <1>i, <2>1
  <1>6. CASE ~Reading(s) /\ x = 0
    BY <1>1, <1>2, <1>6 DEF Position
  <1> QED BY <1>2, <1>4, <1>5, <1>6

\* How the blocks that count grow, seen from a block that every reader before
\* it has yet to reach.
LEMMA GrowthBelow ==
    ASSUME TypeOK, Control, WriterExclusion, WriterCtl, Ledger, Ledger', Positions,
           NEW w \in Writers, PlainWriter(w), NEW s \in Slots
    PROVE  CountBelow(Announced, r_bufs[s])' = CountBelow(Announced, r_bufs[s])
  <1> DEFINE A == Announced
             r == r_bufs[s]
  <1>1. r_bufs'[s] = r /\ r \in Int
    BY SodInts, WriterLeavesReaders DEF ReaderStill, rsync
  <1>2. CountBelow(Announced, r_bufs[s])' = CountBelow(Announced', r)
    BY <1>1 DEF CountBelow, Below
  <1>3. (\A k \in A : k \in Int) /\ w_buf_curr \in Nat
    BY AnnouncedFinite, LedgerInts
  <1>4. CASE SodSet(w)
    <2>1. Announced' = A \cup (start_buf[w]..(w_buf_curr - 1))
      BY <1>4, AnnouncedNext
    <2>2. r <= start_buf[w] /\ start_buf[w] \in Nat
      BY <1>4, BeforeStart DEF SodSet, Positions
    <2>3. /\ A \subseteq Announced' /\ \A k \in Announced' : k \in Int
          /\ \A k \in Announced' : k \in A \/ r <= k
      BY <1>1, <1>3, <2>1, <2>2
    <2> QED BY <1>1, <1>2, <2>3, BelowGrows
  <1>5. CASE Publish(w)
    <2>1. Announced' = A \cup {w_buf_curr}
      BY <1>5, AnnouncedNext
    <2>2. r <= w_buf_curr
      BY DEF Positions, Position
    <2>3. /\ A \subseteq Announced' /\ \A k \in Announced' : k \in Int
          /\ \A k \in Announced' : k \in A \/ r <= k
      BY <1>1, <1>3, <2>1, <2>2
    <2> QED BY <1>1, <1>2, <2>3, BelowGrows
  <1>6. CASE ~SodSet(w) /\ ~Publish(w)
    BY <1>2, <1>6, AnnouncedNext
  <1> QED BY <1>4, <1>5, <1>6

LEMMA FullWriter ==
    ASSUME TypeOK, TypeOK', Control, WriterExclusion, WriterCtl, LoopStart, Ledger, Ledger',
           Positions, FullCount, NEW w \in Writers, PlainWriter(w)
    PROVE  FullCount'
  <1> SUFFICES ASSUME NEW s \in Slots PROVE Told(s)' + Untold(s)' = Cardinality(Announced)'
    BY DEF FullCount
  <1> DEFINE A == Announced
             n == CountBelow(Announced, r_bufs[s])
             b == Bit(Inside(s))
  <1>1. n' = n
    BY GrowthBelow
  <1>2. Inside(s)' <=> Inside(s)
    BY WriterLeavesReaders DEF ReaderStill, Inside, InLabels
  <1>3. Told(s)' = FULL'[s] + n + b /\ Told(s) = FULL[s] + n + b
    BY <1>1, <1>2 DEF Told, Bit
  <1>4. Told(s) + Untold(s) = Cardinality(A)
    BY DEF FullCount
  <1>5. /\ FULL[s] \in Nat /\ n \in Nat /\ b \in Nat /\ IsFiniteSet(A) /\ Cardinality(A) \in Nat
        /\ \A k \in A : k \in Int /\ k < w_buf_curr
    BY SodInts, ToldInts, AnnouncedFinite DEF Bit
  <1>6. s \in 0..(NREADERS - 1) /\ NREADERS \in Nat /\ NREADERS > 0 /\ w_buf_curr \in Nat
        /\ w_xfer \in 0..MaxXfer /\ xlog[w_xfer].sb \in Int
    BY SizesAssumption, LedgerInts DEF Slots
  <1> HIDE DEF n, b
  <1>7. CASE LockWrite(w)
    <2>1. UNCHANGED <<FULL, w_xfer, xlog, i, w_buf_curr>> /\ pc[w] = "idle" /\ w \in Procs
          /\ pc' = [pc EXCEPT ![w] = "wlock"]
      BY <1>7 DEF LockWrite, Goto, Procs, wsync, datasem, hist
    <2>2. \A q \in Writers : /\ TellsBlock(q, s)' <=> TellsBlock(q, s)
                             /\ TellsXfer(q, s)' <=> TellsXfer(q, s)
      BY <2>1 DEF TellsBlock, TellsXfer, TypeOK, LocalType, Procs
    <2>3. Untold(s)' = Untold(s)
      BY <2>1, <2>2 DEF Untold, Bit
    <2>4. Announced' = A
      BY <2>1 DEF Announced, InXfer, Started
    <2> QED BY <1>3, <1>4, <2>1, <2>3, <2>4
  <1>8. CASE ~LockWrite(w)
    <2>0. w \in Procs /\ (IsWriter(w) \/ pc[w] = "wlock")
      BY <1>8 DEF Procs, PlainWriter, Control, IsWriter, LockWrite, Goto,
         LockWriteState, SetBoth, SetState, RelockWrite, IdleWriter, EnableEod,
         DisableSod, SetSoclockBuf, EnableSod, SodAllowed, CallEnableSod, Rewind,
         SodAck, Advance, SodSet, SodFull, SodDone, GetNextWrite, GetClear, TakeClear,
         GetDone, ZeroNextWrite, ZeroDone, MarkFilledClocked, MarkFilled, EodAck, EodSet, Publish,
         MarkFull
    <2>1. Alone(w) /\ Alone(w)'
      BY <2>0, WriterAlone, AloneNext
    <2>2. Untold(s) = Bit(TellsBlock(w, s))
                      + (IF TellsXfer(w, s) THEN w_buf_curr - xlog[w_xfer].sb ELSE 0)
      BY <2>1, UntoldAlone DEF Untold, Bit
    <2>3. Untold(s)' = Bit(TellsBlock(w, s)')
                      + (IF TellsXfer(w, s)' THEN w_buf_curr' - xlog'[w_xfer'].sb ELSE 0)
      BY <2>1, UntoldAlone DEF Untold, Bit, Alone, TellsBlock, TellsXfer
    <2>4. CASE SodSet(w)
      <3>1. /\ FULL' = FULL /\ w_buf_curr' = w_buf_curr /\ w_xfer' = w_xfer
            /\ pc[w] = "sod_ack" /\ pc'[w] = "sod_full" /\ i'[w] = 0
        BY <2>0, <2>4 DEF SodSet, Rewind, Goto, TypeOK, LocalType, datasem
      <3>2. xlog'[w_xfer].sb = start_buf[w]
        BY <2>4, SodSetEffect
      <3>3. start_buf[w] \in Nat /\ start_buf[w] <= w_buf_curr
        BY <3>1, BeforeStart DEF Positions
      <3>4. Untold(s) = 0 /\ Untold(s)' = w_buf_curr - start_buf[w]
        BY <1>6, <2>2, <2>3, <3>1, <3>2, <3>3 DEF TellsBlock, TellsXfer, Bit
      <3>5. /\ Announced' = A \cup (start_buf[w]..(w_buf_curr - 1))
            /\ \A k \in A : k < start_buf[w]
        BY <2>4, AnnouncedNext
      <3>6. Cardinality(Announced') = Cardinality(A) + (w_buf_curr - start_buf[w])
        <4>1. \A k \in A : k \notin start_buf[w]..(w_buf_curr - 1)
          BY <1>5, <3>3, <3>5
        <4> QED BY <1>5, <1>6, <3>3, <3>5, <4>1, JoinInterval
      <3> QED BY <1>3, <1>4, <1>5, <1>6, <3>1, <3>3, <3>4, <3>6
    <2>5. CASE SodFull(w)
      <3> DEFINE d == w_buf_curr - start_buf[w]
      <3>1. /\ pc[w] = "sod_full" /\ pc' = pc /\ i[w] < NREADERS /\ i[w] \in 0..NREADERS
            /\ i' = [i EXCEPT ![w] = i[w] + 1]
            /\ FULL' = [FULL EXCEPT ![i[w]] = @ + Short(U64(d))]
            /\ UNCHANGED <<w_buf_curr, w_xfer, xlog>>
        BY <2>0, <2>5 DEF SodFull, Advance, TypeOK, LocalType, wsync, hist
      <3>2. start_buf[w] = xlog[w_xfer].sb /\ start_buf[w] > w_buf_next - NBUFS
        BY <2>0, <3>1 DEF Ledger, SodAt, WriterCtl, IsWriter
      <3>3. Started(w_xfer) /\ start_buf[w] \in Nat
        BY <2>0, <3>1 DEF Ledger, XferAt, WriterCtl, IsWriter, Opened, TypeOK, LocalType
      <3>4. start_buf[w] <= w_buf_curr
        BY <1>6, <3>2, <3>3 DEF Ledger, XlogInv, CurrentXfer
      <3>5. d \in Nat /\ 2 * d < WORD /\ WORD \in Nat
        <4>1. w_buf_curr <= w_buf_next /\ w_buf_next <= MaxBlock
          BY DEF Ledger, BlocksInv
        <4> QED BY <1>6, <3>2, <3>3, <3>4, <4>1, LedgerInts, BoundsAssumption
      <3> HIDE DEF d
      <3>6. Short(U64(d)) = d
        BY <3>5 DEF Short, U64
      <3>7. /\ i'[w] = i[w] + 1 /\ i[w] \in Slots
            /\ FULL'[i[w]] = FULL[i[w]] + d /\ \A t \in Slots : t # i[w] => FULL'[t] = FULL[t]
        BY <1>6, <2>0, <3>1, <3>6 DEF TypeOK, LocalType, SemType, Slots
      <3>8. TellsXfer(w, s) <=> i[w] <= s
        BY <3>1 DEF TellsXfer
      <3>9. TellsXfer(w, s)' <=> i[w] + 1 <= s
        BY <3>1, <3>7 DEF TellsXfer
      <3>10. ~TellsBlock(w, s) /\ ~TellsBlock(w, s)'
        BY <3>1 DEF TellsBlock
      <3>11. w_buf_curr - xlog[w_xfer].sb = d /\ w_buf_curr' - xlog'[w_xfer'].sb = d
        BY <3>1, <3>2 DEF d
      <3>12. ~SodSet(w) /\ ~Publish(w)
        BY <3>1 DEF SodSet, Publish
      <3>13. Announced' = A
        BY <3>12, AnnouncedNext
      <3>14. FULL'[s] + Untold(s)' = FULL[s] + Untold(s)
        <4>1. CASE i[w] = s
          BY <1>5, <1>6, <2>2, <2>3, <3>5, <3>7, <3>8, <3>9, <3>10, <3>11, <4>1 DEF Bit
        <4>2. CASE i[w] # s
          <5>1. i[w] + 1 <= s <=> i[w] <= s
            BY <1>6, <3>1, <4>2
          <5> QED BY <2>2, <2>3, <3>7, <3>8, <3>9, <3>10, <3>11, <4>2, <5>1 DEF Bit
        <4> QED BY <4>1, <4>2
      <3>15. Untold(s) \in Int /\ Untold(s)' \in Int /\ FULL'[s] \in Int
        BY <2>2, <2>3, <3>5, <3>11, SodInts DEF Bit, TypeOK, SemType
      <3> QED BY <1>3, <1>4, <1>5, <3>13, <3>14, <3>15
    <2>6. CASE SodDone(w)
      <3>1. FULL' = FULL /\ pc[w] = "sod_full" /\ pc'[w] \in {"idle", "get"} /\ i[w] = NREADERS
        BY <2>0, <2>6 DEF SodDone, Goto, TypeOK, LocalType, datasem, WriterCtl
      <3>2. Untold(s) = 0 /\ Untold(s)' = 0
        BY <1>6, <2>2, <2>3, <3>1 DEF TellsBlock, TellsXfer, Bit
      <3>3. ~SodSet(w) /\ ~Publish(w)
        BY <3>1 DEF SodSet, Publish
      <3> QED BY <1>3, <1>4, <3>1, <3>2, <3>3, AnnouncedNext
    <2>7. CASE Publish(w)
      <3>1. FULL' = FULL /\ pc[w] = "publish" /\ pc'[w] = "full" /\ i'[w] = 0
        BY <2>0, <2>7 DEF Publish, Goto, TypeOK, LocalType, datasem, LoopStart
      <3>2. Untold(s) = 0 /\ Untold(s)' = 1
        BY <1>6, <2>2, <2>3, <3>1 DEF TellsBlock, TellsXfer, Bit
      <3>3. Announced' = A \cup {w_buf_curr}
        BY <2>7, AnnouncedNext
      <3>4. Cardinality(Announced') = Cardinality(A) + 1
        <4>1. w_buf_curr \notin A
          BY <1>5, <1>6
        <4> QED BY <1>5, <3>3, <4>1, FS_AddElement
      <3> QED BY <1>3, <1>4, <1>5, <3>1, <3>2, <3>4
    <2>8. CASE MarkFull(w)
      <3>1. /\ pc[w] = "full" /\ i[w] \in 0..(NREADERS - 1) /\ i[w] \in Slots
            /\ FULL' = [FULL EXCEPT ![i[w]] = @ + 1] /\ UNCHANGED <<w_buf_curr, w_xfer, xlog>>
        BY <1>6, <2>0, <2>8 DEF MarkFull, TypeOK, LocalType, Slots, wsync, hist
      <3>2. \/ i[w] < NREADERS - 1 /\ i'[w] = i[w] + 1 /\ pc'[w] = "full"
            \/ i[w] = NREADERS - 1 /\ pc'[w] = "idle"
        BY <2>0, <2>8 DEF MarkFull, Advance, Goto, TypeOK, LocalType
      <3>3. FULL'[i[w]] = FULL[i[w]] + 1 /\ \A t \in Slots : t # i[w] => FULL'[t] = FULL[t]
        BY <3>1 DEF TypeOK, SemType
      <3>4. TellsBlock(w, s) <=> i[w] <= s
        BY <3>1 DEF TellsBlock
      <3>5. TellsBlock(w, s)' <=> i[w] + 1 <= s
        BY <1>6, <3>1, <3>2 DEF TellsBlock
      <3>6. ~TellsXfer(w, s) /\ ~TellsXfer(w, s)'
        BY <3>1, <3>2 DEF TellsXfer
      <3>7. Untold(s) = Bit(i[w] <= s) /\ Untold(s)' = Bit(i[w] + 1 <= s)
        BY <2>2, <2>3, <3>4, <3>5, <3>6 DEF Bit
      <3>8. FULL'[s] + Untold(s)' = FULL[s] + Untold(s)
        BY <1>5, <1>6, <3>1, <3>3, <3>7 DEF Bit
      <3>9. ~SodSet(w) /\ ~Publish(w)
        BY <3>1 DEF SodSet, Publish
      <3>10. Untold(s) \in Int /\ Untold(s)' \in Int /\ FULL'[s] \in Int
        BY <3>7 DEF Bit, TypeOK, SemType
      <3> QED BY <1>3, <1>4, <1>5, <3>8, <3>9, <3>10, AnnouncedNext
    <2>9. CASE ~SodSet(w) /\ ~SodFull(w) /\ ~SodDone(w) /\ ~Publish(w) /\ ~MarkFull(w)
      <3>1. FULL' = FULL
        BY <1>8, <2>9 DEF PlainWriter, LockWrite, Goto, LockWriteState, SetBoth,
           SetState, RelockWrite, IdleWriter, EnableEod, DisableSod, SetSoclockBuf,
           EnableSod, SodAllowed, CallEnableSod, Rewind, SodAck, Advance, SodSet,
           SodFull, SodDone, GetNextWrite, GetClear, TakeClear, GetDone, ZeroNextWrite, ZeroDone,
           MarkFilledClocked, MarkFilled, EodAck, EodSet, Publish, MarkFull, datasem
      <3>2. pc[w] \notin {"full", "sod_full"}
        BY <1>8, <2>9 DEF PlainWriter, LockWrite, Goto, LockWriteState, SetBoth,
           SetState, RelockWrite, IdleWriter, EnableEod, DisableSod, SetSoclockBuf,
           EnableSod, SodAllowed, CallEnableSod, Rewind, SodAck, Advance, SodSet,
           SodFull, SodDone, GetNextWrite, GetClear, TakeClear, GetDone, ZeroNextWrite, ZeroDone,
           MarkFilledClocked, MarkFilled, EodAck, EodSet, Publish, MarkFull
      <3>3. pc'[w] \notin {"full", "sod_full"}
        <4>1. CASE SodAck(w)
          BY <3>2, <4>1 DEF SodAck
        <4>2. CASE ~SodAck(w)
          <5>1. pc \in [Procs -> Labels] /\ ret[w] \in {"idle", "get", "publish"}
            BY <2>0 DEF TypeOK, LocalType
          <5> QED BY <2>0, <2>9, <3>2, <4>2, <5>1, PlainLabels
        <4> QED BY <4>1, <4>2
      <3>4. Untold(s) = 0 /\ Untold(s)' = 0
        BY <2>2, <2>3, <3>2, <3>3 DEF TellsBlock, TellsXfer, Bit
      <3> QED BY <1>3, <1>4, <2>9, <3>1, <3>4, AnnouncedNext
    <2> QED BY <2>4, <2>5, <2>6, <2>7, <2>8, <2>9
  <1> QED BY <1>7, <1>8
-----------------------------------------------------------------------------
(* The buffers.  The window is the last NBUFS blocks that were opened: each *)
(* has a buffer to itself.                                                 *)

Oldest == w_buf_next - NBUFS
Window == Oldest..(w_buf_next - 1)

\* The writer is waiting for the buffer of the oldest block in the window; it has
\* had from slot s what it needs for that.
Getting == \E p \in Writers : pc[p] = "get"
Freed(p, s) == pc[p] = "get" /\ (count[w_buf_next % NBUFS] = 0 \/ i[p] > s)
Freeing(s) == \E p \in Writers : Freed(p, s)

\* A buffer is used by its block in the window, once that counts; the oldest one
\* may have been freed already.
BufCount ==
    \A k \in Window :
        \/ count[k % NBUFS] = Bit(k \in Announced)
        \/ k = Oldest /\ count[k % NBUFS] = 0 /\ Getting

\* The blocks that the reader of slot s has given back.
Passed(s) == CountBelow(Announced, r_bufs[s]) + Bit(Cleared(s))

\* CLEAR: every block that a reader has given back is in its semaphore, or was
\* taken for a buffer that has been used again.
ClearCount ==
    \A s \in Slots :
        CLEAR[s] + CountBelow(Announced, Oldest) + Bit(Oldest \in Announced /\ Freeing(s))
            = Passed(s)

\* A buffer holds its block in the window, unless that is the oldest one and
\* was zeroed after every reader had given it back.
DataKept ==
    \A k \in Window : k >= 0 =>
        \/ data[k % NBUFS] = k
        \/ /\ k = Oldest /\ k < w_buf_curr
           /\ k \in Announced => \A s \in Slots : CountBelow(Announced, k) < Passed(s)

LEMMA WindowInts ==
    ASSUME TypeOK, Ledger
    PROVE  /\ w_buf_next \in Nat /\ w_buf_curr \in Nat /\ NBUFS \in Nat /\ NBUFS > 0
           /\ Oldest \in Int /\ Oldest <= w_buf_curr /\ w_buf_curr <= w_buf_next
           /\ Oldest % NBUFS = w_buf_next % NBUFS
           /\ \A k \in Window : k \in Int /\ k >= Oldest /\ k < w_buf_next
           /\ \A k \in Window : k % NBUFS \in Bufs
           /\ w_buf_next % NBUFS \in Bufs
           /\ \A b \in Bufs : count[b] \in Nat
  <1>1. w_buf_next \in Nat /\ w_buf_curr \in Nat /\ NBUFS \in Nat /\ NBUFS > 0
    BY LedgerInts
  <1>2. Oldest \in Int /\ Oldest <= w_buf_curr /\ w_buf_curr <= w_buf_next
    BY <1>1 DEF Ledger, BlocksInv, Oldest
  <1>3. Oldest % NBUFS = w_buf_next % NBUFS
    BY <1>1, ModBack DEF Oldest
  <1>4. \A k \in Window : k \in Int /\ k >= Oldest /\ k < w_buf_next
    BY <1>1, <1>2 DEF Window
  <1>5. \A b \in Bufs : count[b] \in Nat
    BY DEF TypeOK, SyncType
  <1> QED BY <1>1, <1>2, <1>3, <1>4, <1>5, BufOf

LEMMA WindowApart ==
    ASSUME TypeOK, Ledger, NEW j \in Window, NEW k \in Window, j # k
    PROVE  j % NBUFS # k % NBUFS
  <1>1. /\ j \in Int /\ k \in Int /\ NBUFS \in Nat /\ NBUFS > 0
        /\ j < k + NBUFS /\ k < j + NBUFS
    BY WindowInts DEF Oldest
  <1>2. CASE j < k
    BY <1>1, <1>2, ModDistinct
  <1>3. CASE k < j
    BY <1>1, <1>3, ModDistinct
  <1> QED BY <1>1, <1>2, <1>3

\* In a window that has moved on by one block, only the new one has the buffer of
\* the oldest.
LEMMA NewestApart ==
    ASSUME TypeOK, Ledger, NEW k \in Window, k # Oldest
    PROVE  k % NBUFS # w_buf_next % NBUFS
  <1>1. Oldest \in Window
    BY WindowInts DEF Window, Oldest
  <1> QED BY <1>1, WindowApart, WindowInts

\* The writer alone waits for a buffer.
LEMMA GettingAlone ==
    ASSUME NEW p \in Writers, Alone(p)
    PROVE  /\ Getting <=> pc[p] = "get"
           /\ \A s \in Slots : Freeing(s) <=> Freed(p, s)
  BY DEF Alone, Getting, Freeing, Freed

LEMMA GettingAloneNext ==
    ASSUME NEW p \in Writers, Alone(p)'
    PROVE  /\ Getting' <=> pc'[p] = "get"
           /\ \A s \in Slots : Freeing(s)' <=> Freed(p, s)'
  BY DEF Alone, Getting, Freeing, Freed

\* The steps of the writer that neither change the use of a buffer nor end the
\* wait for one.
Idles(w) == ~SodSet(w) /\ ~Publish(w) /\ ~GetClear(w) /\ ~GetDone(w)

LEMMA IdleStep ==
    ASSUME TypeOK, Control, WriterExclusion, WriterCtl, LoopStart, Ledger, Ledger',
           NEW w \in Writers, PlainWriter(w), Idles(w)
    PROVE  /\ count' = count /\ CLEAR' = CLEAR /\ w_buf_next' = w_buf_next
           /\ Announced' = Announced /\ pc[w] # "get" /\ (pc'[w] = "get" => i'[w] = 0)
           /\ \A q \in Writers : q # w => pc'[q] = pc[q] /\ i'[q] = i[q]
           /\ ~ZeroDone(w) => data' = data
           /\ w_buf_curr' >= w_buf_curr
  <1>0. w \in Procs /\ \A q \in Writers : q \in Procs
    BY DEF Procs
  <1>1. count' = count /\ CLEAR' = CLEAR /\ w_buf_next' = w_buf_next
    BY DEF Idles, PlainWriter, LockWrite, Goto, LockWriteState, SetBoth, SetState,
       RelockWrite, IdleWriter, EnableEod, DisableSod, SetSoclockBuf, EnableSod,
       SodAllowed, CallEnableSod, Rewind, SodAck, Advance, SodSet, SodFull, SodDone,
       GetNextWrite, GetClear, TakeClear, GetDone, ZeroNextWrite, ZeroDone, MarkFilledClocked,
       MarkFilled, EodAck, EodSet, Publish, MarkFull, wsync, datasem
  <1>2. Announced' = Announced
    BY AnnouncedNext DEF Idles
  <1>3. pc[w] # "get"
    BY DEF Idles, PlainWriter, LockWrite, Goto, LockWriteState, SetBoth, SetState,
       RelockWrite, IdleWriter, EnableEod, DisableSod, SetSoclockBuf, EnableSod,
       SodAllowed, CallEnableSod, Rewind, SodAck, Advance, SodSet, SodFull, SodDone,
       GetNextWrite, GetClear, TakeClear, GetDone, ZeroNextWrite, ZeroDone, MarkFilledClocked,
       MarkFilled, EodAck, EodSet, Publish, MarkFull
  <1>4. pc'[w] = "get" => i'[w] = 0
    BY <1>0, <1>3 DEF Idles, PlainWriter, WriterCtl, LoopStart, TypeOK, LocalType,
       LockWrite, Goto, LockWriteState, SetBoth, SetState, RelockWrite, IdleWriter,
       EnableEod, DisableSod, SetSoclockBuf, EnableSod, SodAllowed, CallEnableSod,
       Rewind, SodAck, Advance, SodSet, SodFull, SodDone, GetNextWrite, GetClear,
       TakeClear, GetDone, ZeroNextWrite, ZeroDone, MarkFilledClocked, MarkFilled, EodAck, EodSet,
       Publish, MarkFull
  <1>5. \A q \in Writers : q # w => pc'[q] = pc[q] /\ i'[q] = i[q]
    BY <1>0 DEF PlainWriter, TypeOK, LocalType, LockWrite, Goto, LockWriteState,
       SetBoth, SetState, RelockWrite, IdleWriter, EnableEod, DisableSod, SetSoclockBuf,
       EnableSod, SodAllowed, CallEnableSod, Rewind, SodAck, Advance, SodSet, SodFull,
       SodDone, GetNextWrite, GetClear, TakeClear, GetDone, ZeroNextWrite, ZeroDone,
       MarkFilledClocked, MarkFilled, EodAck, EodSet, Publish, MarkFull
  <1>6. ~ZeroDone(w) => data' = data
    BY DEF Idles, PlainWriter, LockWrite, Goto, LockWriteState, SetBoth, SetState,
       RelockWrite, IdleWriter, EnableEod, DisableSod, SetSoclockBuf, EnableSod,
       SodAllowed, CallEnableSod, Rewind, SodAck, Advance, SodSet, SodFull, SodDone,
       GetNextWrite, GetClear, TakeClear, GetDone, ZeroNextWrite, ZeroDone, MarkFilledClocked,
       MarkFilled, EodAck, EodSet, Publish, MarkFull, hist
  <1>7. w_buf_curr' >= w_buf_curr
    BY LedgerInts, LedgerGrows DEF Grows
  <1> QED BY <1>1, <1>2, <1>3, <1>4, <1>5, <1>6, <1>7

\* The other steps are taken by the one writer.
LEMMA BusyAlone ==
    ASSUME TypeOK, Control, WriterExclusion, WriterCtl, NEW w \in Writers, PlainWriter(w),
           ~Idles(w)
    PROVE  /\ Alone(w) /\ Alone(w)' /\ IsWriter(w) /\ w \in Procs
           /\ SodSet(w) => pc[w] = "sod_ack" /\ pc'[w] = "sod_full"
           /\ Publish(w) => pc[w] = "publish" /\ pc'[w] = "full"
           /\ GetClear(w) => pc[w] = "get" /\ pc'[w] = "get"
           /\ GetDone(w) => pc[w] = "get" /\ pc'[w] \in {"idle", "publish"}
  <1>0. w \in Procs
    BY DEF Procs
  <1>1. /\ SodSet(w) => pc[w] = "sod_ack" /\ pc'[w] = "sod_full"
        /\ Publish(w) => pc[w] = "publish" /\ pc'[w] = "full"
        /\ GetClear(w) => pc[w] = "get" /\ pc'[w] = "get"
        /\ GetDone(w) => pc[w] = "get" /\ pc'[w] \in {"idle", "publish"}
    BY <1>0 DEF SodSet, Publish, GetClear, GetDone, Goto, TypeOK, LocalType, WriterCtl
  <1>2. pc[w] \in {"sod_ack", "publish", "get"}
    BY <1>1 DEF Idles
  <1>3. IsWriter(w)
    BY <1>2 DEF WriterCtl, IsWriter
  <1> QED BY <1>0, <1>1, <1>3, WriterAlone, AloneNext
-----------------------------------------------------------------------------
(* The counts of the uses of the buffers.                                  *)

\* Start of data adds one use of every buffer whose block is in the transfer.
LEMMA SinceStart ==
    ASSUME TypeOK, Ledger, NEW n \in Int, n > Oldest, NEW k \in Window
    PROVE  WrittenSince(n, k % NBUFS) = Bit(n <= k /\ k < w_buf_curr)
  <1> DEFINE S == {j \in n..(w_buf_curr - 1) : j % NBUFS = k % NBUFS}
  <1>1. WrittenSince(n, k % NBUFS) = Cardinality(S)
    BY DEF WrittenSince
  <1>2. \A j \in n..(w_buf_curr - 1) : j \in Window
    BY WindowInts DEF Window
  <1>3. \A j \in S : j = k
    BY <1>2, WindowApart
  <1>4. CASE n <= k /\ k < w_buf_curr
    <2>1. k \in S
      BY <1>4, WindowInts
    <2>2. S = {k}
      BY Zenon, <1>3, <2>1
    <2> QED BY <1>1, <1>4, <2>2, FS_Singleton DEF Bit
  <1>5. CASE ~(n <= k /\ k < w_buf_curr)
    <2>1. k \notin S
      BY <1>5, WindowInts
    <2>2. S = {}
      BY Zenon, <1>3, <2>1
    <2> QED BY <1>1, <1>5, <2>2, FS_EmptySet DEF Bit
  <1> QED BY <1>4, <1>5

\* What a start of data that is being raised says about the window.
LEMMA StartInWindow ==
    ASSUME TypeOK, WriterCtl, Ledger, NEW w \in Writers, pc[w] = "sod_ack"
    PROVE  start_buf[w] \in Int /\ start_buf[w] > Oldest /\ start_buf[w] <= w_buf_curr
  <1>1. w \in Procs /\ IsWriter(w)
    BY DEF Procs, WriterCtl, IsWriter
  <1> QED BY <1>1 DEF Ledger, SodAt, Oldest, TypeOK, LocalType

LEMMA CountsWriter ==
    ASSUME TypeOK, Control, WriterExclusion, WriterCtl, LoopStart, Ledger, Ledger', BufCount,
           NEW w \in Writers, PlainWriter(w)
    PROVE  BufCount'
  <1> DEFINE A == Announced
  <1>1. CASE Idles(w)
    <2>1. /\ count' = count /\ w_buf_next' = w_buf_next /\ Announced' = A /\ pc[w] # "get"
          /\ \A q \in Writers : q # w => pc'[q] = pc[q]
      BY <1>1, IdleStep
    <2>2. Getting => Getting'
      BY <2>1 DEF Getting
    <2> QED BY <2>1, <2>2 DEF BufCount, Window, Oldest, Bit
  <1>2. CASE SodSet(w)
    <2>1. /\ Alone(w) /\ pc[w] = "sod_ack" /\ ~Getting
      BY <1>2, BusyAlone, GettingAlone DEF Idles
    <2>2. /\ w_buf_next' = w_buf_next
          /\ count' = [b \in Bufs |-> count[b] + WrittenSince(start_buf[w], b)]
      BY <1>2 DEF SodSet
    <2>3. start_buf[w] \in Int /\ start_buf[w] > Oldest
      BY <2>1, StartInWindow
    <2>4. /\ Announced' = A \cup (start_buf[w]..(w_buf_curr - 1))
          /\ \A k \in A : k < start_buf[w]
      BY <1>2, AnnouncedNext
    <2>5. ASSUME NEW k \in Window PROVE count'[k % NBUFS] = Bit(k \in Announced')
      <3>1. count[k % NBUFS] = Bit(k \in A)
        BY <2>1 DEF BufCount
      <3>2. count'[k % NBUFS] = Bit(k \in A) + Bit(start_buf[w] <= k /\ k < w_buf_curr)
        BY <2>2, <2>3, <3>1, SinceStart, WindowInts
      <3>3. k \in Announced' <=> k \in A \/ (start_buf[w] <= k /\ k < w_buf_curr)
        BY <2>3, <2>4, WindowInts
      <3>4. ~(k \in A /\ start_buf[w] <= k)
        BY <2>3, <2>4, WindowInts
      <3> QED BY <3>2, <3>3, <3>4 DEF Bit
    <2> QED BY <2>2, <2>5 DEF BufCount, Window, Oldest, Bit
  <1>3. CASE Publish(w)
    <2>1. Alone(w) /\ IsWriter(w) /\ pc[w] = "publish" /\ ~Getting
      BY <1>3, BusyAlone, GettingAlone DEF Idles
    <2>2. /\ w_buf_next' = w_buf_next
          /\ count' = [count EXCEPT ![w_buf_curr % NBUFS] = @ + 1]
      BY <1>3 DEF Publish
    <2>3. w_buf_curr < w_buf_next
      BY <2>1 DEF Ledger, BlocksAt
    <2>4. w_buf_curr \in Window /\ w_buf_curr \notin A
      BY <2>3, WindowInts, AnnouncedFinite DEF Window
    <2>5. Announced' = A \cup {w_buf_curr}
      BY <1>3, AnnouncedNext
    <2>6. ASSUME NEW k \in Window PROVE count'[k % NBUFS] = Bit(k \in Announced')
      <3>1. count[k % NBUFS] = Bit(k \in A)
        BY <2>1 DEF BufCount
      <3>2. CASE k = w_buf_curr
        BY <2>2, <2>4, <2>5, <3>1, <3>2, WindowInts DEF Bit, TypeOK, SyncType
      <3>3. CASE k # w_buf_curr
        <4>1. k % NBUFS # w_buf_curr % NBUFS
          BY <2>4, <3>3, WindowApart
        <4> QED BY <2>2, <2>5, <3>1, <3>3, <4>1, WindowInts DEF Bit, TypeOK, SyncType
      <3> QED BY <3>2, <3>3
    <2> QED BY <2>2, <2>6 DEF BufCount, Window, Oldest, Bit
  <1>4. CASE GetClear(w)
    <2>1. Alone(w) /\ Alone(w)' /\ Getting /\ Getting'
      BY <1>4, BusyAlone, GettingAlone, GettingAloneNext DEF Idles
    <2>2. /\ w_buf_next' = w_buf_next /\ count[w_buf_next % NBUFS] > 0
          /\ count' = count \/ count' = [count EXCEPT ![w_buf_next % NBUFS] = @ - 1]
      BY <1>4 DEF GetClear, TakeClear, wsync
    <2>3. Announced' = A
      BY <1>4, <2>1, AnnouncedNext, BusyAlone DEF Idles
    <2>4. ASSUME NEW k \in Window
          PROVE  \/ count'[k % NBUFS] = Bit(k \in A)
                 \/ k = Oldest /\ count'[k % NBUFS] = 0
      <3>1. CASE k # Oldest
        <4>1. k % NBUFS # w_buf_next % NBUFS /\ count[k % NBUFS] = Bit(k \in A)
          BY <3>1, NewestApart DEF BufCount
        <4> QED BY <2>2, <4>1, WindowInts DEF TypeOK, SyncType
      <3>2. CASE k = Oldest
        <4>1. k % NBUFS = w_buf_next % NBUFS
          BY <3>2, WindowInts
        <4>2. count[k % NBUFS] = Bit(k \in A)
          BY <2>2, <4>1 DEF BufCount
        <4>3. count'[k % NBUFS] = count[k % NBUFS] \/ count'[k % NBUFS] = 0
          BY <2>2, <4>1, <4>2, WindowInts DEF Bit, TypeOK, SyncType
        <4> QED BY <3>2, <4>2, <4>3
      <3> QED BY <3>1, <3>2
    <2> QED BY <2>1, <2>2, <2>3, <2>4 DEF BufCount, Window, Oldest, Bit
  <1>5. CASE GetDone(w)
    <2>1. /\ w_buf_next' = w_buf_next + 1 /\ count' = count /\ count[w_buf_next % NBUFS] = 0
          /\ pc[w] = "get"
      BY <1>5 DEF GetDone
    <2>2. Announced' = A
      BY <2>1, AnnouncedNext DEF SodSet, Publish
    <2>3. w_buf_next \notin A
      BY AnnouncedFinite, WindowInts
    <2>4. ASSUME NEW k \in Window' PROVE count'[k % NBUFS] = Bit(k \in A)
      <3>1. k \in Int /\ k <= w_buf_next /\ k > Oldest
        BY <2>1, <2>4, WindowInts DEF Window, Oldest
      <3>2. CASE k = w_buf_next
        BY <2>1, <2>3, <3>2 DEF Bit
      <3>3. CASE k < w_buf_next
        <4>1. k \in Window /\ k # Oldest
          BY <3>1, <3>3, WindowInts DEF Window
        <4> QED BY <2>1, <4>1 DEF BufCount
      <3> QED BY <3>1, <3>2, <3>3, WindowInts
    <2> QED BY <2>2, <2>4 DEF BufCount, Bit
  <1> QED BY <1>1, <1>2, <1>3, <1>4, <1>5 DEF Idles

LEMMA CountsReader ==
    ASSUME BufCount, WriterStill
    PROVE  BufCount'
  <1>1. UNCHANGED <<w_buf_next, count>> /\ Announced' = Announced
    BY ReaderLeavesBlocks DEF WriterStill, wsync
  <1>2. Getting' <=> Getting
    BY DEF WriterStill, Getting
  <1> QED BY <1>1, <1>2 DEF BufCount, Window, Oldest, Bit

-----------------------------------------------------------------------------
(* The account of CLEAR.                                                   *)

\* A step of the writer leaves what the readers have passed.
LEMMA PassedWriter ==
    ASSUME TypeOK, Control, WriterExclusion, WriterCtl, Ledger, Ledger', Positions,
           NEW w \in Writers, PlainWriter(w), NEW s \in Slots
    PROVE  Passed(s)' = Passed(s)
  <1>1. CountBelow(Announced, r_bufs[s])' = CountBelow(Announced, r_bufs[s])
    BY GrowthBelow
  <1>2. Cleared(s)' <=> Cleared(s)
    BY WriterLeavesReaders DEF ReaderStill, Cleared
  <1> QED BY <1>1, <1>2 DEF Passed, Bit

\* A step of a reader adds to it when it gives a block back.
LEMMA PassedMore ==
    ASSUME TypeOK, Ledger, SodCount, WriterStill, NEW s \in Slots, Position(s),
           SlotStill(s) \/ SlotMoves(s)
    PROVE  /\ Passed(s)' = Passed(s) + (CLEAR'[s] - CLEAR[s])
           /\ CLEAR'[s] \in {CLEAR[s], CLEAR[s] + 1} /\ Passed(s) \in Nat
  <1>1. CountBelow(Announced, r_bufs[s])'
             = CountBelow(Announced, r_bufs[s]) + Bit(MovesOn(s) \/ EndsXfer(s))
    BY PassedReader, ReaderLeavesBlocks
  <1>2. CLEAR[s] \in Nat /\ CountBelow(Announced, r_bufs[s]) \in Nat
    BY SodInts, ToldInts
  <1>3. Passed(s)' = CountBelow(Announced, r_bufs[s])' + Bit(Cleared(s)')
    BY DEF Passed, Bit
  <1>4. CASE SlotStill(s) /\ ~MovesOn(s) /\ ~EndsXfer(s)
    BY <1>1, <1>2, <1>3, <1>4 DEF SlotStill, Passed, Bit
  <1>5. CASE TakesBlock(s)
    BY <1>1, <1>2, <1>3, <1>5 DEF TakesBlock, MovesOn, EndsXfer, Passed, Bit
  <1>6. CASE FindsStart(s)
    BY <1>1, <1>2, <1>3, <1>6 DEF FindsStart, MovesOn, EndsXfer, Passed, Bit
  <1>7. CASE GivesBack(s)
    BY <1>1, <1>2, <1>3, <1>7 DEF GivesBack, MovesOn, EndsXfer, Passed, Bit
  <1>8. CASE MovesOn(s) \/ EndsXfer(s)
    BY <1>1, <1>2, <1>3, <1>8 DEF MovesOn, EndsXfer, Passed, Bit
  <1> QED BY <1>4, <1>5, <1>6, <1>7, <1>8 DEF SlotMoves

LEMMA ClearReader ==
    ASSUME TypeOK, Ledger, SodCount, Positions, ClearCount, WriterStill,
           \A s \in Slots : SlotStill(s) \/ SlotMoves(s)
    PROVE  ClearCount'
  <1> SUFFICES ASSUME NEW s \in Slots
               PROVE  CLEAR'[s] + CountBelow(Announced, Oldest)'
                        + Bit(Oldest \in Announced /\ Freeing(s))' = Passed(s)'
    BY DEF ClearCount
  <1>1. UNCHANGED <<w_buf_next, count>> /\ Announced' = Announced
    BY ReaderLeavesBlocks DEF WriterStill, wsync
  <1>2. Freeing(s)' <=> Freeing(s)
    BY DEF WriterStill, Freeing, Freed, wsync
  <1>3. CountBelow(Announced, Oldest)' = CountBelow(Announced, Oldest)
        /\ Bit(Oldest \in Announced /\ Freeing(s))' = Bit(Oldest \in Announced /\ Freeing(s))
    BY <1>1, <1>2 DEF Oldest, Bit, CountBelow, Below
  <1>4. /\ Passed(s)' = Passed(s) + (CLEAR'[s] - CLEAR[s])
        /\ CLEAR'[s] \in {CLEAR[s], CLEAR[s] + 1} /\ Passed(s) \in Nat
    BY PassedMore DEF Positions
  <1>5. CLEAR[s] + CountBelow(Announced, Oldest) + Bit(Oldest \in Announced /\ Freeing(s))
          = Passed(s)
    BY DEF ClearCount
  <1>6. CLEAR[s] \in Nat /\ CountBelow(Announced, Oldest) \in Nat
    BY SodInts, AnnouncedFinite, BelowFinite
  <1> QED BY <1>3, <1>4, <1>5, <1>6 DEF Bit

\* Blocks that are added are not before the window.
LEMMA GrowthBeforeWindow ==
    ASSUME TypeOK, Control, WriterExclusion, WriterCtl, Ledger, Ledger',
           NEW w \in Writers, PlainWriter(w), NEW k \in Int, k <= Oldest
    PROVE  /\ CountBelow(Announced', k) = CountBelow(Announced, k)
           /\ k < w_buf_curr => (k \in Announced' <=> k \in Announced)
  <1> DEFINE A == Announced
  <1>1. (\A j \in A : j \in Int) /\ w_buf_curr \in Int /\ Oldest \in Int /\ Oldest <= w_buf_curr
    BY AnnouncedFinite, WindowInts
  <1>2. CASE SodSet(w)
    <2>1. Announced' = A \cup (start_buf[w]..(w_buf_curr - 1))
      BY <1>2, AnnouncedNext
    <2>2. start_buf[w] \in Int /\ start_buf[w] > Oldest
      BY <1>2, StartInWindow DEF SodSet
    <2>3. /\ A \subseteq Announced' /\ \A j \in Announced' : j \in Int
          /\ \A j \in Announced' : j \in A \/ k <= j
          /\ k \in Announced' => k \in A
      BY <1>1, <2>1, <2>2
    <2> QED BY <2>3, BelowGrows
  <1>3. CASE Publish(w)
    <2>1. Announced' = A \cup {w_buf_curr}
      BY <1>3, AnnouncedNext
    <2>2. /\ A \subseteq Announced' /\ \A j \in Announced' : j \in Int
          /\ \A j \in Announced' : j \in A \/ k <= j
          /\ k < w_buf_curr /\ k \in Announced' => k \in A
      BY <1>1, <2>1
    <2> QED BY <2>2, BelowGrows
  <1>4. CASE ~SodSet(w) /\ ~Publish(w)
    BY <1>4, AnnouncedNext
  <1> QED BY <1>2, <1>3, <1>4
LEMMA ClearWriter ==
    ASSUME TypeOK, TypeOK', Control, WriterExclusion, WriterCtl, LoopStart, Ledger, Ledger',
           Positions, BufCount, ClearCount, NEW w \in Writers, PlainWriter(w)
    PROVE  ClearCount'
  <1> DEFINE A == Announced
  <1> SUFFICES ASSUME NEW s \in Slots
               PROVE  CLEAR'[s] + CountBelow(Announced, Oldest)'
                        + Bit(Oldest \in Announced /\ Freeing(s))' = Passed(s)'
    BY DEF ClearCount
  <1>1. CLEAR[s] + CountBelow(A, Oldest) + Bit(Oldest \in A /\ Freeing(s)) = Passed(s)
    BY DEF ClearCount
  <1>2. Passed(s)' = Passed(s)
    BY PassedWriter
  <1>3. CLEAR[s] \in Nat /\ CountBelow(A, Oldest) \in Nat /\ Oldest \in Int
        /\ IsFiniteSet(A) /\ \A j \in A : j \in Int
    BY SodInts, AnnouncedFinite, BelowFinite, WindowInts
  <1>4. CountBelow(Announced', Oldest) = CountBelow(A, Oldest)
    BY <1>3, GrowthBeforeWindow
  <1>5. CountBelow(Announced, Oldest)' = CountBelow(Announced', Oldest')
    BY DEF CountBelow, Below
  <1>6. s \in 0..(NREADERS - 1) /\ NREADERS \in Nat /\ NREADERS > 0
    BY SizesAssumption DEF Slots
  <1>7. Oldest \in Window
    BY WindowInts DEF Window, Oldest
  <1>8. CASE Idles(w)
    <2>1. /\ count' = count /\ CLEAR' = CLEAR /\ w_buf_next' = w_buf_next
          /\ Announced' = A /\ pc[w] # "get" /\ (pc'[w] = "get" => i'[w] = 0)
          /\ \A q \in Writers : q # w => pc'[q] = pc[q] /\ i'[q] = i[q]
      BY <1>8, IdleStep
    <2>2. Oldest' = Oldest
      BY <2>1 DEF Oldest
    <2>3. Freeing(s) => Freeing(s)'
      BY <2>1 DEF Freeing, Freed
    <2>4. Freeing(s)' /\ ~Freeing(s) => pc'[w] = "get" /\ count[w_buf_next % NBUFS] = 0
      <3>1. \A q \in Writers : q # w => (Freed(q, s)' <=> Freed(q, s))
        BY <2>1 DEF Freed
      <3>2. Freed(w, s)' => pc'[w] = "get" /\ count[w_buf_next % NBUFS] = 0
        BY <1>6, <2>1 DEF Freed
      <3> QED BY <3>1, <3>2 DEF Freeing
    <2>5. Oldest \in A /\ count[w_buf_next % NBUFS] = 0 => Getting
      BY <1>7, WindowInts DEF BufCount, Bit
    <2>6. Getting /\ pc'[w] = "get" => FALSE
      <3>1. ASSUME NEW q \in Writers, pc[q] = "get", pc'[w] = "get" PROVE FALSE
        <4>1. q # w /\ pc'[w] # pc[w] /\ w \in Procs /\ q \in Procs
          BY <2>1, <3>1 DEF Procs
        <4>3. IsWriter(w)
          BY <1>8, <2>1, <3>1, <4>1 DEF Idles, PlainWriter, WriterCtl, TypeOK,
             LocalType, IsWriter, LockWrite, Goto, LockWriteState, SetBoth, SetState,
             RelockWrite, IdleWriter, EnableEod, DisableSod, SetSoclockBuf, EnableSod,
             SodAllowed, CallEnableSod, Rewind, SodAck, Advance, SodSet, SodFull,
             SodDone, GetNextWrite, GetClear, TakeClear, GetDone, ZeroNextWrite, ZeroDone,
             MarkFilledClocked, MarkFilled, EodAck, EodSet, Publish, MarkFull
        <4>4. IsWriter(q)
          BY <3>1 DEF WriterCtl, IsWriter
        <4> QED BY <4>1, <4>3, <4>4, OneWriter
      <3> QED BY <3>1 DEF Getting
    <2>7. Bit(Oldest \in Announced /\ Freeing(s))' = Bit(Oldest \in A /\ Freeing(s))
      BY <2>1, <2>2, <2>3, <2>4, <2>5, <2>6 DEF Bit
    <2> QED BY <1>1, <1>2, <1>4, <1>5, <2>1, <2>2, <2>7
  <1>9. CASE SodSet(w) \/ Publish(w)
    <2>1. /\ Alone(w) /\ Alone(w)' /\ pc[w] # "get" /\ pc'[w] # "get"
      BY <1>9, BusyAlone DEF Idles
    <2>2. ~Freeing(s) /\ ~Freeing(s)'
      BY <2>1, GettingAlone, GettingAloneNext DEF Freed
    <2>3. CLEAR' = CLEAR /\ Oldest' = Oldest
      BY <1>9 DEF SodSet, Publish, datasem, Oldest
    <2>4. Bit(Oldest \in Announced /\ Freeing(s))' = 0
          /\ Bit(Oldest \in A /\ Freeing(s)) = 0
      BY <2>2 DEF Bit
    <2> QED BY <1>1, <1>2, <1>4, <1>5, <2>3, <2>4
  <1>10. CASE GetClear(w)
    <2>1. /\ Alone(w) /\ Alone(w)' /\ pc[w] = "get" /\ pc'[w] = "get" /\ w \in Procs
      BY <1>10, BusyAlone DEF Idles
    <2>2. /\ w_buf_next' = w_buf_next /\ count[w_buf_next % NBUFS] > 0
          /\ CLEAR[i[w]] > 0 /\ CLEAR' = [CLEAR EXCEPT ![i[w]] = @ - 1]
          /\ \/ i[w] < NREADERS - 1 /\ i' = [i EXCEPT ![w] = @ + 1] /\ count' = count
             \/ i[w] = NREADERS - 1 /\ count' = [count EXCEPT ![w_buf_next % NBUFS] = @ - 1]
      BY <1>10 DEF GetClear, TakeClear, Advance, wsync
    <2>3. i[w] \in 0..(NREADERS - 1) /\ i[w] \in Slots
      <3>1. i[w] \in 0..NREADERS
        BY <2>1 DEF TypeOK, LocalType
      <3>2. i[w] < NREADERS - 1 \/ i[w] = NREADERS - 1
        BY <2>2
      <3> QED BY <1>6, <3>1, <3>2 DEF Slots
    <2>4. Announced' = A /\ Oldest' = Oldest
      BY <1>10, <2>1, <2>2, AnnouncedNext DEF SodSet, Publish, Oldest
    <2>5. Oldest \in A /\ count[w_buf_next % NBUFS] = 1
      BY <1>7, <2>2, WindowInts DEF BufCount, Bit
    <2>6. Freeing(s) <=> i[w] > s
      BY <2>1, <2>5, GettingAlone DEF Freed
    <2>7. Freeing(s)' <=> i[w] >= s
      <3>1. Freeing(s)' <=> Freed(w, s)'
        BY <2>1, GettingAloneNext
      <3>2. CASE i[w] < NREADERS - 1
        <4>1. i'[w] = i[w] + 1 /\ count'[w_buf_next' % NBUFS] = 1
          BY <2>1, <2>2, <2>5, <3>2 DEF TypeOK, LocalType
        <4> QED BY <1>6, <2>1, <2>3, <3>1, <4>1 DEF Freed
      <3>3. CASE i[w] = NREADERS - 1
        <4>1. count'[w_buf_next' % NBUFS] = 0
          <5>1. count' = [count EXCEPT ![w_buf_next % NBUFS] = @ - 1]
            BY <1>6, <2>2, <3>3
          <5> QED BY <2>2, <2>5, <5>1, WindowInts DEF TypeOK, SyncType
        <4> QED BY <1>6, <2>1, <2>3, <3>1, <3>3, <4>1 DEF Freed
      <3> QED BY <2>2, <3>2, <3>3
    <2>8. Bit(Oldest \in Announced /\ Freeing(s))' = Bit(i[w] >= s)
          /\ Bit(Oldest \in A /\ Freeing(s)) = Bit(i[w] > s)
      BY <2>4, <2>5, <2>6, <2>7 DEF Bit
    <2>9. CLEAR'[s] + Bit(i[w] >= s) = CLEAR[s] + Bit(i[w] > s)
      <3>1. CASE i[w] = s
        BY <1>3, <1>6, <2>2, <3>1 DEF Bit, TypeOK, SemType
      <3>2. CASE i[w] # s
        <4>1. CLEAR'[s] = CLEAR[s]
          BY <2>2, <3>2 DEF TypeOK, SemType
        <4> QED BY <1>6, <2>3, <3>2, <4>1 DEF Bit
      <3> QED BY <3>1, <3>2
    <2>10. CLEAR'[s] \in Nat
      BY DEF TypeOK, SemType
    <2> QED BY <1>1, <1>2, <1>3, <1>4, <1>5, <2>4, <2>8, <2>9, <2>10 DEF Bit
  <1>11. CASE GetDone(w)
    <2>1. /\ Alone(w) /\ Alone(w)' /\ pc[w] = "get" /\ pc'[w] # "get"
      BY <1>11, BusyAlone DEF Idles
    <2>2. /\ w_buf_next' = w_buf_next + 1 /\ count[w_buf_next % NBUFS] = 0 /\ CLEAR' = CLEAR
      BY <1>11 DEF GetDone, datasem
    <2>3. Freeing(s) /\ ~Freeing(s)'
      BY <2>1, <2>2, GettingAlone, GettingAloneNext DEF Freed
    <2>4. Announced' = A /\ Oldest' = Oldest + 1
      BY <1>11, <2>1, <2>2, AnnouncedNext, WindowInts DEF SodSet, Publish, Oldest
    <2>5. CountBelow(A, Oldest + 1) = CountBelow(A, Oldest) + Bit(Oldest \in A)
      BY <1>3, BelowStep
    <2>6. Bit(Oldest \in Announced /\ Freeing(s))' = 0
          /\ Bit(Oldest \in A /\ Freeing(s)) = Bit(Oldest \in A)
      BY <2>3 DEF Bit
    <2> QED BY <1>1, <1>2, <1>3, <1>5, <2>2, <2>4, <2>5, <2>6 DEF Bit
  <1> QED BY <1>8, <1>9, <1>10, <1>11 DEF Idles

-----------------------------------------------------------------------------
(* The data.                                                               *)

LEMMA ClearedReads ==
    ASSUME ReaderCtl, NEW s \in Slots, Cleared(s)
    PROVE  Reading(s) /\ Inside(s)
  <1>1. PICK p \in Readers : iread[p] = s /\ pc[p] = "cleared"
    BY DEF Cleared
  <1>2. state[p] = "READING" /\ IsReader(p)
    BY <1>1 DEF ReaderCtl, IsReader
  <1> QED BY <1>1, <1>2 DEF ReaderCtl, Reading, Inside, InLabels

\* A buffer that every reader has given back is not one of an open block.
LEMMA ZeroedInTime ==
    ASSUME TypeOK, ReaderCtl, Ledger, Positions, ClearCount, NEW s \in Slots, CLEAR[s] > 0
    PROVE  /\ Oldest < w_buf_curr
           /\ CountBelow(Announced, Oldest) < Passed(s)
  <1> DEFINE A == Announced
             r == r_bufs[s]
  <1>1. CLEAR[s] + CountBelow(A, Oldest) + Bit(Oldest \in A /\ Freeing(s)) = Passed(s)
    BY DEF ClearCount
  <1>2. CLEAR[s] \in Nat /\ CountBelow(A, Oldest) \in Nat /\ CountBelow(A, r) \in Nat
        /\ CountBelow(A, r) <= Cardinality(A) /\ Cardinality(A) \in Nat /\ r \in Int
    BY SodInts, AnnouncedFinite, BelowFinite
  <1>3. CountBelow(A, Oldest) < Passed(s)
    BY <1>1, <1>2 DEF Bit, Passed
  <1>4. Passed(s) <= Cardinality(A)
    <2>1. CASE Cleared(s)
      <3>1. r \in A
        BY <2>1, ClearedReads, HoldsAnnounced DEF Positions
      <3>2. CountBelow(A, r) < CountBelow(A, w_buf_curr)
        BY <3>1, AnnouncedFinite, WindowInts, BelowStrict
      <3>3. CountBelow(A, w_buf_curr) <= Cardinality(A) /\ CountBelow(A, w_buf_curr) \in Nat
        BY AnnouncedFinite, BelowFinite
      <3> QED BY <1>2, <3>2, <3>3 DEF Passed, Bit
    <2>2. CASE ~Cleared(s)
      BY <1>2, <2>2 DEF Passed, Bit
    <2> QED BY <2>1, <2>2
  <1>5. Oldest # w_buf_curr
    <2>1. ASSUME Oldest = w_buf_curr PROVE FALSE
      <3>1. CountBelow(A, Oldest) = Cardinality(A)
        BY <2>1, AnnouncedFinite, WindowInts, BelowAll
      <3> QED BY <1>2, <1>3, <1>4, <3>1 DEF Passed, Bit
    <2> QED BY <2>1
  <1> QED BY <1>3, <1>5, WindowInts

LEMMA DataWriter ==
    ASSUME TypeOK, Control, WriterExclusion, WriterCtl, ReaderCtl, LoopStart, Ledger, Ledger',
           Positions, ClearCount, DataKept, NEW w \in Writers, PlainWriter(w)
    PROVE  DataKept'
  <1> DEFINE A == Announced
  <1>1. CASE GetDone(w)
    <2>1. /\ w_buf_next' = w_buf_next + 1
          /\ data' = [data EXCEPT ![w_buf_next % NBUFS] = w_buf_next]
      BY <1>1 DEF GetDone
    <2>2. ASSUME NEW k \in Window', k >= 0 PROVE data'[k % NBUFS] = k
      <3>1. k \in Int /\ k <= w_buf_next /\ k > Oldest
        BY <2>1, <2>2, WindowInts DEF Window, Oldest
      <3>2. CASE k = w_buf_next
        BY <2>1, <3>2, WindowInts DEF TypeOK, SyncType
      <3>3. CASE k < w_buf_next
        <4>1. k \in Window /\ k # Oldest
          BY <3>1, <3>3, WindowInts DEF Window
        <4>2. k % NBUFS # w_buf_next % NBUFS
          BY <4>1, NewestApart
        <4>3. data[k % NBUFS] = k
          BY <2>2, <4>1 DEF DataKept
        <4> QED BY <2>1, <4>1, <4>2, <4>3, WindowInts DEF TypeOK, SyncType
      <3> QED BY <3>1, <3>2, <3>3, WindowInts
    <2> QED BY <2>2 DEF DataKept
  <1>2. CASE ZeroDone(w)
    <2>1. /\ w_buf_next' = w_buf_next /\ w_buf_curr' = w_buf_curr
          /\ data' = [data EXCEPT ![w_buf_next % NBUFS] = -1]
          /\ \A s \in Slots : CLEAR[s] > 0
      BY <1>2 DEF ZeroDone, wsync
    <2>2. Announced' = A
      <3>1. ~SodSet(w) /\ ~Publish(w)
        BY <1>2 DEF ZeroDone, SodSet, Publish
      <3> QED BY <3>1, AnnouncedNext
    <2>3. \A s \in Slots : Passed(s)' = Passed(s)
      BY PassedWriter
    <2>4. \A s \in Slots : Oldest < w_buf_curr /\ CountBelow(A, Oldest) < Passed(s)
      BY <2>1, ZeroedInTime
    <2>5. Oldest < w_buf_curr
      <3>1. 0 \in Slots
        BY SizesAssumption DEF Slots
      <3> QED BY <2>4, <3>1
    <2>6. ASSUME NEW k \in Window, k >= 0
          PROVE  \/ data'[k % NBUFS] = k
                 \/ /\ k = Oldest /\ k < w_buf_curr
                    /\ k \in A => \A s \in Slots : CountBelow(A, k) < Passed(s)
      <3>1. CASE k = Oldest
        BY <2>4, <2>5, <3>1
      <3>2. CASE k # Oldest
        <4>1. k % NBUFS # w_buf_next % NBUFS
          BY <3>2, NewestApart
        <4>2. data[k % NBUFS] = k
          BY <2>6, <3>2 DEF DataKept
        <4> QED BY <2>1, <4>1, <4>2, WindowInts DEF TypeOK, SyncType
      <3> QED BY <3>1, <3>2
    <2>7. Window' = Window /\ Oldest' = Oldest
      BY <2>1 DEF Window, Oldest
    <2> QED BY <2>1, <2>2, <2>3, <2>6, <2>7 DEF DataKept, CountBelow, Below
  <1>3. CASE ~GetDone(w) /\ ~ZeroDone(w)
    <2>1. data' = data /\ w_buf_next' = w_buf_next
      BY <1>3 DEF PlainWriter, LockWrite, Goto, LockWriteState, SetBoth, SetState,
         RelockWrite, IdleWriter, EnableEod, DisableSod, SetSoclockBuf, EnableSod,
         SodAllowed, CallEnableSod, Rewind, SodAck, Advance, SodSet, SodFull, SodDone,
         GetNextWrite, GetClear, TakeClear, GetDone, ZeroNextWrite, ZeroDone, MarkFilledClocked,
         MarkFilled, EodAck, EodSet, Publish, MarkFull, wsync, hist
    <2>2. w_buf_curr' >= w_buf_curr /\ w_buf_curr' \in Int /\ w_buf_curr \in Int
      BY WrittenNext, LedgerInts
    <2>3. \A s \in Slots : Passed(s)' = Passed(s)
      BY PassedWriter
    <2>4. Window' = Window /\ Oldest' = Oldest
      BY <2>1 DEF Window, Oldest
    <2>5. Oldest \in Int
      BY WindowInts
    <2>6. CountBelow(Announced', Oldest) = CountBelow(A, Oldest)
          /\ (Oldest < w_buf_curr => (Oldest \in Announced' <=> Oldest \in A))
      BY <2>5, GrowthBeforeWindow
    <2>7. ASSUME NEW k \in Window, k >= 0
          PROVE  \/ data'[k % NBUFS] = k
                 \/ /\ k = Oldest /\ k < w_buf_curr'
                    /\ k \in Announced' => \A s \in Slots : CountBelow(Announced', k) < Passed(s)'
      BY <2>1, <2>2, <2>3, <2>5, <2>6, <2>7 DEF DataKept
    <2> QED BY <2>4, <2>7 DEF DataKept, CountBelow, Below
  <1> QED BY <1>1, <1>2, <1>3

LEMMA DataReader ==
    ASSUME TypeOK, Ledger, SodCount, Positions, DataKept, WriterStill,
           \A s \in Slots : SlotStill(s) \/ SlotMoves(s)
    PROVE  DataKept'
  <1>1. UNCHANGED <<w_buf_next, w_buf_curr, data>> /\ Announced' = Announced
    BY ReaderLeavesBlocks DEF WriterStill, wsync, hist
  <1>2. ASSUME NEW s \in Slots PROVE Passed(s)' >= Passed(s) /\ Passed(s) \in Int /\ Passed(s)' \in Int
    <2>1. /\ Passed(s)' = Passed(s) + (CLEAR'[s] - CLEAR[s])
          /\ CLEAR'[s] \in {CLEAR[s], CLEAR[s] + 1} /\ Passed(s) \in Nat
      BY PassedMore DEF Positions
    <2> QED BY <2>1, SodInts
  <1>3. \A k \in Window : CountBelow(Announced, k) \in Int
    BY AnnouncedFinite, BelowFinite
  <1>4. Window' = Window /\ Oldest' = Oldest
    BY <1>1 DEF Window, Oldest
  <1>5. ASSUME NEW k \in Window, k >= 0
        PROVE  \/ data[k % NBUFS] = k
               \/ /\ k = Oldest /\ k < w_buf_curr
                  /\ k \in Announced => \A s \in Slots : CountBelow(Announced, k) < Passed(s)'
    BY <1>2, <1>3, <1>5 DEF DataKept
  <1> QED BY <1>1, <1>4, <1>5 DEF DataKept, CountBelow, Below

\* The accounts say that the block a reader holds is in its buffer.
LEMMA AccountsKeepBlock ==
    ASSUME TypeOK, Control, SlotInv, ReaderCtl, Ledger, Positions, ClearCount, DataKept
    PROVE  BlockIntact
  <1> DEFINE A == Announced
  <1> SUFFICES ASSUME NEW p \in Readers, HoldsBlock(p)
               PROVE  LET r == r_bufs[iread[p]]
                      IN  r < w_buf_curr /\ data[r % NBUFS] = r
    BY DEF BlockIntact
  <1> DEFINE s == iread[p]
             r == r_bufs[iread[p]]
  <1>1. pc[p] \in {"bytes", "have"} /\ s \in Slots /\ state[p] = "READING"
    BY DEF HoldsBlock, ReaderCtl, Control, SlotLabels
  <1>2. Reading(s) /\ Inside(s) /\ ~Cleared(s)
    <2>1. Reading(s)
      BY <1>1 DEF ReaderCtl, IsReader, Reading
    <2>2. Inside(s)
      BY <1>1 DEF Inside, InLabels
    <2>3. ~Cleared(s)
      BY <1>1, OneReader DEF Cleared
    <2> QED BY <2>1, <2>2, <2>3
  <1>3. r \in A
    BY <1>1, <1>2, HoldsAnnounced DEF Positions
  <1>4. r < w_buf_curr /\ r >= 0 /\ r \in Int
    BY <1>3, AnnouncedFinite
  <1>5. Passed(s) = CountBelow(A, r) /\ CountBelow(A, r) \in Nat
    BY <1>1, <1>2, AnnouncedFinite, BelowFinite DEF Passed, Bit
  <1>6. r >= Oldest
    <2>1. ASSUME r < Oldest PROVE FALSE
      <3>1. CountBelow(A, r) < CountBelow(A, Oldest)
        BY <1>3, <2>1, AnnouncedFinite, WindowInts, BelowStrict
      <3>2. CLEAR[s] + CountBelow(A, Oldest) + Bit(Oldest \in A /\ Freeing(s)) = Passed(s)
        BY <1>1 DEF ClearCount
      <3>3. CLEAR[s] \in Nat /\ CountBelow(A, Oldest) \in Nat
        BY <1>1, SodInts, AnnouncedFinite, BelowFinite
      <3> QED BY <1>5, <3>1, <3>2, <3>3 DEF Bit
    <2> QED BY <1>4, <2>1, WindowInts
  <1>7. r \in Window
    BY <1>4, <1>6, WindowInts DEF Window
  <1>8. data[r % NBUFS] = r
    BY <1>1, <1>3, <1>4, <1>5, <1>7 DEF DataKept
  <1> QED BY <1>4, <1>8
-----------------------------------------------------------------------------
(* The bytes.                                                              *)

\* Where in its block the data of the transfer starts, for the reader p, and how
\* many bytes of it there are.
FirstByte(p) ==
    LET t == xlog[r_xfers[iread[p]]] IN IF r_bufs[iread[p]] = t.sb THEN t.sy ELSE 0
LastByte(p) ==
    LET t == xlog[r_xfers[iread[p]]] IN IF r_bufs[iread[p]] = t.eb THEN t.ey ELSE BUFSZ

BytesAt(p) ==
    /\ pc[p] \in {"bytes", "have"} => start_byte[p] = FirstByte(p)
    /\ pc[p] = "have" => nbytes[p] = LastByte(p) - FirstByte(p)
    /\ state[p] = "READING" /\ pc[p] = "idle" =>
         xlog[r_xfers[iread[p]]].sb < r_bufs[iread[p]]
    /\ pc[p] \notin {"bytes", "have"} => start_byte[p] = 0
BytesInv == \A p \in Readers : BytesAt(p)

\* What the accounts say of a reader in a transfer.
LEMMA ReaderInXfer ==
    ASSUME TypeOK, Control, ReaderCtl, Ledger, Positions, NEW p \in Readers,
           state[p] = "READING"
    PROVE  /\ iread[p] \in Slots /\ Reading(iread[p])
           /\ r_xfers[iread[p]] \in 0..w_xfer /\ r_xfers[iread[p]] \in 0..MaxXfer
           /\ r_bufs[iread[p]] \in Nat
           /\ Started(r_xfers[iread[p]]) /\ xlog[r_xfers[iread[p]]].sb <= r_bufs[iread[p]]
           /\ xlog[r_xfers[iread[p]]].eb # -1 =>
                /\ r_xfers[iread[p]] < w_xfer
                /\ r_bufs[iread[p]] <= xlog[r_xfers[iread[p]]].eb
           /\ pc[p] \in InLabels => r_bufs[iread[p]] < w_buf_curr
  <1> DEFINE s == iread[p]
             x == r_xfers[iread[p]]
  <1>1. s \in Slots /\ Reading(s)
    BY DEF Control, IsReader, ReaderCtl, Reading
  <1>2. Position(s)
    BY <1>1 DEF Positions
  <1>3. x \in Nat /\ w_xfer \in 0..MaxXfer /\ MaxXfer \in Nat /\ r_bufs[s] \in Nat
    BY <1>1, LedgerInts, SodInts
  <1>4. x \in 0..w_xfer /\ x \in 0..MaxXfer
    BY <1>2, <1>3 DEF Position
  <1>5. /\ Started(x) /\ xlog[x].sb <= r_bufs[s]
        /\ xlog[x].eb # -1 => r_bufs[s] <= xlog[x].eb
        /\ Inside(s) => r_bufs[s] < w_buf_curr
    BY <1>1, <1>2 DEF Position
  <1>6. xlog[x].eb # -1 => x < w_xfer
    BY <1>3, <1>4, <1>5 DEF Ledger, XlogInv, CurrentXfer
  <1>7. pc[p] \in InLabels => Inside(s)
    BY DEF Inside
  <1> QED BY <1>1, <1>3, <1>4, <1>5, <1>6, <1>7

LEMMA BytesWriter ==
    ASSUME TypeOK, Control, ReaderCtl, Ledger, Positions, Grows, ReaderStill, BytesInv
    PROVE  BytesInv'
  <1> SUFFICES ASSUME NEW p \in Readers PROVE BytesAt(p)'
    BY DEF BytesInv
  <1>1. /\ UNCHANGED <<r_bufs, r_xfers>> /\ pc'[p] = pc[p] /\ state'[p] = state[p]
        /\ iread'[p] = iread[p] /\ start_byte'[p] = start_byte[p] /\ nbytes'[p] = nbytes[p]
    BY DEF ReaderStill, rsync
  <1>2. BytesAt(p)
    BY DEF BytesInv
  <1> DEFINE x == r_xfers[iread[p]]
             r == r_bufs[iread[p]]
  <1>3. CASE state[p] = "READING"
    <2>1. /\ x \in 0..w_xfer /\ x \in 0..MaxXfer /\ r \in Nat /\ Started(x)
          /\ xlog[x].eb # -1 => x < w_xfer
          /\ pc[p] \in InLabels => r < w_buf_curr
      BY <1>3, ReaderInXfer
    <2>2. xlog'[x].sb = xlog[x].sb /\ xlog'[x].sy = xlog[x].sy
      BY <2>1 DEF Grows
    <2>3. FirstByte(p)' = FirstByte(p)
      BY <1>1, <2>2 DEF FirstByte
    <2>4. pc[p] = "have" => LastByte(p)' = LastByte(p)
      <3>1. CASE x < w_xfer
        <4>1. xlog'[x].eb = xlog[x].eb /\ xlog'[x].ey = xlog[x].ey
          BY <2>1, <3>1 DEF Grows
        <4> QED BY <1>1, <4>1 DEF LastByte
      <3>2. CASE x = w_xfer
        <4>1. xlog[x].eb = -1 /\ xlog'[x].eb \in {-1, w_buf_curr}
          BY <2>1, <3>2 DEF Grows
        <4>2. pc[p] = "have" => r < w_buf_curr
          BY <2>1 DEF InLabels
        <4>3. r # -1 /\ (pc[p] = "have" => r # w_buf_curr)
          BY <2>1, <4>2
        <4> QED BY <1>1, <4>1, <4>3 DEF LastByte
      <3> QED BY <2>1, <3>1, <3>2, LedgerInts
    <2> QED BY <1>1, <1>2, <2>2, <2>3, <2>4 DEF BytesAt
  <1>4. CASE state[p] # "READING"
    <2>1. pc[p] \notin {"bytes", "have"}
      BY <1>4 DEF ReaderCtl
    <2> QED BY <1>1, <1>2, <1>4, <2>1 DEF BytesAt
  <1> QED BY <1>3, <1>4

\* A step of a reader leaves the others alone.
LEMMA OtherReaders ==
    ASSUME TypeOK, Control, SlotInv, ReaderCtl, NEW w \in Readers, PlainReader(w),
           NEW q \in Readers, q # w
    PROVE  /\ pc'[q] = pc[q] /\ state'[q] = state[q] /\ iread'[q] = iread[q]
           /\ start_byte'[q] = start_byte[q] /\ nbytes'[q] = nbytes[q]
           /\ iread[q] \in Slots =>
                /\ r_bufs'[iread[q]] = r_bufs[iread[q]]
                /\ r_xfers'[iread[q]] = r_xfers[iread[q]]
  <1>0. q \in Procs /\ w \in Procs
    BY DEF Procs
  <1>1. /\ pc'[q] = pc[q] /\ state'[q] = state[q] /\ iread'[q] = iread[q]
        /\ start_byte'[q] = start_byte[q] /\ nbytes'[q] = nbytes[q]
    BY <1>0 DEF PlainReader, TypeOK, HandleType, LocalType, LockRead, Goto,
       LockReadOrder, LockReadTry, Rewind, LockReadSkip, Advance, LockReadFail,
       LockReadState, SetState, GetNextRead, IdleReader, SodInc, ReadBytes, MarkCleared,
       ClearedNext, ClearedEod, ResetRead, handle, args
  <1>2. iread[q] \in Slots => iread[w] # iread[q]
    BY OneReader
  <1>3. \A t \in Slots : t # iread[w] => r_bufs'[t] = r_bufs[t] /\ r_xfers'[t] = r_xfers[t]
    BY DEF PlainReader, TypeOK, ReadersType, LockRead, Goto, LockReadOrder, LockReadTry,
       Rewind, LockReadSkip, Advance, LockReadFail, LockReadState, SetState,
       GetNextRead, IdleReader, SodInc, ReadBytes, MarkCleared, ClearedNext, ClearedEod,
       ResetRead, rsync
  <1> QED BY <1>1, <1>2, <1>3

LEMMA BytesReader ==
    ASSUME TypeOK, Control, SlotInv, ReaderCtl, Ledger, SodCount, EodCount, Positions,
           WriterStill, BytesInv, NEW w \in Readers, PlainReader(w)
    PROVE  BytesInv'
  <1>0. w \in Procs /\ xlog' = xlog
    BY DEF Procs, WriterStill, hist
  <1>1. ASSUME NEW q \in Readers, q # w PROVE BytesAt(q)'
    <2>1. BytesAt(q)
      BY DEF BytesInv
    <2>2. /\ pc'[q] = pc[q] /\ state'[q] = state[q] /\ iread'[q] = iread[q]
          /\ start_byte'[q] = start_byte[q] /\ nbytes'[q] = nbytes[q]
          /\ iread[q] \in Slots =>
               /\ r_bufs'[iread[q]] = r_bufs[iread[q]]
               /\ r_xfers'[iread[q]] = r_xfers[iread[q]]
      BY <1>1, OtherReaders
    <2>3. state[q] = "READING" => iread[q] \in Slots
      BY DEF Control, IsReader
    <2>4. pc[q] \in {"bytes", "have"} => state[q] = "READING"
      BY DEF ReaderCtl
    <2> QED BY <1>0, <2>1, <2>2, <2>3, <2>4 DEF BytesAt, FirstByte, LastByte
  <1> DEFINE s == iread[w]
             x == r_xfers[iread[w]]
             r == r_bufs[iread[w]]
  <1>2. BytesAt(w)
    BY DEF BytesInv
  <1>i. \A z \in 0..MaxXfer : /\ xlog[z].sb \in Int /\ xlog[z].sy \in Int
                              /\ xlog[z].eb \in Int /\ xlog[z].ey \in Int
    BY LedgerInts
  <1>3. ASSUME GetNextRead(w)
        PROVE  BytesAt(w)'
    <2>1. /\ pc[w] = "idle" /\ state' = state /\ start_byte' = start_byte
          /\ UNCHANGED <<r_bufs, r_xfers, iread>>
          /\ pc'[w] = IF state[w] = "READER" THEN "sod_inc" ELSE "bytes"
          /\ state[w] # "READER" => state[w] = "READING"
      BY <1>0, <1>3 DEF GetNextRead, IdleReader, IsReader, Goto, TypeOK, LocalType,
                        rsync, handle, args
    <2>2. state[w] = "READING" =>
            /\ x \in 0..MaxXfer /\ r \in Nat /\ xlog[x].sb < r
      BY <1>2, <2>1, ReaderInXfer DEF BytesAt
    <2>3. state[w] = "READING" => FirstByte(w)' = 0
      BY <1>0, <1>i, <2>1, <2>2 DEF FirstByte
    <2> QED BY <1>2, <2>1, <2>3 DEF BytesAt
  <1>4. ASSUME SodInc(w)
        PROVE  BytesAt(w)'
    <2>1. /\ pc[w] = "sod_inc" /\ state[w] = "READER" /\ s \in Slots
      BY <1>4 DEF SodInc, ReaderCtl, Control, SlotLabels
    <2>2. ~Reading(s) /\ Inside(s)
      BY <2>1 DEF ReaderCtl, IsReader, Reading, Inside, InLabels
    <2>3. Started(x) /\ x <= w_xfer
      BY <2>1, <2>2 DEF Positions, Position
    <2>4. s_buf[x % XFERS] = xlog[x].sb /\ s_byte[x % XFERS] = xlog[x].sy
      BY <2>1, <2>2, <2>3, SodWindow
    <2>5. /\ pc'[w] = "bytes" /\ start_byte'[w] = s_byte[x % XFERS]
          /\ r_bufs'[s] = s_buf[x % XFERS] /\ r_xfers' = r_xfers /\ iread' = iread
      BY <1>0, <1>4, <2>1 DEF SodInc, Goto, TypeOK, LocalType, ReadersType
    <2>6. start_byte'[w] = FirstByte(w)'
      BY <1>0, <2>4, <2>5 DEF FirstByte
    <2> QED BY <2>5, <2>6 DEF BytesAt
  <1>5. ASSUME ReadBytes(w)
        PROVE  BytesAt(w)'
    <2>1. /\ pc[w] = "bytes" /\ state[w] = "READING" /\ s \in Slots
      BY <1>5 DEF ReadBytes, ReaderCtl, Control, SlotLabels
    <2>2. /\ x \in 0..w_xfer /\ x \in 0..MaxXfer /\ r \in Nat /\ Started(x) /\ xlog[x].sb <= r
          /\ xlog[x].eb # -1 => x < w_xfer
      BY <2>1, ReaderInXfer
    <2>3. xfer[w] = x % XFERS
      BY <2>1 DEF ReaderCtl
    <2>4. AtEod(w) <=> r = xlog[x].eb
      <3>1. CASE x < w_xfer
        <4>1. e_buf[x % XFERS] = xlog[x].eb /\ eod[x % XFERS] = 1
          BY <2>1, <2>2, <3>1, EodWindow DEF Ledger, FlagsInv
        <4> QED BY <2>3, <4>1 DEF AtEod
      <3>2. CASE x = w_xfer
        <4>1. xlog[x].eb = -1
          BY <2>2, <3>2 DEF Ledger, XlogInv, CurrentXfer
        <4>2. eod[x % XFERS] = 0 \/ e_buf[x % XFERS] < xlog[x].sb
          BY <2>2, <3>2 DEF Ledger, FlagsInv
        <4> QED BY <1>i, <2>2, <2>3, <4>1, <4>2 DEF AtEod
      <3> QED BY <2>2, <3>1, <3>2, LedgerInts
    <2>5. AtEod(w) => e_byte[xfer[w]] = xlog[x].ey /\ EndedXfer(x)
      <3>1. r = xlog[x].eb => x < w_xfer
        BY <2>2
      <3>2. x < w_xfer => e_byte[x % XFERS] = xlog[x].ey /\ EndedXfer(x)
        BY <2>1, <2>2, EodWindow DEF Ledger, FlagsInv, XlogInv
      <3> QED BY <2>3, <2>4, <3>1, <3>2
    <2>6. (IF AtEod(w) THEN e_byte[xfer[w]] ELSE BUFSZ) = LastByte(w)
      BY <2>4, <2>5 DEF LastByte
    <2>7. start_byte[w] = FirstByte(w)
      BY <1>2, <2>1 DEF BytesAt
    <2>8. LastByte(w) - FirstByte(w) \in 0..BUFSZ
      <3>1. xlog[x].sy \in 0..BUFSZ /\ BUFSZ \in Nat
        BY <2>2, LedgerInts DEF Ledger, XlogInv, EndedXfer, CurrentXfer
      <3>2. r = xlog[x].eb => xlog[x].ey \in 0..BUFSZ /\ (r = xlog[x].sb => xlog[x].sy = 0)
        BY <2>4, <2>5 DEF EndedXfer
      <3> QED BY <3>1, <3>2 DEF LastByte, FirstByte
    <2>9. U64(LastByte(w) - FirstByte(w)) = LastByte(w) - FirstByte(w)
      <3> DEFINE n == LastByte(w) - FirstByte(w)
      <3>1. n \in 0..BUFSZ /\ BUFSZ < WORD /\ WORD \in Nat /\ BUFSZ \in Nat
        BY <2>8, BoundsAssumption, SizesAssumption
      <3> HIDE DEF n
      <3>2. n % WORD = n
        BY <3>1
      <3> QED BY <3>2 DEF U64, n
    <2>10. /\ pc'[w] = "have" /\ start_byte'[w] = start_byte[w] /\ UNCHANGED <<r_bufs, r_xfers, iread>>
           /\ nbytes'[w] = U64((IF AtEod(w) THEN e_byte[xfer[w]] ELSE BUFSZ) - start_byte[w])
      BY <1>0, <1>5 DEF ReadBytes, Goto, TypeOK, LocalType, rsync, handle
    <2>11. nbytes'[w] = LastByte(w) - FirstByte(w)
      BY <2>6, <2>7, <2>9, <2>10
    <2>12. FirstByte(w)' = FirstByte(w) /\ LastByte(w)' = LastByte(w)
      BY <1>0, <2>10 DEF FirstByte, LastByte
    <2> QED BY <2>7, <2>10, <2>11, <2>12 DEF BytesAt
  <1>6. ASSUME MarkCleared(w)
        PROVE  BytesAt(w)'
    <2>1. pc'[w] = "cleared" /\ start_byte'[w] = 0
      BY <1>0, <1>6 DEF MarkCleared, Goto, TypeOK, LocalType
    <2> QED BY <2>1 DEF BytesAt
  <1>7. ASSUME ClearedNext(w)
        PROVE  BytesAt(w)'
    <2>1. pc[w] = "cleared" /\ state[w] = "READING" /\ s \in Slots
      BY <1>7 DEF ClearedNext, ReaderCtl, Control, SlotLabels
    <2>2. x \in 0..MaxXfer /\ r \in Nat /\ xlog[x].sb <= r
      BY <2>1, ReaderInXfer
    <2>3. /\ pc'[w] = "idle" /\ start_byte' = start_byte /\ iread' = iread /\ r_xfers' = r_xfers
          /\ r_bufs'[s] = r + 1
      BY <1>0, <1>7, <2>1 DEF ClearedNext, Goto, TypeOK, LocalType, ReadersType, handle,
         args
    <2>4. xlog[x].sb < r + 1
      BY <1>i, <2>2
    <2> QED BY <1>0, <1>2, <2>1, <2>3, <2>4 DEF BytesAt
  <1>8. ASSUME ~GetNextRead(w) /\ ~SodInc(w) /\ ~ReadBytes(w) /\ ~MarkCleared(w) /\ ~ClearedNext(w)
        PROVE  BytesAt(w)'
    <2>1. pc[w] \notin {"bytes", "have"} /\ start_byte' = start_byte
      BY <1>8 DEF PlainReader, LockRead, Goto, LockReadOrder, LockReadTry, Rewind,
         LockReadSkip, Advance, LockReadFail, LockReadState, SetState, GetNextRead,
         IdleReader, SodInc, ReadBytes, MarkCleared, ClearedNext, ClearedEod, ResetRead,
         args
    <2>2. pc'[w] \notin {"bytes", "have"}
      BY <1>0, <1>8 DEF PlainReader, TypeOK, LocalType, LockRead, Goto, LockReadOrder,
         LockReadTry, Rewind, LockReadSkip, Advance, LockReadFail, LockReadState,
         SetState, GetNextRead, IdleReader, SodInc, ReadBytes, MarkCleared, ClearedNext,
         ClearedEod, ResetRead
    <2>3. state'[w] = "READING" => pc'[w] # "idle"
      BY <1>0, <1>8 DEF PlainReader, ReaderCtl, TypeOK, LocalType, HandleType, LockRead,
         Goto, LockReadOrder, LockReadTry, Rewind, LockReadSkip, Advance, LockReadFail,
         LockReadState, SetState, GetNextRead, IdleReader, SodInc, ReadBytes,
         MarkCleared, ClearedNext, ClearedEod, ResetRead, handle
    <2> QED BY <1>2, <2>1, <2>2, <2>3 DEF BytesAt
  <1>9. BytesAt(w)'
    BY <1>3, <1>4, <1>5, <1>6, <1>7, <1>8
  <1> QED BY <1>1, <1>9 DEF BytesInv

-----------------------------------------------------------------------------
(* What the accounts say to the readers.                                   *)

LEMMA AccountsCountBytes ==
    ASSUME TypeOK, Control, ReaderCtl, Ledger, Positions, BytesInv
    PROVE  BytesExact
  <1> SUFFICES ASSUME NEW p \in Readers, pc[p] = "have"
               PROVE  LET t == xlog[r_xfers[iread[p]]]
                          r == r_bufs[iread[p]]
                      IN  /\ t.sb # -1 /\ r >= t.sb /\ (t.eb # -1 => r <= t.eb)
                          /\ nbytes[p] = (IF r = t.eb THEN t.ey ELSE BUFSZ)
                                       - (IF r = t.sb THEN t.sy ELSE 0)
    BY DEF BytesExact
  <1>1. state[p] = "READING"
    BY DEF ReaderCtl
  <1>2. /\ Started(r_xfers[iread[p]]) /\ xlog[r_xfers[iread[p]]].sb <= r_bufs[iread[p]]
        /\ xlog[r_xfers[iread[p]]].eb # -1 => r_bufs[iread[p]] <= xlog[r_xfers[iread[p]]].eb
        /\ r_bufs[iread[p]] \in Int /\ xlog[r_xfers[iread[p]]].sb \in Int
    BY <1>1, ReaderInXfer, LedgerInts
  <1>3. nbytes[p] = LastByte(p) - FirstByte(p)
    BY DEF BytesInv, BytesAt
  <1> QED BY <1>2, <1>3 DEF LastByte, FirstByte, Started

LEMMA AccountsEndExactly ==
    ASSUME TypeOK, Control, ReaderCtl, Ledger, Positions
    PROVE  EodExact
  <1> SUFFICES ASSUME NEW p \in Readers, state[p] = "RSTOP", r_xfers[iread[p]] > 0
               PROVE  LET t == xlog[r_xfers[iread[p]] - 1]
                      IN  t.eb # -1 /\ r_bufs[iread[p]] = t.eb + 1
    BY DEF EodExact
  <1> DEFINE s == iread[p]
             x == r_xfers[iread[p]]
  <1>1. s \in Slots /\ ~Reading(s)
    BY DEF Control, IsReader, ReaderCtl, Reading
  <1>2. x <= w_xfer /\ r_bufs[s] = xlog[x - 1].eb + 1
    BY <1>1 DEF Positions, Position
  <1>3. x - 1 \in 0..MaxXfer /\ x - 1 < w_xfer
    BY <1>1, <1>2, LedgerInts, SodInts
  <1>4. EndedXfer(x - 1)
    BY <1>3 DEF Ledger, XlogInv
  <1>5. xlog[x - 1].eb # -1
    BY <1>3, <1>4, LedgerInts DEF EndedXfer
  <1> QED BY <1>2, <1>5
-----------------------------------------------------------------------------
(* The induction.                                                          *)

\* What is known of the library whatever its clients do.
Known == /\ TypeOK /\ Control /\ WriterExclusion /\ WriteToken
         /\ SlotInv /\ LoopStart /\ EodCount

\* The accounts that disciplined clients keep.
Accounts == /\ WriterCtl /\ ReaderCtl /\ Ledger /\ SodCount /\ Positions
            /\ FullCount /\ BufCount /\ ClearCount /\ DataKept /\ BytesInv

LEMMA KnownInit == Init => Known
  <1>1. Init => WriterExclusion /\ WriteToken
    BY DEF Init, WriterExclusion, WriteToken, HoldsWrite, IsWriter, Procs
  <1>2. Init => SlotInv
    BY DEF Init, SlotInv, SlotToken, Seeking, Holds, HoldsSlot, Procs
  <1>3. Init => LoopStart /\ EodCount
    BY SizesAssumption DEF Init, LoopStart, EodCount, Ending, Procs
  <1> QED BY <1>1, <1>2, <1>3, TypeInit DEF Known

LEMMA KnownNext ==
    ASSUME "reset" \notin Uses, Known, [Next]_vars
    PROVE  Known'
  BY TypeNext, WriteNext, SlotNext, LoopNext, EodNext DEF Known

LEMMA AccountsInit == Init => Accounts
  <1> SUFFICES ASSUME Init PROVE Accounts
    OBVIOUS
  <1>1. /\ \A q \in Writers \cup Readers : pc[q] = "idle" /\ state[q] = "VIEWER" /\ iread[q] = -1
                                          /\ start_byte[q] = 0 /\ ret[q] = "idle"
        /\ w_buf_curr = 0 /\ w_buf_next = 0 /\ w_xfer = 0 /\ w_state = "DISCON"
        /\ \A b \in Bufs : count[b] = 0
        /\ \A s \in Slots : /\ r_bufs[s] = 0 /\ r_xfers[s] = 0 /\ r_states[s] = "DISCON"
                            /\ SODACK[s] = XFERS /\ FULL[s] = 0 /\ CLEAR[s] = 0
        /\ xlog = [x \in 0..MaxXfer |-> NoXfer]
    BY DEF Init, Procs
  <1>2. -1 \notin Slots /\ XFERS \in Nat /\ NBUFS \in Nat /\ NBUFS > 0 /\ MaxXfer \in Nat
    BY SizesAssumption, BoundsAssumption DEF Slots
  <1>3. Announced = {} /\ ~Started(w_xfer)
    <2>1. 0..(0 - 1) = {}
      OBVIOUS
    <2>2. xlog[0] = NoXfer
      BY <1>1, <1>2
    <2> QED BY <1>1, <2>1, <2>2 DEF Announced, Started, NoXfer
  <1>4. \A m : CountBelow(Announced, m) = 0 /\ Cardinality(Announced) = 0
    BY <1>3, FS_EmptySet DEF CountBelow, Below
  <1>5. \A s \in Slots : ~Inside(s) /\ ~Cleared(s) /\ ~Reading(s) /\ ~Raised(s) /\ ~Freeing(s)
    BY <1>1 DEF Inside, Cleared, Reading, Raised, Raising, Freeing, Freed, InLabels
  <1>6. WriterCtl /\ ReaderCtl
    BY <1>1, <1>2 DEF WriterCtl, ReaderCtl, IsWriter, IsReader
  <1>7. SodCount
    BY <1>1, <1>2, <1>3, <1>5 DEF SodCount, Bit
  <1>8. Positions
    BY <1>1, <1>5 DEF Positions, Position
  <1>9. FullCount
    <2>1. \A s \in Slots : Untold(s) = 0
      BY <1>1 DEF Untold, TellsBlock, TellsXfer, Bit
    <2> QED BY <1>1, <1>4, <1>5, <2>1 DEF FullCount, Told, Bit
  <1>10. BufCount
    <2>1. \A k \in Window : k \in Int
      BY <1>1, <1>2 DEF Window, Oldest
    <2>2. \A k \in Window : count[k % NBUFS] = 0
      BY <1>1, <2>1, BufOf
    <2> QED BY <1>3, <2>2 DEF BufCount, Bit
  <1>11. ClearCount
    BY <1>1, <1>4, <1>5 DEF ClearCount, Passed, Bit
  <1>12. DataKept
    BY <1>1, <1>2 DEF DataKept, Window, Oldest
  <1>13. BytesInv
    BY <1>1 DEF BytesInv, BytesAt
  <1> QED BY <1>6, <1>7, <1>8, <1>9, <1>10, <1>11, <1>12, <1>13, LedgerInit DEF Accounts

\* A step of the writer keeps the accounts.
LEMMA AccountsWriter ==
    ASSUME Known, Known', Accounts, NEW w \in Writers, PlainWriter(w)
    PROVE  Accounts'
  <1>1. /\ TypeOK /\ TypeOK' /\ Control /\ WriterExclusion /\ LoopStart
        /\ WriterCtl /\ ReaderCtl /\ Ledger /\ SodCount /\ Positions
        /\ FullCount /\ BufCount /\ ClearCount /\ DataKept /\ BytesInv
    BY DEF Known, Accounts
  <1>2. Ledger' /\ Grows /\ ReaderStill /\ WriterCtl' /\ ReaderCtl'
    BY <1>1, LedgerWriter, LedgerGrows, WriterLeavesReaders, WriterCtlNext, ReaderCtlFrame
  <1>3. SodCount'
    BY <1>1, <1>2, SodWriter
  <1>4. Positions'
    <2>1. w_buf_curr' \in Nat /\ w_xfer' \in Nat
      BY <1>1 DEF TypeOK, SyncType
    <2> QED BY <1>1, <1>2, <2>1, PositionWriter
  <1>5. FullCount'
    BY <1>1, <1>2, FullWriter
  <1>6. BufCount'
    BY <1>1, <1>2, CountsWriter
  <1>7. ClearCount'
    BY <1>1, <1>2, ClearWriter
  <1>8. DataKept'
    BY <1>1, <1>2, DataWriter
  <1>9. BytesInv'
    BY <1>1, <1>2, BytesWriter
  <1> QED BY <1>2, <1>3, <1>4, <1>5, <1>6, <1>7, <1>8, <1>9 DEF Accounts

\* A step of a reader keeps the accounts.
LEMMA AccountsReader ==
    ASSUME Known, Known', Accounts, NEW w \in Readers, PlainReader(w)
    PROVE  Accounts'
  <1>1. /\ TypeOK /\ TypeOK' /\ Control /\ SlotInv /\ EodCount
        /\ WriterCtl /\ ReaderCtl /\ Ledger /\ SodCount /\ Positions
        /\ FullCount /\ BufCount /\ ClearCount /\ DataKept /\ BytesInv
    BY DEF Known, Accounts
  <1>2. WriterStill /\ WriterCtl' /\ Ledger' /\ ReaderCtl'
    BY <1>1, ReadersLeaveWriter, WriterCtlFrame, LedgerFrame, ReaderCtlNext
  <1>3. \/ \A t \in Slots : SlotStill(t)
        \/ \E s \in Slots : SlotMoves(s) /\ \A t \in Slots \ {s} : SlotStill(t)
    BY <1>1, ReaderMoves
  <1>4. \A s \in Slots : SlotStill(s) \/ SlotMoves(s)
    BY <1>3
  <1>5. SodCount'
    BY <1>1, <1>2, <1>3, SodReader
  <1>6. Positions'
    BY <1>1, <1>2, <1>4, FullHasBlock, PositionReader DEF Positions
  <1>7. FullCount'
    BY <1>1, <1>2, <1>4, FullReader
  <1>8. BufCount'
    BY <1>1, <1>2, CountsReader
  <1>9. ClearCount'
    BY <1>1, <1>2, <1>4, ClearReader
  <1>10. DataKept'
    BY <1>1, <1>2, <1>4, DataReader
  <1>11. BytesInv'
    BY <1>1, <1>2, BytesReader
  <1> QED BY <1>2, <1>5, <1>6, <1>7, <1>8, <1>9, <1>10, <1>11 DEF Accounts

LEMMA AccountsNext ==
    ASSUME Disciplined, Known, Known', Accounts, [Next]_vars
    PROVE  Accounts'
  <1>1. CASE \E p \in Writers : PlainWriter(p)
    BY <1>1, AccountsWriter
  <1>2. CASE \E p \in Readers : PlainReader(p)
    BY <1>2, AccountsReader
  <1>3. CASE UNCHANGED vars
    <2>1. /\ UNCHANGED <<w_buf_curr, w_buf_next, w_state, w_xfer, count>>
          /\ UNCHANGED <<s_buf, s_byte, eod, e_buf, e_byte, r_bufs, r_xfers, r_states>>
          /\ UNCHANGED <<SODACK, FULL, CLEAR, state, xfer, iread, pc, i>>
          /\ UNCHANGED <<start_buf, start_byte, nbytes, ret, data, xlog>>
      BY <1>3 DEF vars, wsync, flags, rsync, datasem, handle, args, hist
    <2>2. WriterStill /\ ReaderStill
      BY <2>1 DEF WriterStill, ReaderStill, wsync, flags, rsync, hist
    <2>3. \A s \in Slots : SlotStill(s)
      BY <2>1 DEF SlotStill, Reading, Inside, Cleared, InLabels
    <2>4. /\ TypeOK /\ TypeOK' /\ Control /\ SlotInv /\ EodCount
          /\ WriterCtl /\ ReaderCtl /\ Ledger /\ SodCount /\ Positions
          /\ FullCount /\ BufCount /\ ClearCount /\ DataKept /\ BytesInv
      BY DEF Known, Accounts
    <2>5. WriterCtl' /\ ReaderCtl' /\ Ledger' /\ SodCount'
      BY <2>2, <2>3, <2>4, WriterCtlFrame, ReaderCtlFrame, LedgerFrame, SodReader
    <2>6. Positions'
      BY <2>2, <2>3, <2>4, FullHasBlock, PositionReader DEF Positions
    <2>7. FullCount' /\ BufCount' /\ ClearCount' /\ DataKept'
      BY <2>2, <2>3, <2>4, FullReader, CountsReader, ClearReader, DataReader
    <2>8. BytesInv'
      BY <2>1, <2>4 DEF BytesInv, BytesAt, FirstByte, LastByte
    <2> QED BY <2>5, <2>6, <2>7, <2>8 DEF Accounts
  <1>4. TypeOK /\ WriterCtl /\ ReaderCtl
    BY DEF Known, Accounts
  <1> QED BY <1>1, <1>2, <1>3, <1>4, PlainNext

\* The inductive invariant holds throughout.
LEMMA AccountsKept ==
    ASSUME Disciplined
    PROVE  Spec => [](Known /\ Accounts)
  <1>1. "reset" \notin Uses
    BY DEF Disciplined
  <1>2. Known /\ Accounts /\ [Next]_vars => (Known /\ Accounts)'
    BY <1>1, KnownNext, AccountsNext
  <1> QED BY <1>2, KnownInit, AccountsInit, PTL DEF Spec

\* The end of data of a transfer that has ended stays in its slot of the flags
\* until every reader is through with the transfer: ipcbuf_mark_filled waits for
\* EODACK before it records a later end.
THEOREM EndFlagsKeptHolds ==
    ASSUME Disciplined
    PROVE  Spec => []EndFlagsKept
  <1>1. Known /\ Accounts => EndFlagsKept
    <2> SUFFICES ASSUME Known, Accounts, NEW s \in Slots, NEW x \in 0..MaxXfer,
                        r_xfers[s] <= x, x < w_xfer
                 PROVE  /\ eod[x % XFERS] = 1
                        /\ e_buf[x % XFERS] = xlog[x].eb /\ e_byte[x % XFERS] = xlog[x].ey
      BY DEF EndFlagsKept
    <2>1. EODACK[s] \in Nat /\ w_xfer \in Nat /\ r_xfers[s] \in Nat
      BY DEF Known, TypeOK, SyncType, SemType, ReadersType
    <2>2. x >= w_xfer - XFERS
      BY <2>1, SizesAssumption DEF Known, EodCount
    <2> QED BY <2>2 DEF Accounts, Ledger, FlagsInv
  <1> QED BY <1>1, AccountsKept, PTL

\* With disciplined clients, the block that a reader has been handed stays in its
\* buffer until the reader gives it back: neither the writer that waits for CLEAR
\* nor one that zeroes the next buffer takes it too early.
THEOREM BlockIntactHolds ==
    ASSUME Disciplined
    PROVE  Spec => []BlockIntact
  <1>1. Known /\ Accounts => BlockIntact
    BY AccountsKeepBlock DEF Known, Accounts
  <1> QED BY <1>1, AccountsKept, PTL

\* What ipcbuf_get_next_read returns is a block of the reader's transfer, with as
\* many bytes of it as lie between start and end of data.
THEOREM BytesExactHolds ==
    ASSUME Disciplined
    PROVE  Spec => []BytesExact
  <1>1. Known /\ Accounts => BytesExact
    BY AccountsCountBytes DEF Known, Accounts
  <1> QED BY <1>1, AccountsKept, PTL

\* A reader is told of the end of data after the last block of its transfer, and
\* not before.
THEOREM EodExactHolds ==
    ASSUME Disciplined
    PROVE  Spec => []EodExact
  <1>1. Known /\ Accounts => EodExact
    BY AccountsEndExactly DEF Known, Accounts
  <1> QED BY <1>1, AccountsKept, PTL

-----------------------------------------------------------------------------
(* The stream.                                                             *)

\* A transfer that has not started is not recorded.
Unrecorded == \A x \in 0..MaxXfer : ~Started(x) => xlog[x] = NoXfer

LEMMA UnrecordedNext ==
    ASSUME Known, Accounts, Known', Accounts', Unrecorded, NEW w \in Writers, PlainWriter(w)
    PROVE  Unrecorded'
  <1>0. /\ TypeOK /\ Control /\ WriterExclusion /\ WriterCtl /\ Ledger /\ Ledger'
        /\ w \in Procs /\ xlog \in [0..MaxXfer -> XferRec] /\ w_xfer \in 0..MaxXfer
    BY LedgerInts DEF Known, Accounts, Ledger, XlogInv, Procs
  <1>1. CASE SodSet(w)
    <2>1. /\ \A x \in 0..MaxXfer : x # w_xfer => xlog'[x] = xlog[x]
          /\ xlog'[w_xfer].sb = start_buf[w]
      BY <1>0, <1>1, SodSetEffect
    <2>2. start_buf[w] # -1
      BY <1>0, <1>1 DEF TypeOK, LocalType
    <2> QED BY <2>1, <2>2 DEF Unrecorded, Started
  <1>2. CASE EodSet(w)
    <2>1. /\ \A x \in 0..MaxXfer : x # w_xfer => xlog'[x] = xlog[x]
          /\ xlog'[w_xfer].sb = xlog[w_xfer].sb
      BY <1>0, <1>2, EodSetEffect
    <2>2. pc[w] = "eod_ack"
      BY <1>2 DEF EodSet
    <2>3. IsWriter(w) /\ Opened(w)
      BY <1>0, <2>2 DEF WriterCtl, IsWriter, Opened
    <2>4. Started(w_xfer)
      BY <1>0, <2>3 DEF Ledger, XferAt
    <2> QED BY <2>1, <2>4 DEF Unrecorded, Started
  <1>3. CASE ~SodSet(w) /\ ~EodSet(w)
    <2>1. xlog' = xlog
      BY <1>3 DEF PlainWriter, LockWrite, Goto, LockWriteState, SetBoth, SetState,
         RelockWrite, IdleWriter, EnableEod, DisableSod, SetSoclockBuf, EnableSod,
         SodAllowed, CallEnableSod, Rewind, SodAck, Advance, SodSet, SodFull, SodDone,
         GetNextWrite, GetClear, TakeClear, GetDone, ZeroNextWrite, ZeroDone, MarkFilledClocked,
         MarkFilled, EodAck, EodSet, Publish, MarkFull, hist
    <2> QED BY <2>1 DEF Unrecorded, Started
  <1> QED BY <1>1, <1>2, <1>3

-----------------------------------------------------------------------------
(* What the mapping shows of a slot.                                       *)

Holding(s) == \E p \in Readers : iread[p] = s /\ pc[p] \in {"have", "cleared"}
From(s) == LET t == xlog[r_xfers[s]] IN IF r_bufs[s] = t.sb THEN t.sy ELSE 0
Upto(s) == LET t == xlog[r_xfers[s]] IN IF r_bufs[s] = t.eb THEN t.ey ELSE BUFSZ
Hand(s) == IF Holding(s) THEN <<r_bufs[s], From(s), Upto(s)>> ELSE <<>>
Place(s) == IF r_states[s] = "READING" THEN r_bufs[s] ELSE -1

\* The bytes that a reader has been handed are those of the mapping.
LEMMA HandedIs ==
    ASSUME Known, Accounts, NEW s \in Slots
    PROVE  Handed(s) = Hand(s)
  <1>0. /\ TypeOK /\ Control /\ SlotInv /\ ReaderCtl /\ Ledger /\ Positions /\ BytesInv
    BY DEF Known, Accounts
  <1>1. CASE ReadersAt(s, {"have"}) # {}
    <2> DEFINE p == CHOOSE q \in ReadersAt(s, {"have"}) : TRUE
    <2>1. p \in ReadersAt(s, {"have"})
      BY <1>1
    <2> HIDE DEF p
    <2>2. p \in Readers /\ iread[p] = s /\ pc[p] = "have"
      BY <2>1 DEF ReadersAt
    <2>3. Handed(s) = <<r_bufs[s], start_byte[p], start_byte[p] + nbytes[p]>>
      BY <1>1 DEF Handed, p
    <2>4. start_byte[p] = From(s) /\ nbytes[p] = Upto(s) - From(s)
      BY <1>0, <2>2 DEF BytesInv, BytesAt, FirstByte, LastByte, From, Upto
    <2>5. From(s) \in Int /\ Upto(s) \in Int
      <3>1. state[p] = "READING"
        BY <1>0, <2>2 DEF ReaderCtl
      <3>2. r_xfers[s] \in 0..MaxXfer
        BY <1>0, <2>2, <3>1, ReaderInXfer
      <3> QED BY <1>0, <3>2, LedgerInts DEF From, Upto
    <2>6. start_byte[p] + nbytes[p] = Upto(s)
      BY <2>4, <2>5
    <2>7. Holding(s)
      BY <2>2 DEF Holding
    <2> QED BY <2>3, <2>4, <2>6, <2>7 DEF Hand
  <1>2. CASE ReadersAt(s, {"have"}) = {} /\ ReadersAt(s, {"cleared"}) # {}
    <2>1. Holding(s)
      BY <1>2 DEF Holding, ReadersAt
    <2> QED BY <1>2, <2>1 DEF Handed, Hand, From, Upto
  <1>3. CASE ReadersAt(s, {"have"}) = {} /\ ReadersAt(s, {"cleared"}) = {}
    <2>1. ~Holding(s)
      BY <1>3 DEF Holding, ReadersAt
    <2> QED BY <1>3, <2>1 DEF Handed, Hand
  <1> QED BY <1>1, <1>2, <1>3

\* A reader that holds a block, at its place in a transfer.
LEMMA HolderPlace ==
    ASSUME Known, Accounts, NEW p \in Readers, pc[p] \in {"bytes", "have", "cleared"}
    PROVE  /\ iread[p] \in Slots /\ state[p] = "READING" /\ r_states[iread[p]] = "READING"
           /\ r_bufs[iread[p]] \in Nat /\ r_bufs[iread[p]] < w_buf_curr
           /\ r_xfers[iread[p]] \in 0..MaxXfer
           /\ AtEod(p) <=> r_bufs[iread[p]] = xlog[r_xfers[iread[p]]].eb
  <1> DEFINE s == iread[p]
             x == r_xfers[iread[p]]
             r == r_bufs[iread[p]]
  <1>0. /\ TypeOK /\ Control /\ ReaderCtl /\ Ledger /\ Positions /\ EodCount
    BY DEF Known, Accounts
  <1>1. state[p] = "READING" /\ pc[p] \in InLabels
    BY <1>0 DEF ReaderCtl, InLabels
  <1>2. /\ s \in Slots /\ x \in 0..w_xfer /\ x \in 0..MaxXfer /\ r \in Nat
        /\ Started(x) /\ xlog[x].sb <= r /\ r < w_buf_curr
        /\ xlog[x].eb # -1 => x < w_xfer
    BY <1>0, <1>1, ReaderInXfer
  <1>3. r_states[s] = "READING" /\ xfer[p] = x % XFERS
    BY <1>0, <1>1 DEF ReaderCtl, IsReader
  <1>4. AtEod(p) <=> r = xlog[x].eb
    <2>1. CASE x < w_xfer
      <3>1. e_buf[x % XFERS] = xlog[x].eb /\ eod[x % XFERS] = 1
        BY <1>0, <1>2, <2>1, EodWindow DEF Ledger, FlagsInv
      <3> QED BY <1>3, <3>1 DEF AtEod
    <2>2. CASE x = w_xfer
      <3>1. xlog[x].eb = -1
        BY <1>0, <1>2, <2>2 DEF Ledger, XlogInv, CurrentXfer
      <3>2. eod[x % XFERS] = 0 \/ e_buf[x % XFERS] < xlog[x].sb
        BY <1>0, <1>2, <2>2 DEF Ledger, FlagsInv
      <3> QED BY <1>0, <1>2, <1>3, <3>1, <3>2, LedgerInts DEF AtEod
    <2> QED BY <1>0, <1>2, <2>1, <2>2, LedgerInts
  <1> QED BY <1>1, <1>2, <1>3, <1>4

\* A step of the writer leaves what a slot shows.
LEMMA WriterKeepsSlots ==
    ASSUME Known, Accounts, Grows, ReaderStill
    PROVE  /\ r_xfers' = r_xfers
           /\ \A s \in Slots : Hand(s)' = Hand(s) /\ Place(s)' = Place(s)
  <1>1. UNCHANGED <<r_bufs, r_xfers, r_states>>
    BY DEF ReaderStill, rsync
  <1>2. \A s \in Slots : Holding(s)' <=> Holding(s)
    BY DEF ReaderStill, Holding
  <1>3. ASSUME NEW s \in Slots, Holding(s) PROVE From(s)' = From(s) /\ Upto(s)' = Upto(s)
    <2> DEFINE x == r_xfers[s]
               r == r_bufs[s]
    <2>0. TypeOK /\ Control /\ ReaderCtl /\ Ledger /\ Positions
      BY DEF Known, Accounts
    <2>1. PICK p \in Readers : iread[p] = s /\ pc[p] \in {"have", "cleared"}
      BY <1>3 DEF Holding
    <2>2. state[p] = "READING" /\ pc[p] \in InLabels
      BY <2>0, <2>1 DEF ReaderCtl, InLabels
    <2>3. /\ x \in 0..w_xfer /\ x \in 0..MaxXfer /\ r \in Nat /\ Started(x)
          /\ xlog[x].eb # -1 => x < w_xfer
          /\ r < w_buf_curr
      BY <2>0, <2>1, <2>2, ReaderInXfer
    <2>4. xlog'[x].sb = xlog[x].sb /\ xlog'[x].sy = xlog[x].sy
      BY <2>3 DEF Grows
    <2>5. From(s)' = From(s)
      BY <1>1, <2>4 DEF From
    <2>6. Upto(s)' = Upto(s)
      <3>1. CASE x < w_xfer
        <4>1. xlog'[x].eb = xlog[x].eb /\ xlog'[x].ey = xlog[x].ey
          BY <2>3, <3>1 DEF Grows
        <4> QED BY <1>1, <4>1 DEF Upto
      <3>2. CASE x = w_xfer
        <4>1. xlog[x].eb = -1 /\ xlog'[x].eb \in {-1, w_buf_curr}
          BY <2>3, <3>2 DEF Grows
        <4>2. r # -1 /\ r # w_buf_curr
          BY <2>0, <2>3, LedgerInts
        <4> QED BY <1>1, <4>1, <4>2 DEF Upto
      <3> QED BY <2>0, <2>3, <3>1, <3>2, LedgerInts
    <2> QED BY <2>5, <2>6
  <1>4. ASSUME NEW s \in Slots PROVE Hand(s)' = Hand(s)
    BY <1>1, <1>2, <1>3 DEF Hand
  <1> QED BY <1>1, <1>4 DEF Place

-----------------------------------------------------------------------------
(* The steps of the writer.                                                *)

LEMMA SlotsShown == Known /\ Accounts => \A s \in Slots : Handed(s) = Hand(s)
  BY HandedIs

LEMMA SlotsShownNext == (Known /\ Accounts => \A s \in Slots : Handed(s) = Hand(s))'
  BY SlotsShown, PTL

\* What the mapping shows of the slots when none of them has changed.
LEMMA SlotsSame ==
    ASSUME Known, Accounts, Known', Accounts',
           \A s \in Slots : Hand(s)' = Hand(s) /\ Place(s)' = Place(s)
    PROVE  /\ [s \in Slots |-> Handed(s)]' = [s \in Slots |-> Handed(s)]
           /\ [s \in Slots |-> IF r_states[s] = "READING" THEN r_bufs[s] ELSE -1]'
              = [s \in Slots |-> IF r_states[s] = "READING" THEN r_bufs[s] ELSE -1]
  <1>1. \A s \in Slots : Handed(s) = Hand(s) /\ Handed(s)' = Hand(s)'
    BY SlotsShown, SlotsShownNext
  <1>2. \A s \in Slots : Handed(s)' = Handed(s)
    BY <1>1
  <1>3. [s \in Slots |-> Place(s)]' = [s \in Slots |-> Place(s)]
    OBVIOUS
  <1> QED BY <1>2, <1>3 DEF Place

\* The writer appends a block, starts a transfer, or ends one.
LEMMA WriterStreams ==
    ASSUME Known, Accounts, Known', Accounts', Unrecorded, NEW w \in Writers, PlainWriter(w)
    PROVE  [Stream!Next]_(Stream!vars)
  <1> DEFINE got == [s \in Slots |-> Handed(s)]
             rb == [s \in Slots |-> IF r_states[s] = "READING" THEN r_bufs[s] ELSE -1]
  <1>0. /\ TypeOK /\ Control /\ WriterExclusion /\ WriterCtl /\ Ledger
        /\ w \in Procs /\ w_xfer \in 0..MaxXfer /\ w_buf_curr \in Nat /\ BUFSZ \in Nat
        /\ xlog \in [0..MaxXfer -> XferRec]
    BY LedgerInts DEF Known, Accounts, Procs, Ledger, XlogInv
  <1>1. UNCHANGED <<r_xfers, rb, got>>
    <2>1. Grows /\ ReaderStill
      BY <1>0, LedgerGrows, WriterLeavesReaders
    <2>2. r_xfers' = r_xfers /\ \A s \in Slots : Hand(s)' = Hand(s) /\ Place(s)' = Place(s)
      BY <2>1, WriterKeepsSlots
    <2> QED BY <2>2, SlotsSame
  <1> HIDE DEF got, rb
  <1>2. CASE SodSet(w)
    <2>1. pc[w] = "sod_ack" /\ UNCHANGED <<w_buf_curr, w_xfer>>
      BY <1>2 DEF SodSet
    <2>2. IsWriter(w) /\ ~Opened(w)
      BY <1>0, <2>1 DEF WriterCtl, IsWriter, Opened
    <2>3. XferAt(w) /\ SodAt(w)
      BY <1>0, <2>2 DEF Ledger
    <2>4. xlog[w_xfer] = NoXfer
      BY <1>0, <2>2, <2>3 DEF XferAt, Unrecorded
    <2>5. start_buf[w] \in 0..w_buf_curr /\ start_byte[w] \in 0..BUFSZ
      BY <1>0, <2>1, <2>3 DEF SodAt, TypeOK, LocalType
    <2>6. xlog' = [xlog EXCEPT ![w_xfer] =
                     [[sb |-> -1, sy |-> 0, eb |-> -1, ey |-> 0]
                        EXCEPT !.sb = start_buf[w], !.sy = start_byte[w]]]
      BY <1>2 DEF SodSet
    <2>7. Stream!Start(start_buf[w], start_byte[w])
      BY <1>1, <2>1, <2>4, <2>5, <2>6 DEF Stream!Start, Stream!Unknown, NoXfer, got, rb
    <2> QED BY <2>5, <2>7 DEF Stream!Next
  <1>3. CASE EodSet(w)
    <2>1. pc[w] = "eod_ack" /\ w_xfer' = w_xfer + 1 /\ w_buf_curr' = w_buf_curr
      BY <1>3 DEF EodSet
    <2>2. IsWriter(w) /\ Opened(w)
      BY <1>0, <2>1 DEF WriterCtl, IsWriter, Opened
    <2>3. Started(w_xfer) /\ nbytes[w] <= BUFSZ
      BY <1>0, <2>1, <2>2 DEF Ledger, XferAt, BlocksAt
    <2>4. nbytes[w] \in 0..BUFSZ
      BY <1>0, <2>3 DEF TypeOK, LocalType
    <2>5. xlog' = [xlog EXCEPT ![w_xfer].eb = w_buf_curr, ![w_xfer].ey = nbytes[w]]
      BY <1>3 DEF EodSet
    <2>6. Stream!End(nbytes[w])
      BY <1>1, <2>1, <2>3, <2>5 DEF Stream!End, Started, got, rb
    <2> QED BY <2>4, <2>6 DEF Stream!Next
  <1>4. CASE Publish(w) \/ MarkFilledClocked(w)
    <2>1. w_buf_curr' = w_buf_curr + 1 /\ UNCHANGED <<w_xfer, xlog>>
      BY <1>4 DEF Publish, MarkFilledClocked, hist
    <2>2. Stream!Write
      BY <1>1, <2>1 DEF Stream!Write, got, rb
    <2> QED BY <2>2 DEF Stream!Next
  <1>5. CASE ~SodSet(w) /\ ~EodSet(w) /\ ~Publish(w) /\ ~MarkFilledClocked(w)
    <2>1. UNCHANGED <<w_buf_curr, w_xfer, xlog>>
      BY <1>5 DEF PlainWriter, LockWrite, Goto, LockWriteState, SetBoth, SetState,
         RelockWrite, IdleWriter, EnableEod, DisableSod, SetSoclockBuf, EnableSod,
         SodAllowed, CallEnableSod, Rewind, SodAck, Advance, SodSet, SodFull, SodDone,
         GetNextWrite, GetClear, TakeClear, GetDone, ZeroNextWrite, ZeroDone, MarkFilledClocked,
         MarkFilled, EodAck, EodSet, Publish, MarkFull, wsync, hist
    <2> QED BY <1>1, <2>1 DEF Stream!vars, got, rb
  <1> QED BY <1>2, <1>3, <1>4, <1>5

-----------------------------------------------------------------------------
(* The steps of a reader.                                                  *)

\* What a step of a reader leaves alone.
LEMMA ReaderKeeps ==
    ASSUME TypeOK, NEW p \in Readers, PlainReader(p)
    PROVE  w_buf_curr' = w_buf_curr /\ w_xfer' = w_xfer /\ xlog' = xlog
  BY ReadersLeaveWriter DEF WriterStill, wsync, hist

\* A step that does not move any slot.
LEMMA SlotsKept ==
    ASSUME xlog' = xlog, r_xfers' = r_xfers, r_bufs' = r_bufs,
           \A t \in Slots : r_states'[t] = "READING" <=> r_states[t] = "READING",
           \A t \in Slots : Holding(t)' <=> Holding(t)
    PROVE  \A t \in Slots : Hand(t)' = Hand(t) /\ Place(t)' = Place(t)
  BY DEF Hand, From, Upto, Place

\* The slot of the reader that takes a step, and the others.
LEMMA OneSlot ==
    ASSUME TypeOK, SlotInv, ReaderCtl, NEW p \in Readers, NEW s \in Slots, s = iread[p],
           iread' = iread, xlog' = xlog,
           \A q \in Readers : q # p => pc'[q] = pc[q],
           \A t \in Slots : t # s => /\ r_bufs'[t] = r_bufs[t]
                                            /\ r_xfers'[t] = r_xfers[t]
                                            /\ r_states'[t] = r_states[t]
    PROVE  /\ Holding(s) <=> pc[p] \in {"have", "cleared"}
           /\ Holding(s)' <=> pc'[p] \in {"have", "cleared"}
           /\ \A t \in Slots : t # s => Hand(t)' = Hand(t) /\ Place(t)' = Place(t)
  <1>1. \A q \in Readers : iread[q] = s => q = p
    BY OneReader
  <1>2. Holding(s) <=> pc[p] \in {"have", "cleared"}
    BY <1>1 DEF Holding
  <1>3. Holding(s)' <=> pc'[p] \in {"have", "cleared"}
    BY <1>1 DEF Holding
  <1>4. ASSUME NEW t \in Slots, t # s PROVE Holding(t)' <=> Holding(t)
    BY <1>4 DEF Holding
  <1>5. ASSUME NEW t \in Slots, t # s PROVE Hand(t)' = Hand(t) /\ Place(t)' = Place(t)
    BY <1>4, <1>5 DEF Hand, From, Upto, Place
  <1> QED BY <1>2, <1>3, <1>5

\* A reader turns to its next transfer, is handed a block, or is done with one.
LEMMA ReaderStreams ==
    ASSUME Known, Accounts, Known', Accounts', NEW w \in Readers, PlainReader(w)
    PROVE  [Stream!Next]_(Stream!vars)
  <1>0. /\ TypeOK /\ Control /\ SlotInv /\ ReaderCtl /\ Ledger /\ Positions
        /\ SodCount /\ \A q \in Readers : q \in Procs
    BY DEF Known, Accounts, Procs
  <1>1. w_buf_curr' = w_buf_curr /\ w_xfer' = w_xfer /\ xlog' = xlog
    BY <1>0, ReaderKeeps
  <1>s. \A s \in Slots : Handed(s) = Hand(s) /\ Handed(s)' = Hand(s)'
    BY SlotsShown, SlotsShownNext
  <1>2. ASSUME \A s \in Slots : Hand(s)' = Hand(s) /\ Place(s)' = Place(s), r_xfers' = r_xfers
        PROVE  UNCHANGED Stream!vars
    BY <1>1, <1>2, SlotsSame DEF Stream!vars
  <1>3. ASSUME NEW p \in Readers, LockRead(p) \/ LockReadOrder(p) \/ LockReadSkip(p)
                                  \/ LockReadFail(p) \/ GetNextRead(p)
        PROVE  UNCHANGED Stream!vars
    <2>1. UNCHANGED <<r_bufs, r_xfers, r_states, iread>>
      BY <1>3 DEF LockRead, LockReadOrder, LockReadSkip, LockReadFail, GetNextRead,
         rsync, handle
    <2>2. \A q \in Readers :
             pc'[q] \in {"have", "cleared"} <=> pc[q] \in {"have", "cleared"}
      BY <1>0, <1>3 DEF LockRead, LockReadOrder, LockReadSkip, LockReadFail, GetNextRead,
                        IdleReader, Goto, TypeOK, LocalType
    <2>3. \A t \in Slots : Holding(t)' <=> Holding(t)
      BY <2>1, <2>2 DEF Holding
    <2>4. \A t \in Slots : Hand(t)' = Hand(t) /\ Place(t)' = Place(t)
      BY <1>1, <2>1, <2>3, SlotsKept
    <2> QED BY <1>2, <2>1, <2>4
  <1>4. ASSUME NEW p \in Readers, LockReadTry(p) PROVE UNCHANGED Stream!vars
    <2>1. UNCHANGED <<r_bufs, r_xfers, r_states>>
      BY <1>4 DEF LockReadTry, rsync
    <2>2. \A q \in Readers : q # p => iread'[q] = iread[q] /\ pc'[q] = pc[q]
      BY <1>0, <1>4 DEF LockReadTry, Rewind, Goto, TypeOK, HandleType, LocalType
    <2>3. pc[p] = "rtry" /\ pc'[p] = "rlock"
      BY <1>0, <1>4 DEF LockReadTry, Rewind, Goto, TypeOK, LocalType
    <2>4. \A t \in Slots : Holding(t)' <=> Holding(t)
      BY <2>2, <2>3 DEF Holding
    <2>5. \A t \in Slots : Hand(t)' = Hand(t) /\ Place(t)' = Place(t)
      BY <1>1, <2>1, <2>4, SlotsKept
    <2> QED BY <1>2, <2>1, <2>5
  <1>5. ASSUME NEW p \in Readers, LockReadState(p) \/ ResetRead(p)
        PROVE  UNCHANGED Stream!vars
    <2> DEFINE s == iread[p]
    <2>1. s \in Slots
      BY <1>0, <1>5 DEF LockReadState, ResetRead, IdleReader, Control, SlotLabels
    <2>2. r_states[s] # "READING"
      BY <1>0, <1>5, <2>1 DEF LockReadState, ResetRead, IdleReader, ReaderCtl
    <2>3. UNCHANGED <<r_bufs, r_xfers, iread>> /\ r_states' = [r_states EXCEPT ![s] = "READER"]
      BY <1>0, <1>5, <2>1 DEF LockReadState, ResetRead, ReaderCtl
    <2>4. \A t \in Slots : r_states'[t] = "READING" <=> r_states[t] = "READING"
      BY <1>0, <2>1, <2>2, <2>3 DEF TypeOK, ReadersType
    <2>5. \A q \in Readers :
             pc'[q] \in {"have", "cleared"} <=> pc[q] \in {"have", "cleared"}
      BY <1>0, <1>5 DEF LockReadState, ResetRead, Goto, TypeOK, LocalType
    <2>6. \A t \in Slots : Holding(t)' <=> Holding(t)
      BY <2>3, <2>5 DEF Holding
    <2>7. \A t \in Slots : Hand(t)' = Hand(t) /\ Place(t)' = Place(t)
      BY <1>1, <2>3, <2>4, <2>6, SlotsKept
    <2> QED BY <1>2, <2>3, <2>7
  <1>6. ASSUME NEW p \in Readers, MarkCleared(p) PROVE UNCHANGED Stream!vars
    <2>1. UNCHANGED <<r_bufs, r_xfers, r_states, iread>>
      BY <1>6 DEF MarkCleared, rsync, handle
    <2>2. \A q \in Readers :
             pc'[q] \in {"have", "cleared"} <=> pc[q] \in {"have", "cleared"}
      BY <1>0, <1>6 DEF MarkCleared, Goto, TypeOK, LocalType
    <2>3. \A t \in Slots : Holding(t)' <=> Holding(t)
      BY <2>1, <2>2 DEF Holding
    <2>4. \A t \in Slots : Hand(t)' = Hand(t) /\ Place(t)' = Place(t)
      BY <1>1, <2>1, <2>3, SlotsKept
    <2> QED BY <1>2, <2>1, <2>4
  <1>7. ASSUME NEW p \in Readers, NEW s \in Slots, s = iread[p], SodInc(p)
        PROVE  Stream!Open(s)
    <2> DEFINE x == r_xfers[s]
    <2>1. pc[p] = "sod_inc" /\ UNCHANGED <<r_xfers, iread>>
      BY <1>7 DEF SodInc, handle
    <2>2. s \in Slots /\ r_states[s] = "READER" /\ ~Reading(s)
      BY <1>0, <1>7, <2>1 DEF Control, SlotLabels, ReaderCtl, IsReader, Reading
    <2>3. x <= w_xfer /\ Started(x)
      BY <1>0, <1>7, <2>1, <2>2 DEF Positions, Position, Inside, InLabels
    <2>4. s_buf[x % XFERS] = xlog[x].sb
      BY <1>0, <2>2, <2>3, SodWindow
    <2>5. /\ r_bufs' = [r_bufs EXCEPT ![s] = xlog[x].sb]
          /\ r_states' = [r_states EXCEPT ![s] = "READING"]
      BY <1>7, <2>4 DEF SodInc
    <2>6. \A q \in Readers : q # p => pc'[q] = pc[q]
      BY <1>0, <1>7 DEF SodInc, Goto, TypeOK, LocalType
    <2>7. pc'[p] = "bytes"
      BY <1>0, <1>7 DEF SodInc, Goto, TypeOK, LocalType
    <2>8. /\ r_bufs \in [Slots -> Nat] /\ r_states \in [Slots -> RStates]
      BY <1>0 DEF TypeOK, ReadersType
    <2> HIDE DEF x
    <2>9. /\ ~Holding(s) /\ ~Holding(s)'
          /\ \A t \in Slots : t # s => Hand(t)' = Hand(t) /\ Place(t)' = Place(t)
      <3>1. \A t \in Slots : t # s => /\ r_bufs'[t] = r_bufs[t]
                                      /\ r_xfers'[t] = r_xfers[t]
                                      /\ r_states'[t] = r_states[t]
        BY <2>1, <2>5, <2>8
      <3> QED BY <1>0, <1>1, <1>7, <2>1, <2>2, <2>6, <2>7, <3>1, OneSlot
    <2>10. Hand(s) = <<>> /\ Hand(s)' = <<>> /\ Place(s) = -1 /\ Place(s)' = xlog[x].sb
      <3>1. r_states'[s] = "READING" /\ r_bufs'[s] = xlog[x].sb /\ iread'[p] = s
        BY <1>7, <2>1, <2>2, <2>5, <2>8
      <3> QED BY <2>1, <2>2, <2>9, <3>1 DEF Hand, Place
    <2>11. \A t \in Slots : /\ Handed(t)' = Handed(t)
                            /\ Place(t)' = IF t = s THEN xlog[x].sb ELSE Place(t)
      <3>1. Handed(s)' = Handed(s) /\ Place(s)' = xlog[x].sb
        BY <1>s, <2>2, <2>10
      <3>2. \A t \in Slots : t # s => Handed(t)' = Handed(t) /\ Place(t)' = Place(t)
        BY <1>s, <2>9
      <3> QED BY <3>1, <3>2
    <2>12. [t \in Slots |-> Handed(t)]' = [t \in Slots |-> Handed(t)]
      BY <2>11
    <2>13. [t \in Slots |-> Place(t)]' = [[t \in Slots |-> Place(t)] EXCEPT ![s] = xlog[x].sb]
      BY <2>2, <2>11
    <2> QED BY <1>1, <2>1, <2>2, <2>3, <2>10, <2>12, <2>13 DEF Stream!Open, Started,
               Place, x
  <1>8. ASSUME NEW p \in Readers, NEW s \in Slots, s = iread[p], ReadBytes(p)
        PROVE  Stream!Deliver(s)
    <2> DEFINE r == r_bufs[s]
    <2>1. pc[p] = "bytes" /\ UNCHANGED <<r_bufs, r_xfers, r_states, iread>>
      BY <1>8 DEF ReadBytes, handle, rsync
    <2>2. s \in Slots /\ r_states[s] = "READING" /\ r \in Nat /\ r < w_buf_curr
      BY <1>8, <2>1, HolderPlace
    <2>3. \A q \in Readers : q # p => pc'[q] = pc[q]
      BY <1>0, <1>8 DEF ReadBytes, Goto, TypeOK, LocalType
    <2>4. pc'[p] = "have"
      BY <1>0, <1>8 DEF ReadBytes, Goto, TypeOK, LocalType
    <2>5. /\ ~Holding(s) /\ Holding(s)'
          /\ \A t \in Slots : t # s => Hand(t)' = Hand(t) /\ Place(t)' = Place(t)
      BY <1>0, <1>1, <1>8, <2>1, <2>2, <2>3, <2>4, OneSlot
    <2>6. Hand(s) = <<>> /\ Place(s) = r /\ Place(s)' = r
      BY <2>1, <2>2, <2>5 DEF Hand, Place
    <2>7. Hand(s)' = <<r, From(s), Upto(s)>>
      BY <1>1, <2>1, <2>2, <2>5 DEF Hand, From, Upto
    <2>8. \A t \in Slots : /\ Handed(t)' = IF t = s THEN <<r, From(s), Upto(s)>> ELSE Handed(t)
                           /\ Place(t)' = Place(t)
      <3>1. Handed(s)' = <<r, From(s), Upto(s)>> /\ Place(s)' = Place(s)
        BY <1>s, <2>2, <2>6, <2>7
      <3>2. \A t \in Slots : t # s => Handed(t)' = Handed(t) /\ Place(t)' = Place(t)
        BY <1>s, <2>5
      <3> HIDE DEF r
      <3> QED BY <3>1, <3>2
    <2>9. [t \in Slots |-> Handed(t)]'
            = [[t \in Slots |-> Handed(t)] EXCEPT ![s] = <<r, From(s), Upto(s)>>]
      BY <2>2, <2>8
    <2>10. [t \in Slots |-> Place(t)]' = [t \in Slots |-> Place(t)]
      BY <2>8
    <2>11. Handed(s) = <<>> /\ r # -1
      BY <1>s, <2>2, <2>6
    <2> QED BY <1>1, <2>1, <2>2, <2>6, <2>9, <2>10, <2>11
            DEF Stream!Deliver, Stream!Nothing, Place, From, Upto
  <1>9. ASSUME NEW p \in Readers, NEW s \in Slots, s = iread[p], ClearedNext(p) \/ ClearedEod(p)
        PROVE  Stream!Release(s)
    <2> DEFINE r == r_bufs[s]
               x == r_xfers[s]
    <2>1. pc[p] = "cleared" /\ iread' = iread
      BY <1>9 DEF ClearedNext, ClearedEod, handle
    <2>2. /\ s \in Slots /\ r_states[s] = "READING" /\ r \in Nat
          /\ AtEod(p) <=> r = xlog[x].eb
      BY <1>9, <2>1, HolderPlace
    <2>3. /\ r_bufs \in [Slots -> Nat] /\ r_states \in [Slots -> RStates]
          /\ r_xfers \in [Slots -> Nat]
      BY <1>0 DEF TypeOK, ReadersType
    <2>4. \A q \in Readers : q # p => pc'[q] = pc[q]
      BY <1>0, <1>9 DEF ClearedNext, ClearedEod, Goto, TypeOK, LocalType
    <2>5. pc'[p] = "idle"
      BY <1>0, <1>9 DEF ClearedNext, ClearedEod, Goto, TypeOK, LocalType
    <2>6. r_bufs' = [r_bufs EXCEPT ![s] = r + 1]
      BY <1>9 DEF ClearedNext, ClearedEod
    <2>7. \/ /\ r # xlog[x].eb /\ UNCHANGED <<r_xfers, r_states>>
          \/ /\ r = xlog[x].eb /\ r_xfers' = [r_xfers EXCEPT ![s] = x + 1]
             /\ r_states' = [r_states EXCEPT ![s] = "RSTOP"]
      BY <1>9, <2>2 DEF ClearedNext, ClearedEod
    <2>8. \A t \in Slots : t # s => /\ r_bufs'[t] = r_bufs[t]
                                    /\ r_xfers'[t] = r_xfers[t]
                                    /\ r_states'[t] = r_states[t]
      BY <2>3, <2>6, <2>7
    <2>9. /\ Holding(s) /\ ~Holding(s)'
          /\ \A t \in Slots : t # s => Hand(t)' = Hand(t) /\ Place(t)' = Place(t)
      BY <1>0, <1>1, <1>9, <2>1, <2>2, <2>4, <2>5, <2>8, OneSlot
    <2>10. Hand(s) = <<r, From(s), Upto(s)>> /\ Hand(s)' = <<>> /\ Place(s) = r
      BY <2>1, <2>2, <2>9 DEF Hand, Place
    <2>11. Place(s)' = IF r = xlog[x].eb THEN -1 ELSE r + 1
      BY <2>1, <2>2, <2>3, <2>6, <2>7 DEF Place
    <2>12. <<r, From(s), Upto(s)>> # <<>>
      OBVIOUS
    <2>13. \A t \in Slots : /\ Handed(t)' = IF t = s THEN <<>> ELSE Handed(t)
                            /\ Place(t)' = IF t = s THEN (IF r = xlog[x].eb THEN -1 ELSE r + 1)
                                                    ELSE Place(t)
      <3>1. Handed(s)' = <<>> /\ Place(s)' = IF r = xlog[x].eb THEN -1 ELSE r + 1
        BY <1>s, <2>2, <2>10, <2>11
      <3>2. \A t \in Slots : t # s => Handed(t)' = Handed(t) /\ Place(t)' = Place(t)
        BY <1>s, <2>9
      <3> HIDE DEF r, x
      <3> QED BY <3>1, <3>2
    <2>14. [t \in Slots |-> Handed(t)]' = [[t \in Slots |-> Handed(t)] EXCEPT ![s] = <<>>]
      BY <2>2, <2>13
    <2>15. [t \in Slots |-> Place(t)]' =
             [[t \in Slots |-> Place(t)] EXCEPT ![s] = IF r = xlog[x].eb THEN -1 ELSE r + 1]
      BY <2>2, <2>13
    <2>16. Handed(s) # <<>>
      BY <1>s, <2>2, <2>10, <2>12
    <2>17. CASE r = xlog[x].eb
      BY <1>1, <2>2, <2>7, <2>10, <2>14, <2>15, <2>16, <2>17
         DEF Stream!Release, Stream!Nothing, Place
    <2>18. CASE r # xlog[x].eb
      BY <1>1, <2>2, <2>7, <2>10, <2>14, <2>15, <2>16, <2>18
         DEF Stream!Release, Stream!Nothing, Place
    <2> QED BY <2>17, <2>18
  <1>10. \A p \in Readers : SodInc(p) \/ ReadBytes(p) \/ ClearedNext(p) \/ ClearedEod(p)
                              => iread[p] \in Slots
    BY <1>0 DEF Control, SlotLabels, SodInc, ReadBytes, ClearedNext, ClearedEod
  <1>11. CASE SodInc(w)
    <2>1. \E s \in Slots : Stream!Open(s)
      BY <1>7, <1>10, <1>11
    <2> QED BY <2>1 DEF Stream!Next
  <1>12. CASE ReadBytes(w)
    <2>1. \E s \in Slots : Stream!Deliver(s)
      BY <1>8, <1>10, <1>12
    <2> QED BY <2>1 DEF Stream!Next
  <1>13. CASE ClearedNext(w) \/ ClearedEod(w)
    <2>1. \E s \in Slots : Stream!Release(s)
      BY <1>9, <1>10, <1>13
    <2> QED BY <2>1 DEF Stream!Next
  <1> QED BY <1>3, <1>4, <1>5, <1>6, <1>11, <1>12, <1>13 DEF PlainReader

-----------------------------------------------------------------------------
(* The refinement.                                                         *)

LEMMA StreamInit == Init => Stream!Init /\ Unrecorded
  <1> SUFFICES ASSUME Init PROVE Stream!Init /\ Unrecorded
    OBVIOUS
  <1>1. /\ w_buf_curr = 0 /\ w_xfer = 0 /\ xlog = [x \in 0..MaxXfer |-> NoXfer]
        /\ r_xfers = [s \in Slots |-> 0] /\ r_states = [s \in Slots |-> "DISCON"]
        /\ \A p \in Readers : pc[p] = "idle"
    BY DEF Init, Procs
  <1>2. \A s \in Slots : Handed(s) = <<>>
    BY <1>1 DEF Handed, ReadersAt
  <1>3. [s \in Slots |-> Handed(s)] = [s \in Slots |-> <<>>]
    BY <1>2
  <1>4. [s \in Slots |-> IF r_states[s] = "READING" THEN r_bufs[s] ELSE -1]
          = [s \in Slots |-> -1]
    BY <1>1
  <1> QED BY <1>1, <1>3, <1>4
          DEF Stream!Init, Stream!Unknown, Stream!Nothing, Unrecorded, NoXfer

LEMMA StreamNext ==
    ASSUME Disciplined, Known, Accounts, Known', Accounts', Unrecorded, [Next]_vars
    PROVE  [Stream!Next]_(Stream!vars) /\ Unrecorded'
  <1>1. CASE \E p \in Writers : PlainWriter(p)
    BY <1>1, WriterStreams, UnrecordedNext
  <1>2. CASE \E p \in Readers : PlainReader(p)
    <2>1. Unrecorded'
      BY <1>2, ReaderKeeps DEF Unrecorded, Started, Known
    <2> QED BY <1>2, <2>1, ReaderStreams
  <1>3. CASE UNCHANGED vars
    <2>1. /\ UNCHANGED <<w_buf_curr, w_xfer, xlog, r_bufs, r_xfers, r_states, iread, pc>>
      BY <1>3 DEF vars, wsync, rsync, handle, hist
    <2>2. \A t \in Slots : Hand(t)' = Hand(t) /\ Place(t)' = Place(t)
      BY <2>1 DEF Hand, Holding, From, Upto, Place
    <2>3. UNCHANGED Stream!vars
      BY <2>1, <2>2, SlotsSame DEF Stream!vars
    <2>4. Unrecorded'
      BY <2>1 DEF Unrecorded, Started
    <2> QED BY <2>3, <2>4
  <1>4. TypeOK /\ WriterCtl /\ ReaderCtl
    BY DEF Known, Accounts
  <1> QED BY <1>1, <1>2, <1>3, <1>4, PlainNext

\* The ring buffer of ipcbuf.c implements the stream: every reader is handed every
\* block of every transfer once, in order, with its exact bytes, and is told of the
\* end of data after the last one, whatever the interleaving of the processes.
THEOREM RingIsStream ==
    ASSUME Disciplined
    PROVE  Spec => ImplementsStream
  <1>1. Init => Stream!Init /\ Unrecorded
    BY StreamInit
  <1>2. /\ Known /\ Accounts /\ (Known /\ Accounts)' /\ Unrecorded /\ [Next]_vars
        => [Stream!Next]_(Stream!vars) /\ Unrecorded'
    BY StreamNext
  <1> QED BY <1>1, <1>2, AccountsKept, PTL DEF Spec, ImplementsStream, Stream!Spec
=============================================================================
