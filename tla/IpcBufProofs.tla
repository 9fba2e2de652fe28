---------------------------- MODULE IpcBufProofs ----------------------------
(***************************************************************************)
(* Theorems about the ring buffer of IpcBuf, for every number of buffers,  *)
(* readers and processes: first its types, then the invariants that count  *)
(* a semaphore against the processes that have taken from it; then the     *)
(* same when processes die at any point and the kernel undoes what they    *)
(* took (IpcCrash), and the search of ipcbuf_lock_read for a slot.         *)
(*                                                                         *)
(* TypeOK alone is not inductive: get_next_read indexes its arrays with    *)
(* ipc->iread, which is -1 until lock_read has found a slot.  The control  *)
(* invariant says which roles go with which places in the code.  There is  *)
(* one lemma per action; the theorem puts them together.                   *)
(***************************************************************************)
EXTENDS IpcCrash, FiniteSetTheorems, TLAPS

-----------------------------------------------------------------------------
(* Index arithmetic.                                                       *)

\* w_xfer % IPCBUF_XFERS is an index of the flag arrays.
LEMMA XferIndex == \A n \in Nat : n % XFERS \in Xfers
  BY SizesAssumption DEF Xfers

\* bufnum % nbufs is an index of the buffers.
LEMMA BufIndex == \A n \in Nat : n % NBUFS \in Bufs
  BY SizesAssumption DEF Bufs

\* The index of a loop over the readers that has not ended is a slot.
LEMMA SlotIndex == \A k \in 0..NREADERS : k < NREADERS => k \in Slots
  BY SizesAssumption DEF Slots

\* The result of unsigned arithmetic is not negative.
LEMMA U64Type == \A n \in Int : U64(n) \in Nat
  BY BoundsAssumption, SizesAssumption DEF U64

\* The increment that ipc_semop gets is an integer, of either sign.
LEMMA ShortType == \A n \in Nat : Short(n) \in Int
  BY BoundsAssumption DEF Short

\* The number of blocks that enable_sod adds to a count is a natural number.
LEMMA WrittenType ==
    ASSUME SyncType, NEW n \in Nat, NEW b \in Bufs
    PROVE  WrittenSince(n, b) \in Nat
  <1>1. IsFiniteSet(n..(w_buf_curr - 1))
    <2>1. n \in Int /\ w_buf_curr - 1 \in Int
      BY DEF SyncType
    <2> QED BY <2>1, FS_Interval
  <1>2. {k \in n..(w_buf_curr - 1) : k % NBUFS = b} \subseteq n..(w_buf_curr - 1)
    OBVIOUS
  <1> QED BY <1>1, <1>2, FS_Subset, FS_CardinalityType DEF WrittenSince

\* A loop index that is set back is in its range.
LEMMA RewindType ==
    ASSUME LocalType, NEW p \in Procs, Rewind(p)
    PROVE  i' \in [Procs -> 0..NREADERS]
  BY SizesAssumption DEF LocalType, Rewind

\* A loop index that is advanced inside the loop is in its range.
LEMMA AdvanceType ==
    ASSUME LocalType, NEW p \in Procs, i[p] < NREADERS, Advance(p)
    PROVE  i' \in [Procs -> 0..NREADERS]
  <1>1. i[p] + 1 \in 0..NREADERS
    BY SizesAssumption DEF LocalType
  <1> QED BY <1>1 DEF LocalType, Advance

\* One round of the loop on count keeps the types of all it changes.
LEMMA TakeClearType ==
    ASSUME TypeOK, NEW p \in Procs, NEW b \in Bufs, TakeClear(p, b)
    PROVE  /\ CLEAR' \in [Slots -> Nat] /\ count' \in [Bufs -> Nat]
           /\ i' \in [Procs -> 0..NREADERS]
  <1>1. i[p] \in Slots /\ i[p] < NREADERS
    BY SlotIndex, SizesAssumption DEF TypeOK, LocalType, TakeClear
  <1>2. CLEAR' \in [Slots -> Nat]
    BY <1>1 DEF TypeOK, SemType, TakeClear
  <1>3. count' \in [Bufs -> Nat]
    BY DEF TypeOK, SyncType, TakeClear
  <1>4. i' \in [Procs -> 0..NREADERS]
    BY <1>1, AdvanceType, RewindType DEF TypeOK, TakeClear
  <1> QED BY <1>2, <1>3, <1>4

-----------------------------------------------------------------------------
(* The control invariant.                                                  *)

WLabels == {"idle", "wlock", "wunlock", "ending", "sod_ack", "sod_full", "get", "zero",
            "eod_ack", "publish", "full", "rst_clear", "rst_sod", "rst_eod"}
RLabels == {"idle", "rorder", "rtry", "rlock", "failed", "runlock", "runlocked",
            "sod_inc", "bytes", "have", "cleared"}
SlotLabels == {"rlock", "runlock", "runlocked", "sod_inc", "bytes", "have", "cleared"}

\* Writers and readers stay in their own code; a process inside a call of the
\* writer has the writer's role, and one that reads has a slot.
Control ==
    /\ \A p \in Writers :
        /\ pc[p] \in WLabels /\ ~IsReader(p)
        /\ pc[p] = "wlock" => state[p] = "VIEWER"
        /\ pc[p] \notin {"idle", "wlock"} => IsWriter(p)
    /\ \A p \in Readers :
        /\ pc[p] \in RLabels /\ ~IsWriter(p)
        /\ IsReader(p) \/ pc[p] \in SlotLabels => iread[p] \in Slots

-----------------------------------------------------------------------------
(* One lemma per action.                                                   *)

\* LockWrite keeps the types and the control invariant.
LEMMA TypeLockWrite ==
    ASSUME TypeOK, Control, NEW p \in Writers,
           LockWrite(p)
    PROVE  TypeOK' /\ Control'
  <1>1. SyncType' /\ FlagsType' /\ ReadersType' /\ HandleType'
    BY DEF TypeOK, SyncType, FlagsType, ReadersType, HandleType, LockWrite,
        wsync, flags, rsync, handle, hist
  <1>2. SemType'
    BY DEF TypeOK, SemType, Procs, LockWrite, datasem
  <1>3. LocalType'
    BY DEF TypeOK, LocalType, Labels, Procs, LockWrite, Goto, args
  <1>4. Control'
    BY ProcsAssumption
    DEF TypeOK, HandleType, LocalType, Control, IsReader, IsWriter, Procs,
        WLabels, RLabels, SlotLabels, LockWrite, Goto, handle
  <1> QED BY <1>1, <1>2, <1>3, <1>4 DEF TypeOK

\* LockWriteState keeps the types and the control invariant.
LEMMA TypeLockWriteState ==
    ASSUME TypeOK, Control, NEW p \in Writers,
           LockWriteState(p)
    PROVE  TypeOK' /\ Control'
  <1>1. FlagsType' /\ ReadersType' /\ SemType'
    BY DEF TypeOK, FlagsType, ReadersType, SemType, LockWriteState, flags,
        rsync, consem, datasem
  <1>2. SyncType'
    BY DEF TypeOK, SyncType, WStates, Procs, LockWriteState, SetBoth, hist
  <1>3. HandleType'
    BY XferIndex
    DEF TypeOK, SyncType, HandleType, PStates, Procs, LockWriteState, SetBoth,
        SetState
  <1>4. LocalType'
    BY DEF TypeOK, SyncType, LocalType, Labels, Procs, LockWriteState, Goto,
        args
  <1>5. Control'
    BY ProcsAssumption
    DEF TypeOK, HandleType, LocalType, Control, IsReader, IsWriter, Procs,
        WLabels, RLabels, SlotLabels, LockWriteState, Goto, SetBoth, SetState
  <1> QED BY <1>1, <1>2, <1>3, <1>4, <1>5 DEF TypeOK

\* UnlockWrite keeps the types and the control invariant.
LEMMA TypeUnlockWrite ==
    ASSUME TypeOK, Control, NEW p \in Writers,
           UnlockWrite(p)
    PROVE  TypeOK' /\ Control'
  <1>1. SyncType' /\ FlagsType' /\ ReadersType' /\ HandleType'
    BY DEF TypeOK, SyncType, FlagsType, ReadersType, HandleType, UnlockWrite,
        wsync, flags, rsync, handle, hist
  <1>2. SemType'
    BY DEF TypeOK, SemType, Procs, UnlockWrite, datasem
  <1>3. LocalType'
    BY DEF TypeOK, LocalType, Labels, Procs, UnlockWrite, Goto, args
  <1>4. Control'
    BY ProcsAssumption
    DEF TypeOK, HandleType, LocalType, Control, IsReader, IsWriter, Procs,
        WLabels, RLabels, SlotLabels, UnlockWrite, Goto, handle, IdleWriter
  <1> QED BY <1>1, <1>2, <1>3, <1>4 DEF TypeOK

\* UnlockWriteState keeps the types and the control invariant.
LEMMA TypeUnlockWriteState ==
    ASSUME TypeOK, Control, NEW p \in Writers,
           UnlockWriteState(p)
    PROVE  TypeOK' /\ Control'
  <1>1. FlagsType' /\ ReadersType' /\ SemType'
    BY DEF TypeOK, FlagsType, ReadersType, SemType, UnlockWriteState, flags,
        rsync, consem, datasem
  <1>2. SyncType'
    BY DEF TypeOK, SyncType, WStates, Procs, UnlockWriteState, hist
  <1>3. HandleType'
    BY DEF TypeOK, HandleType, PStates, Procs, UnlockWriteState, SetState
  <1>4. LocalType'
    BY DEF TypeOK, LocalType, Labels, Procs, UnlockWriteState, Goto, args
  <1>5. Control'
    BY ProcsAssumption
    DEF TypeOK, HandleType, LocalType, Control, IsReader, IsWriter, Procs,
        WLabels, RLabels, SlotLabels, UnlockWriteState, Goto, SetState
  <1> QED BY <1>1, <1>2, <1>3, <1>4, <1>5 DEF TypeOK

\* RelockWrite keeps the types and the control invariant.
LEMMA TypeRelockWrite ==
    ASSUME TypeOK, Control, NEW p \in Writers,
           RelockWrite(p)
    PROVE  TypeOK' /\ Control'
  <1>1. FlagsType' /\ ReadersType' /\ SemType' /\ LocalType'
    BY DEF TypeOK, FlagsType, ReadersType, SemType, LocalType, RelockWrite,
        flags, rsync, consem, datasem, args
  <1>2. SyncType'
    BY DEF TypeOK, SyncType, WStates, Procs, RelockWrite, SetBoth, hist
  <1>3. HandleType'
    BY XferIndex
    DEF TypeOK, SyncType, HandleType, PStates, Procs, RelockWrite, SetBoth,
        SetState
  <1>4. Control'
    BY ProcsAssumption
    DEF TypeOK, HandleType, LocalType, Control, IsReader, IsWriter, Procs,
        WLabels, RLabels, SlotLabels, RelockWrite, SetBoth, SetState,
        IdleWriter
  <1> QED BY <1>1, <1>2, <1>3, <1>4 DEF TypeOK

\* EnableEod keeps the types and the control invariant.
LEMMA TypeEnableEod ==
    ASSUME TypeOK, Control, NEW p \in Writers,
           EnableEod(p)
    PROVE  TypeOK' /\ Control'
  <1>1. FlagsType' /\ ReadersType' /\ SemType'
    BY DEF TypeOK, FlagsType, ReadersType, SemType, EnableEod, flags, rsync,
        consem, datasem
  <1>2. SyncType'
    BY DEF TypeOK, SyncType, WStates, Procs, EnableEod, SetBoth, hist
  <1>3. HandleType'
    BY DEF TypeOK, HandleType, PStates, Procs, EnableEod, SetBoth, SetState
  <1>4. LocalType'
    BY DEF TypeOK, LocalType, Labels, Procs, EnableEod, Goto, args
  <1>5. Control'
    BY ProcsAssumption
    DEF TypeOK, HandleType, LocalType, Control, IsReader, IsWriter, Procs,
        WLabels, RLabels, SlotLabels, EnableEod, Goto, SetBoth, SetState,
        IdleWriter
  <1> QED BY <1>1, <1>2, <1>3, <1>4, <1>5 DEF TypeOK

\* DisableSod keeps the types and the control invariant.
LEMMA TypeDisableSod ==
    ASSUME TypeOK, Control, NEW p \in Writers,
           DisableSod(p)
    PROVE  TypeOK' /\ Control'
  <1>1. FlagsType' /\ ReadersType' /\ SemType' /\ LocalType'
    BY DEF TypeOK, FlagsType, ReadersType, SemType, LocalType, DisableSod,
        flags, rsync, consem, datasem, args
  <1>2. SyncType'
    BY DEF TypeOK, SyncType, WStates, Procs, DisableSod, SetBoth, hist
  <1>3. HandleType'
    BY DEF TypeOK, HandleType, PStates, Procs, DisableSod, SetBoth, SetState
  <1>4. Control'
    BY ProcsAssumption
    DEF TypeOK, HandleType, LocalType, Control, IsReader, IsWriter, Procs,
        WLabels, RLabels, SlotLabels, DisableSod, SetBoth, SetState,
        IdleWriter
  <1> QED BY <1>1, <1>2, <1>3, <1>4 DEF TypeOK

\* SetSoclockBuf keeps the types and the control invariant.
LEMMA TypeSetSoclockBuf ==
    ASSUME TypeOK, Control, NEW p \in Writers,
           SetSoclockBuf(p)
    PROVE  TypeOK' /\ Control'
  <1>1. SyncType' /\ FlagsType' /\ ReadersType' /\ SemType' /\ LocalType'
    BY DEF TypeOK, SyncType, FlagsType, ReadersType, SemType, LocalType,
        SetSoclockBuf, wsync, flags, rsync, consem, datasem, args, hist
  <1>2. HandleType'
    BY XferIndex
    DEF TypeOK, SyncType, FlagsType, HandleType, PStates, Procs, SetSoclockBuf
  <1>3. Control'
    BY ProcsAssumption
    DEF TypeOK, HandleType, LocalType, Control, IsReader, IsWriter, Procs,
        WLabels, RLabels, SlotLabels, SetSoclockBuf, IdleWriter
  <1> QED BY <1>1, <1>2, <1>3 DEF TypeOK

\* EnableSod keeps the types and the control invariant.
LEMMA TypeEnableSod ==
    ASSUME TypeOK, Control, NEW p \in Writers,
           NEW b \in 0..MaxBlock,
           NEW y \in 0..BUFSZ,
           EnableSod(p, b, y)
    PROVE  TypeOK' /\ Control'
  <1>1. SyncType' /\ FlagsType' /\ ReadersType' /\ SemType' /\ HandleType'
    BY DEF TypeOK, SyncType, FlagsType, ReadersType, SemType, HandleType,
        EnableSod, wsync, flags, rsync, consem, datasem, handle, hist
  <1>2. LocalType'
    BY BoundsAssumption, SizesAssumption, RewindType
    DEF TypeOK, LocalType, Labels, Procs, EnableSod, CallEnableSod, Goto
  <1>3. Control'
    BY ProcsAssumption
    DEF TypeOK, HandleType, LocalType, Control, IsReader, IsWriter, Procs,
        WLabels, RLabels, SlotLabels, EnableSod, CallEnableSod, Goto, handle,
        IdleWriter
  <1> QED BY <1>1, <1>2, <1>3 DEF TypeOK

\* SodAck keeps the types and the control invariant.
LEMMA TypeSodAck ==
    ASSUME TypeOK, Control, NEW p \in Writers,
           SodAck(p)
    PROVE  TypeOK' /\ Control'
  <1>1. SyncType' /\ FlagsType' /\ ReadersType' /\ HandleType'
    BY DEF TypeOK, SyncType, FlagsType, ReadersType, HandleType, SodAck, wsync,
        flags, rsync, handle, hist
  <1>2. SemType'
    BY SlotIndex, SizesAssumption
    DEF TypeOK, SemType, LocalType, Procs, SodAck, consem
  <1>3. LocalType'
    BY AdvanceType
    DEF TypeOK, LocalType, Labels, Procs, SodAck, args
  <1>4. Control'
    BY ProcsAssumption
    DEF TypeOK, HandleType, LocalType, Control, IsReader, IsWriter, Procs,
        WLabels, RLabels, SlotLabels, SodAck, handle
  <1> QED BY <1>1, <1>2, <1>3, <1>4 DEF TypeOK

\* SodSet keeps the types and the control invariant.
LEMMA TypeSodSet ==
    ASSUME TypeOK, Control, NEW p \in Writers,
           SodSet(p)
    PROVE  TypeOK' /\ Control'
  <1>1. start_buf[p] \in Nat
    BY DEF TypeOK, LocalType, Procs
  <1>2. ReadersType' /\ SemType'
    BY DEF TypeOK, ReadersType, SemType, SodSet, rsync, consem, datasem
  <1>3. SyncType'
    BY <1>1, WrittenType
    DEF TypeOK, SyncType, LocalType, WStates, Procs, SodSet, SetBoth
  <1>4. FlagsType'
    BY <1>1, XferIndex
    DEF TypeOK, SyncType, FlagsType, LocalType, Procs, SodSet
  <1>5. HandleType'
    BY <1>1, XferIndex
    DEF TypeOK, SyncType, HandleType, PStates, Procs, SodSet, SetBoth,
        SetState
  <1>6. LocalType'
    BY <1>1, XferIndex, RewindType
    DEF TypeOK, SyncType, LocalType, Labels, Procs, SodSet, Goto, args
  <1>7. Control'
    BY ProcsAssumption
    DEF TypeOK, HandleType, LocalType, Control, IsReader, IsWriter, Procs,
        WLabels, RLabels, SlotLabels, SodSet, Goto, SetBoth, SetState
  <1> QED BY <1>2, <1>3, <1>4, <1>5, <1>6, <1>7 DEF TypeOK

\* SodFull keeps the types and the control invariant.
LEMMA TypeSodFull ==
    ASSUME TypeOK, Control, NEW p \in Writers,
           SodFull(p)
    PROVE  TypeOK' /\ Control'
  <1>1. SyncType' /\ FlagsType' /\ ReadersType' /\ HandleType'
    BY DEF TypeOK, SyncType, FlagsType, ReadersType, HandleType, SodFull,
        wsync, flags, rsync, handle, hist
  <1>2. SemType'
    BY SlotIndex, SizesAssumption, U64Type, ShortType
    DEF TypeOK, SyncType, SemType, LocalType, Procs, SodFull, consem
  <1>3. LocalType'
    BY U64Type, ShortType, AdvanceType
    DEF TypeOK, SyncType, LocalType, Labels, Procs, SodFull, args
  <1>4. Control'
    BY ProcsAssumption
    DEF TypeOK, HandleType, LocalType, Control, IsReader, IsWriter, Procs,
        WLabels, RLabels, SlotLabels, SodFull, handle
  <1> QED BY <1>1, <1>2, <1>3, <1>4 DEF TypeOK

\* SodDone keeps the types and the control invariant.
LEMMA TypeSodDone ==
    ASSUME TypeOK, Control, NEW p \in Writers,
           SodDone(p)
    PROVE  TypeOK' /\ Control'
  <1>1. SyncType' /\ FlagsType' /\ ReadersType' /\ SemType' /\ HandleType'
    BY DEF TypeOK, SyncType, FlagsType, ReadersType, SemType, HandleType,
        SodDone, wsync, flags, rsync, consem, datasem, handle, hist
  <1>2. LocalType'
    BY RewindType
    DEF TypeOK, LocalType, Labels, Procs, SodDone, Goto
  <1>3. Control'
    BY ProcsAssumption
    DEF TypeOK, HandleType, LocalType, Control, IsReader, IsWriter, Procs,
        WLabels, RLabels, SlotLabels, SodDone, Goto, handle
  <1> QED BY <1>1, <1>2, <1>3 DEF TypeOK

\* GetNextWrite keeps the types and the control invariant.
LEMMA TypeGetNextWrite ==
    ASSUME TypeOK, Control, NEW p \in Writers,
           GetNextWrite(p)
    PROVE  TypeOK' /\ Control'
  <1>1. SyncType' /\ FlagsType' /\ ReadersType' /\ SemType' /\ HandleType'
    BY DEF TypeOK, SyncType, FlagsType, ReadersType, SemType, HandleType,
        GetNextWrite, wsync, flags, rsync, consem, datasem, handle, hist
  <1>2. LocalType'
    <2>1. CASE state[p] = "WCHANGE" /\ CallEnableSod(p, w_buf_curr, 0, "get")
      BY <2>1, RewindType
      DEF TypeOK, SyncType, LocalType, Labels, Procs, GetNextWrite, Goto,
          CallEnableSod
    <2>2. CASE Goto(p, "get") /\ UNCHANGED <<i, start_buf, start_byte, ret>>
      BY <2>2 DEF TypeOK, LocalType, Labels, Procs, GetNextWrite, Goto
    <2> QED BY <2>1, <2>2 DEF GetNextWrite
  <1>3. Control'
    BY ProcsAssumption
    DEF TypeOK, HandleType, LocalType, Control, IsReader, IsWriter, Procs,
        WLabels, RLabels, SlotLabels, GetNextWrite, Goto, CallEnableSod,
        handle, IdleWriter
  <1> QED BY <1>1, <1>2, <1>3 DEF TypeOK

\* GetClear keeps the types and the control invariant.
LEMMA TypeGetClear ==
    ASSUME TypeOK, Control, NEW p \in Writers,
           GetClear(p)
    PROVE  TypeOK' /\ Control'
  <1>1. w_buf_next % NBUFS \in Bufs
    BY BufIndex DEF TypeOK, SyncType
  <1>2. FlagsType' /\ ReadersType' /\ HandleType'
    BY DEF TypeOK, FlagsType, ReadersType, HandleType, GetClear, flags, rsync,
        handle
  <1>3. SyncType'
    BY <1>1, TakeClearType
    DEF TypeOK, SyncType, WStates, Procs, GetClear, wsync, hist
  <1>4. SemType'
    BY <1>1, TakeClearType
    DEF TypeOK, SyncType, SemType, LocalType, Procs, GetClear, consem
  <1>5. LocalType'
    BY <1>1, TakeClearType
    DEF TypeOK, SyncType, LocalType, Labels, Procs, GetClear, args
  <1>6. Control'
    BY ProcsAssumption
    DEF TypeOK, HandleType, LocalType, Control, IsReader, IsWriter, Procs,
        WLabels, RLabels, SlotLabels, GetClear, handle
  <1> QED BY <1>2, <1>3, <1>4, <1>5, <1>6 DEF TypeOK

\* GetDone keeps the types and the control invariant.
LEMMA TypeGetDone ==
    ASSUME TypeOK, Control, NEW p \in Writers,
           GetDone(p)
    PROVE  TypeOK' /\ Control'
  <1>1. w_buf_next % NBUFS \in Bufs
    BY BufIndex DEF TypeOK, SyncType
  <1>2. FlagsType' /\ ReadersType' /\ SemType' /\ HandleType'
    BY DEF TypeOK, FlagsType, ReadersType, SemType, HandleType, GetDone, flags,
        rsync, consem, datasem, handle
  <1>3. SyncType'
    BY <1>1
    DEF TypeOK, SyncType, LocalType, WStates, Procs, GetDone
  <1>4. LocalType'
    BY <1>1
    DEF TypeOK, LocalType, Labels, Procs, GetDone, Goto
  <1>5. Control'
    BY ProcsAssumption
    DEF TypeOK, HandleType, LocalType, Control, IsReader, IsWriter, Procs,
        WLabels, RLabels, SlotLabels, GetDone, Goto, handle
  <1> QED BY <1>2, <1>3, <1>4, <1>5 DEF TypeOK

\* ZeroNextWrite keeps the types and the control invariant.
LEMMA TypeZeroNextWrite ==
    ASSUME TypeOK, Control, NEW p \in Writers,
           ZeroNextWrite(p)
    PROVE  TypeOK' /\ Control'
  <1>1. SyncType' /\ FlagsType' /\ ReadersType' /\ SemType' /\ HandleType'
    BY DEF TypeOK, SyncType, FlagsType, ReadersType, SemType, HandleType,
        ZeroNextWrite, wsync, flags, rsync, consem, datasem, handle, hist
  <1>2. LocalType'
    BY DEF TypeOK, LocalType, Labels, Procs, ZeroNextWrite, Goto, args
  <1>3. Control'
    BY ProcsAssumption
    DEF TypeOK, HandleType, LocalType, Control, IsReader, IsWriter, Procs,
        WLabels, RLabels, SlotLabels, ZeroNextWrite, Goto, handle, IdleWriter
  <1> QED BY <1>1, <1>2, <1>3 DEF TypeOK

\* ZeroDone keeps the types and the control invariant.
LEMMA TypeZeroDone ==
    ASSUME TypeOK, Control, NEW p \in Writers,
           ZeroDone(p)
    PROVE  TypeOK' /\ Control'
  <1>1. w_buf_next % NBUFS \in Bufs
    BY BufIndex DEF TypeOK, SyncType
  <1>2. FlagsType' /\ ReadersType' /\ SemType' /\ HandleType'
    BY DEF TypeOK, FlagsType, ReadersType, SemType, HandleType, ZeroDone,
        flags, rsync, consem, datasem, handle
  <1>3. SyncType'
    BY <1>1 DEF TypeOK, SyncType, ZeroDone, wsync
  <1>4. LocalType'
    BY DEF TypeOK, LocalType, Labels, Procs, ZeroDone, Goto, args
  <1>5. Control'
    BY ProcsAssumption
    DEF TypeOK, HandleType, LocalType, Control, IsReader, IsWriter, Procs,
        WLabels, RLabels, SlotLabels, ZeroDone, Goto, handle
  <1> QED BY <1>2, <1>3, <1>4, <1>5 DEF TypeOK

\* MarkFilledClocked keeps the types and the control invariant.
LEMMA TypeMarkFilledClocked ==
    ASSUME TypeOK, Control, NEW p \in Writers,
           MarkFilledClocked(p)
    PROVE  TypeOK' /\ Control'
  <1>1. FlagsType' /\ ReadersType' /\ SemType' /\ HandleType' /\ LocalType'
    BY DEF TypeOK, FlagsType, ReadersType, SemType, HandleType, LocalType,
        MarkFilledClocked, flags, rsync, consem, datasem, handle, args
  <1>2. SyncType'
    BY DEF TypeOK, SyncType, WStates, Procs, MarkFilledClocked, hist
  <1>3. Control'
    BY ProcsAssumption
    DEF TypeOK, HandleType, LocalType, Control, IsReader, IsWriter, Procs,
        WLabels, RLabels, SlotLabels, MarkFilledClocked, handle, IdleWriter
  <1> QED BY <1>1, <1>2, <1>3 DEF TypeOK

\* MarkFilled keeps the types and the control invariant.
LEMMA TypeMarkFilled ==
    ASSUME TypeOK, Control, NEW p \in Writers,
           NEW n \in 0..BUFSZ,
           MarkFilled(p, n)
    PROVE  TypeOK' /\ Control'
  <1>1. SyncType' /\ FlagsType' /\ ReadersType' /\ SemType' /\ HandleType'
    BY DEF TypeOK, SyncType, FlagsType, ReadersType, SemType, HandleType,
        MarkFilled, wsync, flags, rsync, consem, datasem, handle, hist
  <1>2. LocalType'
    BY SizesAssumption
    DEF TypeOK, HandleType, LocalType, Labels, Procs, MarkFilled, Goto
  <1>3. Control'
    BY ProcsAssumption
    DEF TypeOK, HandleType, LocalType, Control, IsReader, IsWriter, Procs,
        WLabels, RLabels, SlotLabels, MarkFilled, Goto, handle, IdleWriter
  <1> QED BY <1>1, <1>2, <1>3 DEF TypeOK

\* EodAck keeps the types and the control invariant.
LEMMA TypeEodAck ==
    ASSUME TypeOK, Control, NEW p \in Writers,
           EodAck(p)
    PROVE  TypeOK' /\ Control'
  <1>1. SyncType' /\ FlagsType' /\ ReadersType' /\ HandleType'
    BY DEF TypeOK, SyncType, FlagsType, ReadersType, HandleType, EodAck, wsync,
        flags, rsync, handle, hist
  <1>2. SemType'
    BY SlotIndex, SizesAssumption
    DEF TypeOK, SemType, LocalType, Procs, EodAck, consem
  <1>3. LocalType'
    BY AdvanceType
    DEF TypeOK, LocalType, Labels, Procs, EodAck, args
  <1>4. Control'
    BY ProcsAssumption
    DEF TypeOK, HandleType, LocalType, Control, IsReader, IsWriter, Procs,
        WLabels, RLabels, SlotLabels, EodAck, handle
  <1> QED BY <1>1, <1>2, <1>3, <1>4 DEF TypeOK

\* EodSet keeps the types and the control invariant.
LEMMA TypeEodSet ==
    ASSUME TypeOK, Control, NEW p \in Writers,
           EodSet(p)
    PROVE  TypeOK' /\ Control'
  <1>1. (w_xfer + 1) % XFERS \in Xfers
    BY XferIndex DEF TypeOK, SyncType
  <1>2. ReadersType' /\ SemType'
    BY DEF TypeOK, ReadersType, SemType, EodSet, rsync, consem, datasem
  <1>3. SyncType'
    BY <1>1
    DEF TypeOK, SyncType, HandleType, LocalType, WStates, Procs, EodSet,
        SetBoth
  <1>4. FlagsType'
    BY <1>1
    DEF TypeOK, SyncType, FlagsType, HandleType, LocalType, Procs, EodSet
  <1>5. HandleType'
    BY <1>1, XferIndex
    DEF TypeOK, SyncType, HandleType, LocalType, PStates, Procs, EodSet,
        SetBoth, SetState
  <1>6. LocalType'
    BY <1>1, RewindType
    DEF TypeOK, HandleType, LocalType, Labels, Procs, EodSet, Goto
  <1>7. Control'
    BY ProcsAssumption
    DEF TypeOK, HandleType, LocalType, Control, IsReader, IsWriter, Procs,
        WLabels, RLabels, SlotLabels, EodSet, Goto, SetBoth, SetState
  <1> QED BY <1>2, <1>3, <1>4, <1>5, <1>6, <1>7 DEF TypeOK

\* Publish keeps the types and the control invariant.
LEMMA TypePublish ==
    ASSUME TypeOK, Control, NEW p \in Writers,
           Publish(p)
    PROVE  TypeOK' /\ Control'
  <1>1. w_buf_curr % NBUFS \in Bufs
    BY BufIndex DEF TypeOK, SyncType
  <1>2. FlagsType' /\ ReadersType' /\ SemType' /\ HandleType'
    BY DEF TypeOK, FlagsType, ReadersType, SemType, HandleType, Publish, flags,
        rsync, consem, datasem, handle
  <1>3. SyncType'
    BY <1>1
    DEF TypeOK, SyncType, WStates, Procs, Publish, hist
  <1>4. LocalType'
    BY <1>1
    DEF TypeOK, LocalType, Labels, Procs, Publish, Goto
  <1>5. Control'
    BY ProcsAssumption
    DEF TypeOK, HandleType, LocalType, Control, IsReader, IsWriter, Procs,
        WLabels, RLabels, SlotLabels, Publish, Goto, handle
  <1> QED BY <1>2, <1>3, <1>4, <1>5 DEF TypeOK

\* MarkFull keeps the types and the control invariant.
LEMMA TypeMarkFull ==
    ASSUME TypeOK, Control, NEW p \in Writers,
           MarkFull(p)
    PROVE  TypeOK' /\ Control'
  <1>1. i[p] \in Slots /\ i[p] < NREADERS
    BY SlotIndex, SizesAssumption DEF TypeOK, LocalType, Procs, MarkFull
  <1>2. SyncType' /\ FlagsType' /\ ReadersType' /\ HandleType'
    BY DEF TypeOK, SyncType, FlagsType, ReadersType, HandleType, MarkFull,
        wsync, flags, rsync, handle, hist
  <1>3. SemType'
    BY <1>1, SlotIndex, SizesAssumption
    DEF TypeOK, SemType, LocalType, Procs, MarkFull, consem
  <1>4. LocalType'
    BY <1>1, RewindType, AdvanceType
    DEF TypeOK, LocalType, Labels, Procs, MarkFull, Goto, args
  <1>5. Control'
    BY ProcsAssumption
    DEF TypeOK, HandleType, LocalType, Control, IsReader, IsWriter, Procs,
        WLabels, RLabels, SlotLabels, MarkFull, Goto, handle
  <1> QED BY <1>2, <1>3, <1>4, <1>5 DEF TypeOK

\* Reset keeps the types and the control invariant.
LEMMA TypeReset ==
    ASSUME TypeOK, Control, NEW p \in Writers,
           Reset(p)
    PROVE  TypeOK' /\ Control'
  <1>1. SyncType' /\ FlagsType' /\ ReadersType' /\ SemType' /\ HandleType'
    BY DEF TypeOK, SyncType, FlagsType, ReadersType, SemType, HandleType,
        Reset, wsync, flags, rsync, consem, datasem, handle, hist
  <1>2. LocalType'
    BY DEF TypeOK, LocalType, Labels, Procs, Reset, Goto, args
  <1>3. Control'
    BY ProcsAssumption
    DEF TypeOK, HandleType, LocalType, Control, IsReader, IsWriter, Procs,
        WLabels, RLabels, SlotLabels, Reset, Goto, handle, IdleWriter
  <1> QED BY <1>1, <1>2, <1>3 DEF TypeOK

\* ResetClear keeps the types and the control invariant.
LEMMA TypeResetClear ==
    ASSUME TypeOK, Control, NEW p \in Writers,
           ResetClear(p)
    PROVE  TypeOK' /\ Control'
  <1>1. FlagsType' /\ ReadersType' /\ HandleType'
    BY DEF TypeOK, FlagsType, ReadersType, HandleType, ResetClear, flags,
        rsync, handle
  <1>2. SyncType'
    BY TakeClearType
    DEF TypeOK, SyncType, WStates, Procs, ResetClear, wsync, hist
  <1>3. SemType'
    BY TakeClearType
    DEF TypeOK, SemType, LocalType, Procs, ResetClear, consem
  <1>4. LocalType'
    BY TakeClearType
    DEF TypeOK, LocalType, Labels, Procs, ResetClear, args
  <1>5. Control'
    BY ProcsAssumption
    DEF TypeOK, HandleType, LocalType, Control, IsReader, IsWriter, Procs,
        WLabels, RLabels, SlotLabels, ResetClear, handle
  <1> QED BY <1>1, <1>2, <1>3, <1>4, <1>5 DEF TypeOK

\* ResetCleared keeps the types and the control invariant.
LEMMA TypeResetCleared ==
    ASSUME TypeOK, Control, NEW p \in Writers,
           ResetCleared(p)
    PROVE  TypeOK' /\ Control'
  <1>1. SyncType' /\ FlagsType' /\ ReadersType' /\ SemType' /\ HandleType'
    BY DEF TypeOK, SyncType, FlagsType, ReadersType, SemType, HandleType,
        ResetCleared, wsync, flags, rsync, consem, datasem, handle, hist
  <1>2. LocalType'
    BY DEF TypeOK, LocalType, Labels, Procs, ResetCleared, Goto, args
  <1>3. Control'
    BY ProcsAssumption
    DEF TypeOK, HandleType, LocalType, Control, IsReader, IsWriter, Procs,
        WLabels, RLabels, SlotLabels, ResetCleared, Goto, handle
  <1> QED BY <1>1, <1>2, <1>3 DEF TypeOK

\* ResetSod keeps the types and the control invariant.
LEMMA TypeResetSod ==
    ASSUME TypeOK, Control, NEW p \in Writers,
           ResetSod(p)
    PROVE  TypeOK' /\ Control'
  <1>1. SyncType' /\ FlagsType' /\ ReadersType' /\ HandleType'
    BY DEF TypeOK, SyncType, FlagsType, ReadersType, HandleType, ResetSod,
        wsync, flags, rsync, handle, hist
  <1>2. SemType'
    BY SlotIndex, SizesAssumption
    DEF TypeOK, SemType, LocalType, Procs, ResetSod, consem
  <1>3. LocalType'
    BY DEF TypeOK, LocalType, Labels, Procs, ResetSod, Goto, args
  <1>4. Control'
    BY ProcsAssumption
    DEF TypeOK, HandleType, LocalType, Control, IsReader, IsWriter, Procs,
        WLabels, RLabels, SlotLabels, ResetSod, Goto, handle
  <1> QED BY <1>1, <1>2, <1>3, <1>4 DEF TypeOK

\* ResetEod keeps the types and the control invariant.
LEMMA TypeResetEod ==
    ASSUME TypeOK, Control, NEW p \in Writers,
           ResetEod(p)
    PROVE  TypeOK' /\ Control'
  <1>1. i[p] \in Slots
    BY SlotIndex DEF TypeOK, LocalType, Procs, ResetEod
  <1>2. SyncType' /\ FlagsType' /\ HandleType'
    BY DEF TypeOK, SyncType, FlagsType, HandleType, ResetEod, wsync, flags,
        handle, hist
  <1>3. ReadersType'
    BY <1>1, SlotIndex, SizesAssumption
    DEF TypeOK, ReadersType, LocalType, RStates, Procs, ResetEod
  <1>4. SemType'
    BY <1>1, SlotIndex, SizesAssumption
    DEF TypeOK, SemType, LocalType, Procs, ResetEod, consem
  <1>5. LocalType'
    BY <1>1, AdvanceType
    DEF TypeOK, LocalType, Labels, Procs, ResetEod, Goto, args
  <1>6. Control'
    BY ProcsAssumption
    DEF TypeOK, HandleType, LocalType, Control, IsReader, IsWriter, Procs,
        WLabels, RLabels, SlotLabels, ResetEod, Goto, handle
  <1> QED BY <1>2, <1>3, <1>4, <1>5, <1>6 DEF TypeOK

\* ResetDone keeps the types and the control invariant.
LEMMA TypeResetDone ==
    ASSUME TypeOK, Control, NEW p \in Writers,
           ResetDone(p)
    PROVE  TypeOK' /\ Control'
  <1>1. ReadersType' /\ SemType' /\ HandleType'
    BY DEF TypeOK, ReadersType, SemType, HandleType, ResetDone, rsync, consem,
        datasem, handle
  <1>2. SyncType'
    BY DEF TypeOK, SyncType, WStates, Procs, ResetDone
  <1>3. FlagsType'
    BY DEF TypeOK, FlagsType, Procs, ResetDone
  <1>4. LocalType'
    BY RewindType
    DEF TypeOK, LocalType, Labels, Procs, ResetDone, Goto, args
  <1>5. Control'
    BY ProcsAssumption
    DEF TypeOK, HandleType, LocalType, Control, IsReader, IsWriter, Procs,
        WLabels, RLabels, SlotLabels, ResetDone, Goto, handle
  <1> QED BY <1>1, <1>2, <1>3, <1>4, <1>5 DEF TypeOK

\* LockRead keeps the types and the control invariant.
LEMMA TypeLockRead ==
    ASSUME TypeOK, Control, NEW p \in Readers,
           LockRead(p)
    PROVE  TypeOK' /\ Control'
  <1>1. SyncType' /\ FlagsType' /\ ReadersType' /\ HandleType'
    BY DEF TypeOK, SyncType, FlagsType, ReadersType, HandleType, LockRead,
        wsync, flags, rsync, handle, hist
  <1>2. SemType'
    BY DEF TypeOK, SemType, Procs, LockRead, datasem
  <1>3. LocalType'
    BY DEF TypeOK, LocalType, Labels, Procs, LockRead, Goto, args
  <1>4. Control'
    BY ProcsAssumption
    DEF TypeOK, HandleType, LocalType, Control, IsReader, IsWriter, Procs,
        WLabels, RLabels, SlotLabels, LockRead, Goto, handle
  <1> QED BY <1>1, <1>2, <1>3, <1>4 DEF TypeOK

\* LockReadOrder keeps the types and the control invariant.
LEMMA TypeLockReadOrder ==
    ASSUME TypeOK, Control, NEW p \in Readers,
           LockReadOrder(p)
    PROVE  TypeOK' /\ Control'
  <1>1. SyncType' /\ FlagsType' /\ ReadersType' /\ SemType' /\ HandleType'
    BY DEF TypeOK, SyncType, FlagsType, ReadersType, SemType, HandleType,
        LockReadOrder, wsync, flags, rsync, consem, datasem, handle, hist
  <1>2. LocalType'
    BY DEF TypeOK, ReadersType, LocalType, Labels, Procs, LockReadOrder, Goto,
        args
  <1>3. Control'
    BY ProcsAssumption
    DEF TypeOK, HandleType, LocalType, Control, IsReader, IsWriter, Procs,
        WLabels, RLabels, SlotLabels, LockReadOrder, Goto, handle
  <1> QED BY <1>1, <1>2, <1>3 DEF TypeOK

\* LockReadTry keeps the types and the control invariant.
LEMMA TypeLockReadTry ==
    ASSUME TypeOK, Control, NEW p \in Readers,
           LockReadTry(p)
    PROVE  TypeOK' /\ Control'
  <1>1. SyncType' /\ FlagsType' /\ ReadersType'
    BY DEF TypeOK, SyncType, FlagsType, ReadersType, LockReadTry, wsync, flags,
        rsync, hist
  <1>2. SemType'
    BY SlotIndex
    DEF TypeOK, SemType, LocalType, Procs, LockReadTry, datasem
  <1>3. HandleType'
    BY SlotIndex
    DEF TypeOK, HandleType, LocalType, PStates, Procs, LockReadTry
  <1>4. LocalType'
    BY RewindType
    DEF TypeOK, LocalType, Labels, Procs, LockReadTry, Goto, args
  <1>5. Control'
    BY ProcsAssumption, SlotIndex
    DEF TypeOK, HandleType, LocalType, Control, IsReader, IsWriter, Procs,
        WLabels, RLabels, SlotLabels, LockReadTry, Goto
  <1> QED BY <1>1, <1>2, <1>3, <1>4, <1>5 DEF TypeOK

\* LockReadSkip keeps the types and the control invariant.
LEMMA TypeLockReadSkip ==
    ASSUME TypeOK, Control, NEW p \in Readers,
           LockReadSkip(p)
    PROVE  TypeOK' /\ Control'
  <1>1. SyncType' /\ FlagsType' /\ ReadersType' /\ SemType' /\ HandleType'
    BY DEF TypeOK, SyncType, FlagsType, ReadersType, SemType, HandleType,
        LockReadSkip, wsync, flags, rsync, consem, datasem, handle, hist
  <1>2. LocalType'
    BY AdvanceType
    DEF TypeOK, LocalType, Labels, Procs, LockReadSkip, args
  <1>3. Control'
    BY ProcsAssumption
    DEF TypeOK, HandleType, LocalType, Control, IsReader, IsWriter, Procs,
        WLabels, RLabels, SlotLabels, LockReadSkip, handle
  <1> QED BY <1>1, <1>2, <1>3 DEF TypeOK

\* LockReadFail keeps the types and the control invariant.
LEMMA TypeLockReadFail ==
    ASSUME TypeOK, Control, NEW p \in Readers,
           LockReadFail(p)
    PROVE  TypeOK' /\ Control'
  <1>1. SyncType' /\ FlagsType' /\ ReadersType' /\ SemType' /\ HandleType'
    BY DEF TypeOK, SyncType, FlagsType, ReadersType, SemType, HandleType,
        LockReadFail, wsync, flags, rsync, consem, datasem, handle, hist
  <1>2. LocalType'
    BY DEF TypeOK, LocalType, Labels, Procs, LockReadFail, Goto, args
  <1>3. Control'
    BY ProcsAssumption
    DEF TypeOK, HandleType, LocalType, Control, IsReader, IsWriter, Procs,
        WLabels, RLabels, SlotLabels, LockReadFail, Goto, handle
  <1> QED BY <1>1, <1>2, <1>3 DEF TypeOK

\* LockReadState keeps the types and the control invariant.
LEMMA TypeLockReadState ==
    ASSUME TypeOK, Control, NEW p \in Readers,
           LockReadState(p)
    PROVE  TypeOK' /\ Control'
  <1>1. iread[p] \in Slots
    BY DEF Control, IsReader, SlotLabels, LockReadState
  <1>2. SyncType' /\ FlagsType' /\ SemType'
    BY DEF TypeOK, SyncType, FlagsType, SemType, LockReadState, wsync, flags,
        consem, datasem, hist
  <1>3. ReadersType'
    BY <1>1
    DEF TypeOK, ReadersType, HandleType, RStates, Procs, LockReadState
  <1>4. HandleType'
    BY <1>1, XferIndex
    DEF TypeOK, ReadersType, HandleType, PStates, Procs, LockReadState,
        SetState
  <1>5. LocalType'
    BY <1>1
    DEF TypeOK, ReadersType, HandleType, LocalType, Labels, Procs,
        LockReadState, Goto, args
  <1>6. Control'
    BY ProcsAssumption
    DEF TypeOK, HandleType, LocalType, Control, IsReader, IsWriter, Procs,
        WLabels, RLabels, SlotLabels, LockReadState, Goto, SetState
  <1> QED BY <1>2, <1>3, <1>4, <1>5, <1>6 DEF TypeOK

\* UnlockRead keeps the types and the control invariant.
LEMMA TypeUnlockRead ==
    ASSUME TypeOK, Control, NEW p \in Readers,
           UnlockRead(p)
    PROVE  TypeOK' /\ Control'
  <1>1. iread[p] \in Slots
    BY DEF Control, IsReader, SlotLabels, IdleReader, UnlockRead
  <1>2. SyncType' /\ FlagsType' /\ ReadersType' /\ HandleType'
    BY DEF TypeOK, SyncType, FlagsType, ReadersType, HandleType, UnlockRead,
        wsync, flags, rsync, handle, hist
  <1>3. SemType'
    BY <1>1
    DEF TypeOK, SemType, HandleType, Procs, UnlockRead, datasem
  <1>4. LocalType'
    BY <1>1
    DEF TypeOK, LocalType, Labels, Procs, UnlockRead, Goto, args
  <1>5. Control'
    BY ProcsAssumption
    DEF TypeOK, HandleType, LocalType, Control, IsReader, IsWriter, Procs,
        WLabels, RLabels, SlotLabels, UnlockRead, Goto, handle, IdleReader
  <1> QED BY <1>2, <1>3, <1>4, <1>5 DEF TypeOK

\* UnlockReadRole keeps the types and the control invariant.
LEMMA TypeUnlockReadRole ==
    ASSUME TypeOK, Control, NEW p \in Readers,
           UnlockReadRole(p)
    PROVE  TypeOK' /\ Control'
  <1>1. SyncType' /\ FlagsType' /\ ReadersType' /\ HandleType'
    BY DEF TypeOK, SyncType, FlagsType, ReadersType, HandleType,
        UnlockReadRole, wsync, flags, rsync, handle, hist
  <1>2. SemType'
    BY DEF TypeOK, SemType, Procs, UnlockReadRole, datasem
  <1>3. LocalType'
    BY DEF TypeOK, LocalType, Labels, Procs, UnlockReadRole, Goto, args
  <1>4. Control'
    BY ProcsAssumption
    DEF TypeOK, HandleType, LocalType, Control, IsReader, IsWriter, Procs,
        WLabels, RLabels, SlotLabels, UnlockReadRole, Goto, handle
  <1> QED BY <1>1, <1>2, <1>3, <1>4 DEF TypeOK

\* UnlockReadState keeps the types and the control invariant.
LEMMA TypeUnlockReadState ==
    ASSUME TypeOK, Control, NEW p \in Readers,
           UnlockReadState(p)
    PROVE  TypeOK' /\ Control'
  <1>1. iread[p] \in Slots
    BY DEF Control, IsReader, SlotLabels, UnlockReadState
  <1>2. SyncType' /\ FlagsType' /\ SemType'
    BY DEF TypeOK, SyncType, FlagsType, SemType, UnlockReadState, wsync, flags,
        consem, datasem, hist
  <1>3. ReadersType'
    BY <1>1
    DEF TypeOK, ReadersType, HandleType, RStates, Procs, UnlockReadState
  <1>4. HandleType'
    BY <1>1
    DEF TypeOK, HandleType, PStates, Procs, UnlockReadState, SetState
  <1>5. LocalType'
    BY <1>1
    DEF TypeOK, LocalType, Labels, Procs, UnlockReadState, Goto, args
  <1>6. Control'
    BY ProcsAssumption
    DEF TypeOK, HandleType, LocalType, Control, IsReader, IsWriter, Procs,
        WLabels, RLabels, SlotLabels, UnlockReadState, Goto, SetState
  <1> QED BY <1>2, <1>3, <1>4, <1>5, <1>6 DEF TypeOK

\* GetNextRead keeps the types and the control invariant.
LEMMA TypeGetNextRead ==
    ASSUME TypeOK, Control, NEW p \in Readers,
           GetNextRead(p)
    PROVE  TypeOK' /\ Control'
  <1>1. iread[p] \in Slots
    BY DEF Control, IsReader, SlotLabels, IdleReader, GetNextRead
  <1>2. SyncType' /\ FlagsType' /\ ReadersType' /\ HandleType'
    BY DEF TypeOK, SyncType, FlagsType, ReadersType, HandleType, GetNextRead,
        wsync, flags, rsync, handle, hist
  <1>3. SemType'
    BY <1>1
    DEF TypeOK, SemType, HandleType, Procs, GetNextRead, consem
  <1>4. LocalType'
    BY <1>1
    DEF TypeOK, HandleType, LocalType, Labels, Procs, GetNextRead, Goto, args
  <1>5. Control'
    BY ProcsAssumption
    DEF TypeOK, HandleType, LocalType, Control, IsReader, IsWriter, Procs,
        WLabels, RLabels, SlotLabels, GetNextRead, Goto, handle, IdleReader
  <1> QED BY <1>2, <1>3, <1>4, <1>5 DEF TypeOK

\* SodInc keeps the types and the control invariant.
LEMMA TypeSodInc ==
    ASSUME TypeOK, Control, NEW p \in Readers,
           SodInc(p)
    PROVE  TypeOK' /\ Control'
  <1>1. iread[p] \in Slots
    BY DEF Control, IsReader, SlotLabels, SodInc
  <1>2. SyncType' /\ FlagsType'
    BY DEF TypeOK, SyncType, FlagsType, SodInc, wsync, flags, hist
  <1>3. ReadersType'
    BY <1>1, XferIndex
    DEF TypeOK, FlagsType, ReadersType, HandleType, RStates, Procs, SodInc
  <1>4. SemType'
    BY <1>1, XferIndex
    DEF TypeOK, ReadersType, SemType, HandleType, Procs, SodInc, consem
  <1>5. HandleType'
    BY <1>1, XferIndex
    DEF TypeOK, ReadersType, HandleType, PStates, Procs, SodInc, SetState
  <1>6. LocalType'
    BY <1>1, XferIndex
    DEF TypeOK, FlagsType, ReadersType, HandleType, LocalType, Labels, Procs,
        SodInc, Goto
  <1>7. Control'
    BY ProcsAssumption
    DEF TypeOK, HandleType, LocalType, Control, IsReader, IsWriter, Procs,
        WLabels, RLabels, SlotLabels, SodInc, Goto, SetState
  <1> QED BY <1>2, <1>3, <1>4, <1>5, <1>6, <1>7 DEF TypeOK

\* ReadBytes keeps the types and the control invariant.
LEMMA TypeReadBytes ==
    ASSUME TypeOK, Control, NEW p \in Readers,
           ReadBytes(p)
    PROVE  TypeOK' /\ Control'
  <1>1. SyncType' /\ FlagsType' /\ ReadersType' /\ SemType' /\ HandleType'
    BY DEF TypeOK, SyncType, FlagsType, ReadersType, SemType, HandleType,
        ReadBytes, wsync, flags, rsync, consem, datasem, handle, hist
  <1>2. LocalType'
    BY U64Type, SizesAssumption
    DEF TypeOK, FlagsType, HandleType, LocalType, Labels, Procs, ReadBytes,
        Goto
  <1>3. Control'
    BY ProcsAssumption
    DEF TypeOK, HandleType, LocalType, Control, IsReader, IsWriter, Procs,
        WLabels, RLabels, SlotLabels, ReadBytes, Goto, handle
  <1> QED BY <1>1, <1>2, <1>3 DEF TypeOK

\* MarkCleared keeps the types and the control invariant.
LEMMA TypeMarkCleared ==
    ASSUME TypeOK, Control, NEW p \in Readers,
           MarkCleared(p)
    PROVE  TypeOK' /\ Control'
  <1>1. iread[p] \in Slots
    BY DEF Control, IsReader, SlotLabels, MarkCleared
  <1>2. SyncType' /\ FlagsType' /\ ReadersType' /\ HandleType'
    BY DEF TypeOK, SyncType, FlagsType, ReadersType, HandleType, MarkCleared,
        wsync, flags, rsync, handle, hist
  <1>3. SemType'
    BY <1>1
    DEF TypeOK, SemType, HandleType, Procs, MarkCleared, consem
  <1>4. LocalType'
    BY <1>1
    DEF TypeOK, HandleType, LocalType, Labels, Procs, MarkCleared, Goto
  <1>5. Control'
    BY ProcsAssumption
    DEF TypeOK, HandleType, LocalType, Control, IsReader, IsWriter, Procs,
        WLabels, RLabels, SlotLabels, MarkCleared, Goto, handle
  <1> QED BY <1>2, <1>3, <1>4, <1>5 DEF TypeOK

\* ClearedNext keeps the types and the control invariant.
LEMMA TypeClearedNext ==
    ASSUME TypeOK, Control, NEW p \in Readers,
           ClearedNext(p)
    PROVE  TypeOK' /\ Control'
  <1>1. iread[p] \in Slots
    BY DEF Control, IsReader, SlotLabels, ClearedNext
  <1>2. SyncType' /\ FlagsType' /\ SemType' /\ HandleType'
    BY DEF TypeOK, SyncType, FlagsType, SemType, HandleType, ClearedNext,
        wsync, flags, consem, datasem, handle, hist
  <1>3. ReadersType'
    BY <1>1
    DEF TypeOK, ReadersType, HandleType, RStates, Procs, ClearedNext
  <1>4. LocalType'
    BY <1>1
    DEF TypeOK, LocalType, Labels, Procs, ClearedNext, Goto, args
  <1>5. Control'
    BY ProcsAssumption
    DEF TypeOK, HandleType, LocalType, Control, IsReader, IsWriter, Procs,
        WLabels, RLabels, SlotLabels, ClearedNext, Goto, handle
  <1> QED BY <1>2, <1>3, <1>4, <1>5 DEF TypeOK

\* ClearedEod keeps the types and the control invariant.
LEMMA TypeClearedEod ==
    ASSUME TypeOK, Control, NEW p \in Readers,
           ClearedEod(p)
    PROVE  TypeOK' /\ Control'
  <1>1. iread[p] \in Slots
    BY DEF Control, IsReader, SlotLabels, ClearedEod
  <1>2. SyncType' /\ FlagsType'
    BY DEF TypeOK, SyncType, FlagsType, ClearedEod, wsync, flags, hist
  <1>3. ReadersType'
    BY <1>1
    DEF TypeOK, ReadersType, HandleType, RStates, Procs, ClearedEod
  <1>4. SemType'
    BY <1>1
    DEF TypeOK, SemType, HandleType, Procs, ClearedEod, consem
  <1>5. HandleType'
    BY <1>1, XferIndex
    DEF TypeOK, ReadersType, HandleType, PStates, Procs, ClearedEod, SetState
  <1>6. LocalType'
    BY <1>1
    DEF TypeOK, HandleType, LocalType, Labels, Procs, ClearedEod, Goto, args
  <1>7. Control'
    BY ProcsAssumption
    DEF TypeOK, HandleType, LocalType, Control, IsReader, IsWriter, Procs,
        WLabels, RLabels, SlotLabels, ClearedEod, Goto, SetState
  <1> QED BY <1>2, <1>3, <1>4, <1>5, <1>6, <1>7 DEF TypeOK

\* ResetRead keeps the types and the control invariant.
LEMMA TypeResetRead ==
    ASSUME TypeOK, Control, NEW p \in Readers,
           ResetRead(p)
    PROVE  TypeOK' /\ Control'
  <1>1. SyncType' /\ FlagsType' /\ SemType' /\ LocalType'
    BY DEF TypeOK, SyncType, FlagsType, SemType, LocalType, ResetRead, wsync,
        flags, consem, datasem, args, hist
  <1>2. ReadersType'
    BY DEF TypeOK, ReadersType, HandleType, RStates, Procs, ResetRead
  <1>3. HandleType'
    BY DEF TypeOK, HandleType, PStates, Procs, ResetRead, SetState
  <1>4. Control'
    BY ProcsAssumption
    DEF TypeOK, HandleType, LocalType, Control, IsReader, IsWriter, Procs,
        WLabels, RLabels, SlotLabels, ResetRead, SetState, IdleReader
  <1> QED BY <1>1, <1>2, <1>3, <1>4 DEF TypeOK

\* Every step keeps the types and the control invariant.
LEMMA TypeNext ==
    ASSUME TypeOK, Control, [Next]_vars
    PROVE  TypeOK' /\ Control'
  <1>1. ASSUME NEW p \in Writers, LockWrite(p)
       PROVE  TypeOK' /\ Control'
    BY <1>1, TypeLockWrite
  <1>2. ASSUME NEW p \in Writers, UnlockWrite(p)
       PROVE  TypeOK' /\ Control'
    BY <1>2, TypeUnlockWrite
  <1>3. ASSUME NEW p \in Writers, RelockWrite(p)
       PROVE  TypeOK' /\ Control'
    BY <1>3, TypeRelockWrite
  <1>4. ASSUME NEW p \in Writers, EnableEod(p)
       PROVE  TypeOK' /\ Control'
    BY <1>4, TypeEnableEod
  <1>5. ASSUME NEW p \in Writers, DisableSod(p)
       PROVE  TypeOK' /\ Control'
    BY <1>5, TypeDisableSod
  <1>6. ASSUME NEW p \in Writers, SetSoclockBuf(p)
       PROVE  TypeOK' /\ Control'
    BY <1>6, TypeSetSoclockBuf
  <1>7. ASSUME NEW p \in Writers, NEW b \in 0..MaxBlock, NEW y \in 0..BUFSZ,
             EnableSod(p, b, y)
       PROVE  TypeOK' /\ Control'
    BY <1>7, TypeEnableSod
  <1>8. ASSUME NEW p \in Writers, GetNextWrite(p)
       PROVE  TypeOK' /\ Control'
    BY <1>8, TypeGetNextWrite
  <1>9. ASSUME NEW p \in Writers, ZeroNextWrite(p)
       PROVE  TypeOK' /\ Control'
    BY <1>9, TypeZeroNextWrite
  <1>10. ASSUME NEW p \in Writers, MarkFilledClocked(p)
       PROVE  TypeOK' /\ Control'
    BY <1>10, TypeMarkFilledClocked
  <1>11. ASSUME NEW p \in Writers, NEW n \in 0..BUFSZ, MarkFilled(p, n)
       PROVE  TypeOK' /\ Control'
    BY <1>11, TypeMarkFilled
  <1>12. ASSUME NEW p \in Writers, "reset" \in Uses, Reset(p)
       PROVE  TypeOK' /\ Control'
    BY <1>12, TypeReset
  <1>13. ASSUME NEW p \in Writers, WriterCall(p)
       PROVE  TypeOK' /\ Control'
    BY <1>13, <1>1, <1>2, <1>3, <1>4, <1>5, <1>6, <1>7, <1>8, <1>9, <1>10,
        <1>11, <1>12 DEF WriterCall
  <1>14. ASSUME NEW p \in Writers, LockWriteState(p)
       PROVE  TypeOK' /\ Control'
    BY <1>14, TypeLockWriteState
  <1>15. ASSUME NEW p \in Writers, UnlockWriteState(p)
       PROVE  TypeOK' /\ Control'
    BY <1>15, TypeUnlockWriteState
  <1>16. ASSUME NEW p \in Writers, SodAck(p)
       PROVE  TypeOK' /\ Control'
    BY <1>16, TypeSodAck
  <1>17. ASSUME NEW p \in Writers, SodSet(p)
       PROVE  TypeOK' /\ Control'
    BY <1>17, TypeSodSet
  <1>18. ASSUME NEW p \in Writers, SodFull(p)
       PROVE  TypeOK' /\ Control'
    BY <1>18, TypeSodFull
  <1>19. ASSUME NEW p \in Writers, SodDone(p)
       PROVE  TypeOK' /\ Control'
    BY <1>19, TypeSodDone
  <1>20. ASSUME NEW p \in Writers, GetClear(p)
       PROVE  TypeOK' /\ Control'
    BY <1>20, TypeGetClear
  <1>21. ASSUME NEW p \in Writers, GetDone(p)
       PROVE  TypeOK' /\ Control'
    BY <1>21, TypeGetDone
  <1>50. ASSUME NEW p \in Writers, ZeroDone(p)
       PROVE  TypeOK' /\ Control'
    BY <1>50, TypeZeroDone
  <1>22. ASSUME NEW p \in Writers, EodAck(p)
       PROVE  TypeOK' /\ Control'
    BY <1>22, TypeEodAck
  <1>23. ASSUME NEW p \in Writers, EodSet(p)
       PROVE  TypeOK' /\ Control'
    BY <1>23, TypeEodSet
  <1>24. ASSUME NEW p \in Writers, Publish(p)
       PROVE  TypeOK' /\ Control'
    BY <1>24, TypePublish
  <1>25. ASSUME NEW p \in Writers, MarkFull(p)
       PROVE  TypeOK' /\ Control'
    BY <1>25, TypeMarkFull
  <1>26. ASSUME NEW p \in Writers, ResetClear(p)
       PROVE  TypeOK' /\ Control'
    BY <1>26, TypeResetClear
  <1>27. ASSUME NEW p \in Writers, ResetCleared(p)
       PROVE  TypeOK' /\ Control'
    BY <1>27, TypeResetCleared
  <1>28. ASSUME NEW p \in Writers, ResetSod(p)
       PROVE  TypeOK' /\ Control'
    BY <1>28, TypeResetSod
  <1>29. ASSUME NEW p \in Writers, ResetEod(p)
       PROVE  TypeOK' /\ Control'
    BY <1>29, TypeResetEod
  <1>30. ASSUME NEW p \in Writers, ResetDone(p)
       PROVE  TypeOK' /\ Control'
    BY <1>30, TypeResetDone
  <1>31. ASSUME NEW p \in Writers, WriterStep(p)
       PROVE  TypeOK' /\ Control'
    BY <1>31, <1>14, <1>15, <1>16, <1>17, <1>18, <1>19, <1>20, <1>21, <1>50, <1>22,
        <1>23, <1>24, <1>25, <1>26, <1>27, <1>28, <1>29, <1>30 DEF WriterStep
  <1>32. ASSUME NEW p \in Readers, LockRead(p)
       PROVE  TypeOK' /\ Control'
    BY <1>32, TypeLockRead
  <1>33. ASSUME NEW p \in Readers, GetNextRead(p)
       PROVE  TypeOK' /\ Control'
    BY <1>33, TypeGetNextRead
  <1>34. ASSUME NEW p \in Readers, MarkCleared(p)
       PROVE  TypeOK' /\ Control'
    BY <1>34, TypeMarkCleared
  <1>35. ASSUME NEW p \in Readers, ResetRead(p)
       PROVE  TypeOK' /\ Control'
    BY <1>35, TypeResetRead
  <1>36. ASSUME NEW p \in Readers, UnlockRead(p)
       PROVE  TypeOK' /\ Control'
    BY <1>36, TypeUnlockRead
  <1>37. ASSUME NEW p \in Readers, LockReadOrder(p)
       PROVE  TypeOK' /\ Control'
    BY <1>37, TypeLockReadOrder
  <1>38. ASSUME NEW p \in Readers, LockReadTry(p)
       PROVE  TypeOK' /\ Control'
    BY <1>38, TypeLockReadTry
  <1>39. ASSUME NEW p \in Readers, LockReadSkip(p)
       PROVE  TypeOK' /\ Control'
    BY <1>39, TypeLockReadSkip
  <1>40. ASSUME NEW p \in Readers, LockReadFail(p)
       PROVE  TypeOK' /\ Control'
    BY <1>40, TypeLockReadFail
  <1>41. ASSUME NEW p \in Readers, LockReadState(p)
       PROVE  TypeOK' /\ Control'
    BY <1>41, TypeLockReadState
  <1>42. ASSUME NEW p \in Readers, UnlockReadRole(p)
       PROVE  TypeOK' /\ Control'
    BY <1>42, TypeUnlockReadRole
  <1>43. ASSUME NEW p \in Readers, UnlockReadState(p)
       PROVE  TypeOK' /\ Control'
    BY <1>43, TypeUnlockReadState
  <1>44. ASSUME NEW p \in Readers, SodInc(p)
       PROVE  TypeOK' /\ Control'
    BY <1>44, TypeSodInc
  <1>45. ASSUME NEW p \in Readers, ReadBytes(p)
       PROVE  TypeOK' /\ Control'
    BY <1>45, TypeReadBytes
  <1>46. ASSUME NEW p \in Readers, ClearedNext(p)
       PROVE  TypeOK' /\ Control'
    BY <1>46, TypeClearedNext
  <1>47. ASSUME NEW p \in Readers, ClearedEod(p)
       PROVE  TypeOK' /\ Control'
    BY <1>47, TypeClearedEod
  <1>48. ASSUME NEW p \in Readers, ReaderCall(p) \/ ReaderStep(p) \/ ReaderLeaves(p)
       PROVE  TypeOK' /\ Control'
    BY <1>48, <1>32, <1>33, <1>34, <1>35, <1>36, <1>37, <1>38, <1>39, <1>40,
        <1>41, <1>42, <1>43, <1>44, <1>45, <1>46, <1>47 DEF ReaderCall,
        ReaderStep, ReaderLeaves
  <1>49. CASE UNCHANGED vars
    BY <1>49 DEF TypeOK, SyncType, FlagsType, ReadersType, SemType, HandleType,
       LocalType, Control, IsReader, IsWriter, vars, wsync, flags, rsync, consem,
       datasem, handle, args, hist
  <1> QED BY <1>13, <1>31, <1>48, <1>49 DEF Next, Rest, ZeroPoll

\* They hold in the ring that ipcbuf_create leaves behind.
LEMMA TypeInit == Init => TypeOK /\ Control
  <1> SUFFICES ASSUME Init PROVE TypeOK /\ Control
    OBVIOUS
  <1>1. 0 \in Xfers
    BY SizesAssumption DEF Xfers
  <1>2. SyncType /\ FlagsType /\ ReadersType
    BY DEF Init, SyncType, WStates, FlagsType, ReadersType, RStates
  <1>3. SemType
    BY SizesAssumption DEF Init, SemType
  <1>4. HandleType
    BY <1>1 DEF Init, HandleType, PStates
  <1>5. LocalType
    BY SizesAssumption DEF Init, LocalType, Labels
  <1>6. Control
    BY DEF Init, Control, IsReader, IsWriter, Procs, WLabels, RLabels, SlotLabels
  <1> QED BY <1>2, <1>3, <1>4, <1>5, <1>6 DEF TypeOK

\* For every number of buffers, readers and processes, and every client the
\* constants describe: the fields of ipcsync_t and of the handles keep their
\* types, no array of ipcsync_t is indexed out of its bounds and no semaphore
\* goes below zero.
THEOREM TypeCorrect == Spec => []TypeOK
  <1>1. Init => TypeOK /\ Control
    BY TypeInit
  <1>2. TypeOK /\ Control /\ [Next]_vars => TypeOK' /\ Control'
    BY TypeNext
  <1> QED BY <1>1, <1>2, PTL DEF Spec

-----------------------------------------------------------------------------
(* WRITE: the semaphore is 1 exactly when nobody holds the role, so two    *)
(* processes cannot both have decremented it.                              *)

WriteToken == WRITE = IF \E p \in Writers : HoldsWrite(p) THEN 0 ELSE 1

\* A step that neither takes nor gives back WRITE.
WriteSame == WRITE' = WRITE /\ \A q \in Writers : HoldsWrite(q)' = HoldsWrite(q)

\* Such a step keeps the account of WRITE.
LEMMA WriteFrame ==
    ASSUME WriterExclusion, WriteToken, WriteSame
    PROVE  WriterExclusion' /\ WriteToken'
  BY DEF WriterExclusion, WriteToken, WriteSame

\* Every step of the library keeps the account of WRITE.
LEMMA WriteNext ==
    ASSUME TypeOK, Control, WriterExclusion, WriteToken, [Next]_vars
    PROVE  WriterExclusion' /\ WriteToken'
  <1>1. ASSUME NEW p \in Writers, LockWrite(p)
       PROVE  WriterExclusion' /\ WriteToken'
    <2>1. \A q \in Writers : ~HoldsWrite(q)
      BY <1>1 DEF LockWrite, WriteToken
    <2>2. WRITE' = 0
      BY <1>1, <2>1 DEF LockWrite, WriteToken
    <2>3. \A q \in Writers : HoldsWrite(q)' <=> q = p
      BY <1>1, <2>1
      DEF LockWrite, HoldsWrite, IsWriter, Goto, handle, TypeOK, LocalType, Procs
    <2> QED BY <2>2, <2>3 DEF WriterExclusion, WriteToken
  <1>2. ASSUME NEW p \in Writers, UnlockWrite(p)
       PROVE  WriterExclusion' /\ WriteToken'
    <2>1. HoldsWrite(p)
      BY <1>2 DEF UnlockWrite, IdleWriter, HoldsWrite
    <2>2. WRITE' = 1
      BY <1>2, <2>1 DEF UnlockWrite, WriteToken
    <2>3. \A q \in Writers : ~HoldsWrite(q)'
      <3> SUFFICES ASSUME NEW q \in Writers PROVE ~HoldsWrite(q)'
        OBVIOUS
      <3>1. CASE q = p
        BY <1>2, <3>1 DEF UnlockWrite, HoldsWrite, Goto, TypeOK, LocalType, Procs
      <3>2. CASE q # p
        <4>1. ~HoldsWrite(q)
          BY <2>1, <3>2 DEF WriterExclusion
        <4> QED BY <1>2, <3>2, <4>1
            DEF UnlockWrite, HoldsWrite, IsWriter, Goto, handle, TypeOK,
                LocalType, Procs
      <3> QED BY <3>1, <3>2
    <2> QED BY <2>2, <2>3 DEF WriterExclusion, WriteToken
  <1>3. ASSUME NEW p \in Writers, RelockWrite(p)
       PROVE  WriterExclusion' /\ WriteToken'
    <2>1. WriteSame
      BY <1>3, ProcsAssumption
      DEF HoldsWrite, IsWriter, TypeOK, HandleType, LocalType, Control, Procs,
          WriteSame, RelockWrite, SetBoth, SetState, IdleWriter, consem
    <2> QED BY <2>1, WriteFrame
  <1>4. ASSUME NEW p \in Writers, EnableEod(p)
       PROVE  WriterExclusion' /\ WriteToken'
    <2>1. WriteSame
      BY <1>4, ProcsAssumption
      DEF HoldsWrite, IsWriter, TypeOK, HandleType, LocalType, Control, Procs,
          WriteSame, EnableEod, Goto, SetBoth, SetState, IdleWriter, consem
    <2> QED BY <2>1, WriteFrame
  <1>5. ASSUME NEW p \in Writers, DisableSod(p)
       PROVE  WriterExclusion' /\ WriteToken'
    <2>1. WriteSame
      BY <1>5, ProcsAssumption
      DEF HoldsWrite, IsWriter, TypeOK, HandleType, LocalType, Control, Procs,
          WriteSame, DisableSod, SetBoth, SetState, IdleWriter, consem
    <2> QED BY <2>1, WriteFrame
  <1>6. ASSUME NEW p \in Writers, SetSoclockBuf(p)
       PROVE  WriterExclusion' /\ WriteToken'
    <2>1. WriteSame
      BY <1>6, ProcsAssumption
      DEF HoldsWrite, IsWriter, TypeOK, HandleType, LocalType, Control, Procs,
          WriteSame, SetSoclockBuf, IdleWriter, consem
    <2> QED BY <2>1, WriteFrame
  <1>7. ASSUME NEW p \in Writers, NEW b \in 0..MaxBlock, NEW y \in 0..BUFSZ,
             EnableSod(p, b, y)
       PROVE  WriterExclusion' /\ WriteToken'
    <2>1. WriteSame
      BY <1>7, ProcsAssumption
      DEF HoldsWrite, IsWriter, TypeOK, HandleType, LocalType, Control, Procs,
          WriteSame, EnableSod, CallEnableSod, Goto, IdleWriter, consem,
          handle
    <2> QED BY <2>1, WriteFrame
  <1>8. ASSUME NEW p \in Writers, GetNextWrite(p)
       PROVE  WriterExclusion' /\ WriteToken'
    <2>1. WriteSame
      BY <1>8, ProcsAssumption
      DEF HoldsWrite, IsWriter, TypeOK, HandleType, LocalType, Control, Procs,
          WriteSame, GetNextWrite, Goto, CallEnableSod, IdleWriter, consem,
          handle
    <2> QED BY <2>1, WriteFrame
  <1>9. ASSUME NEW p \in Writers, ZeroNextWrite(p)
       PROVE  WriterExclusion' /\ WriteToken'
    <2>1. WriteSame
      BY <1>9, ProcsAssumption
      DEF HoldsWrite, IsWriter, TypeOK, HandleType, LocalType, Control, Procs,
          WriteSame, ZeroNextWrite, Goto, IdleWriter, consem, handle
    <2> QED BY <2>1, WriteFrame
  <1>10. ASSUME NEW p \in Writers, MarkFilledClocked(p)
       PROVE  WriterExclusion' /\ WriteToken'
    <2>1. WriteSame
      BY <1>10, ProcsAssumption
      DEF HoldsWrite, IsWriter, TypeOK, HandleType, LocalType, Control, Procs,
          WriteSame, MarkFilledClocked, IdleWriter, consem, handle
    <2> QED BY <2>1, WriteFrame
  <1>11. ASSUME NEW p \in Writers, NEW n \in 0..BUFSZ, MarkFilled(p, n)
       PROVE  WriterExclusion' /\ WriteToken'
    <2>1. WriteSame
      BY <1>11, ProcsAssumption
      DEF HoldsWrite, IsWriter, TypeOK, HandleType, LocalType, Control, Procs,
          WriteSame, MarkFilled, Goto, IdleWriter, consem, handle
    <2> QED BY <2>1, WriteFrame
  <1>12. ASSUME NEW p \in Writers, "reset" \in Uses, Reset(p)
       PROVE  WriterExclusion' /\ WriteToken'
    <2>1. WriteSame
      BY <1>12, ProcsAssumption
      DEF HoldsWrite, IsWriter, TypeOK, HandleType, LocalType, Control, Procs,
          WriteSame, Reset, Goto, IdleWriter, consem, handle
    <2> QED BY <2>1, WriteFrame
  <1>13. ASSUME NEW p \in Writers, WriterCall(p)
       PROVE  WriterExclusion' /\ WriteToken'
    BY <1>13, <1>1, <1>2, <1>3, <1>4, <1>5, <1>6, <1>7, <1>8, <1>9, <1>10,
        <1>11, <1>12 DEF WriterCall
  <1>14. ASSUME NEW p \in Writers, LockWriteState(p)
       PROVE  WriterExclusion' /\ WriteToken'
    <2>1. WriteSame
      BY <1>14, ProcsAssumption
      DEF HoldsWrite, IsWriter, TypeOK, HandleType, LocalType, Control, Procs,
          WriteSame, LockWriteState, Goto, SetBoth, SetState, consem
    <2> QED BY <2>1, WriteFrame
  <1>15. ASSUME NEW p \in Writers, UnlockWriteState(p)
       PROVE  WriterExclusion' /\ WriteToken'
    <2>1. WriteSame
      BY <1>15, ProcsAssumption
      DEF HoldsWrite, IsWriter, TypeOK, HandleType, LocalType, Control, Procs,
          WriteSame, UnlockWriteState, Goto, SetState, consem
    <2> QED BY <2>1, WriteFrame
  <1>16. ASSUME NEW p \in Writers, SodAck(p)
       PROVE  WriterExclusion' /\ WriteToken'
    <2>1. WriteSame
      BY <1>16, ProcsAssumption
      DEF HoldsWrite, IsWriter, TypeOK, HandleType, LocalType, Control, Procs,
          WriteSame, SodAck, consem, handle
    <2> QED BY <2>1, WriteFrame
  <1>17. ASSUME NEW p \in Writers, SodSet(p)
       PROVE  WriterExclusion' /\ WriteToken'
    <2>1. WriteSame
      BY <1>17, ProcsAssumption
      DEF HoldsWrite, IsWriter, TypeOK, HandleType, LocalType, Control, Procs,
          WriteSame, SodSet, Goto, SetBoth, SetState, consem
    <2> QED BY <2>1, WriteFrame
  <1>18. ASSUME NEW p \in Writers, SodFull(p)
       PROVE  WriterExclusion' /\ WriteToken'
    <2>1. WriteSame
      BY <1>18, ProcsAssumption
      DEF HoldsWrite, IsWriter, TypeOK, HandleType, LocalType, Control, Procs,
          WriteSame, SodFull, consem, handle
    <2> QED BY <2>1, WriteFrame
  <1>19. ASSUME NEW p \in Writers, SodDone(p)
       PROVE  WriterExclusion' /\ WriteToken'
    <2>1. WriteSame
      BY <1>19, ProcsAssumption
      DEF HoldsWrite, IsWriter, TypeOK, HandleType, LocalType, Control, Procs,
          WriteSame, SodDone, Goto, consem, handle
    <2> QED BY <2>1, WriteFrame
  <1>20. ASSUME NEW p \in Writers, GetClear(p)
       PROVE  WriterExclusion' /\ WriteToken'
    <2>1. WriteSame
      BY <1>20, ProcsAssumption
      DEF HoldsWrite, IsWriter, TypeOK, HandleType, LocalType, Control, Procs,
          WriteSame, GetClear, consem, handle
    <2> QED BY <2>1, WriteFrame
  <1>21. ASSUME NEW p \in Writers, GetDone(p)
       PROVE  WriterExclusion' /\ WriteToken'
    <2>1. WriteSame
      BY <1>21, ProcsAssumption
      DEF HoldsWrite, IsWriter, TypeOK, HandleType, LocalType, Control, Procs,
          WriteSame, GetDone, Goto, consem, handle
    <2> QED BY <2>1, WriteFrame
  <1>50. ASSUME NEW p \in Writers, ZeroDone(p)
       PROVE  WriterExclusion' /\ WriteToken'
    <2>1. WriteSame
      BY <1>50, ProcsAssumption
      DEF HoldsWrite, IsWriter, TypeOK, HandleType, LocalType, Control, Procs,
          WriteSame, ZeroDone, Goto, consem, handle
    <2> QED BY <2>1, WriteFrame
  <1>22. ASSUME NEW p \in Writers, EodAck(p)
       PROVE  WriterExclusion' /\ WriteToken'
    <2>1. WriteSame
      BY <1>22, ProcsAssumption
      DEF HoldsWrite, IsWriter, TypeOK, HandleType, LocalType, Control, Procs,
          WriteSame, EodAck, consem, handle
    <2> QED BY <2>1, WriteFrame
  <1>23. ASSUME NEW p \in Writers, EodSet(p)
       PROVE  WriterExclusion' /\ WriteToken'
    <2>1. WriteSame
      BY <1>23, ProcsAssumption
      DEF HoldsWrite, IsWriter, TypeOK, HandleType, LocalType, Control, Procs,
          WriteSame, EodSet, Goto, SetBoth, SetState, consem
    <2> QED BY <2>1, WriteFrame
  <1>24. ASSUME NEW p \in Writers, Publish(p)
       PROVE  WriterExclusion' /\ WriteToken'
    <2>1. WriteSame
      BY <1>24, ProcsAssumption
      DEF HoldsWrite, IsWriter, TypeOK, HandleType, LocalType, Control, Procs,
          WriteSame, Publish, Goto, consem, handle
    <2> QED BY <2>1, WriteFrame
  <1>25. ASSUME NEW p \in Writers, MarkFull(p)
       PROVE  WriterExclusion' /\ WriteToken'
    <2>1. WriteSame
      BY <1>25, ProcsAssumption
      DEF HoldsWrite, IsWriter, TypeOK, HandleType, LocalType, Control, Procs,
          WriteSame, MarkFull, Goto, consem, handle
    <2> QED BY <2>1, WriteFrame
  <1>26. ASSUME NEW p \in Writers, ResetClear(p)
       PROVE  WriterExclusion' /\ WriteToken'
    <2>1. WriteSame
      BY <1>26, ProcsAssumption
      DEF HoldsWrite, IsWriter, TypeOK, HandleType, LocalType, Control, Procs,
          WriteSame, ResetClear, consem, handle
    <2> QED BY <2>1, WriteFrame
  <1>27. ASSUME NEW p \in Writers, ResetCleared(p)
       PROVE  WriterExclusion' /\ WriteToken'
    <2>1. WriteSame
      BY <1>27, ProcsAssumption
      DEF HoldsWrite, IsWriter, TypeOK, HandleType, LocalType, Control, Procs,
          WriteSame, ResetCleared, Goto, consem, handle
    <2> QED BY <2>1, WriteFrame
  <1>28. ASSUME NEW p \in Writers, ResetSod(p)
       PROVE  WriterExclusion' /\ WriteToken'
    <2>1. WriteSame
      BY <1>28, ProcsAssumption
      DEF HoldsWrite, IsWriter, TypeOK, HandleType, LocalType, Control, Procs,
          WriteSame, ResetSod, Goto, consem, handle
    <2> QED BY <2>1, WriteFrame
  <1>29. ASSUME NEW p \in Writers, ResetEod(p)
       PROVE  WriterExclusion' /\ WriteToken'
    <2>1. WriteSame
      BY <1>29, ProcsAssumption
      DEF HoldsWrite, IsWriter, TypeOK, HandleType, LocalType, Control, Procs,
          WriteSame, ResetEod, Goto, consem, handle
    <2> QED BY <2>1, WriteFrame
  <1>30. ASSUME NEW p \in Writers, ResetDone(p)
       PROVE  WriterExclusion' /\ WriteToken'
    <2>1. WriteSame
      BY <1>30, ProcsAssumption
      DEF HoldsWrite, IsWriter, TypeOK, HandleType, LocalType, Control, Procs,
          WriteSame, ResetDone, Goto, consem, handle
    <2> QED BY <2>1, WriteFrame
  <1>31. ASSUME NEW p \in Writers, WriterStep(p)
       PROVE  WriterExclusion' /\ WriteToken'
    BY <1>31, <1>14, <1>15, <1>16, <1>17, <1>18, <1>19, <1>20, <1>21, <1>50, <1>22,
        <1>23, <1>24, <1>25, <1>26, <1>27, <1>28, <1>29, <1>30 DEF WriterStep
  <1>32. ASSUME NEW p \in Readers, LockRead(p)
       PROVE  WriterExclusion' /\ WriteToken'
    <2>1. WriteSame
      BY <1>32, ProcsAssumption
      DEF HoldsWrite, IsWriter, TypeOK, HandleType, LocalType, Control, Procs,
          WriteSame, LockRead, Goto, handle
    <2> QED BY <2>1, WriteFrame
  <1>33. ASSUME NEW p \in Readers, GetNextRead(p)
       PROVE  WriterExclusion' /\ WriteToken'
    <2>1. WriteSame
      BY <1>33, ProcsAssumption
      DEF HoldsWrite, IsWriter, TypeOK, HandleType, LocalType, Control, Procs,
          WriteSame, GetNextRead, Goto, IdleReader, consem, handle
    <2> QED BY <2>1, WriteFrame
  <1>34. ASSUME NEW p \in Readers, MarkCleared(p)
       PROVE  WriterExclusion' /\ WriteToken'
    <2>1. WriteSame
      BY <1>34, ProcsAssumption
      DEF HoldsWrite, IsWriter, TypeOK, HandleType, LocalType, Control, Procs,
          WriteSame, MarkCleared, Goto, consem, handle
    <2> QED BY <2>1, WriteFrame
  <1>35. ASSUME NEW p \in Readers, ResetRead(p)
       PROVE  WriterExclusion' /\ WriteToken'
    <2>1. WriteSame
      BY <1>35, ProcsAssumption
      DEF HoldsWrite, IsWriter, TypeOK, HandleType, LocalType, Control, Procs,
          WriteSame, ResetRead, SetState, IdleReader, consem
    <2> QED BY <2>1, WriteFrame
  <1>36. ASSUME NEW p \in Readers, UnlockRead(p)
       PROVE  WriterExclusion' /\ WriteToken'
    <2>1. WriteSame
      BY <1>36, ProcsAssumption
      DEF HoldsWrite, IsWriter, TypeOK, HandleType, LocalType, Control, Procs,
          WriteSame, UnlockRead, Goto, IdleReader, handle
    <2> QED BY <2>1, WriteFrame
  <1>37. ASSUME NEW p \in Readers, LockReadOrder(p)
       PROVE  WriterExclusion' /\ WriteToken'
    <2>1. WriteSame
      BY <1>37, ProcsAssumption
      DEF HoldsWrite, IsWriter, TypeOK, HandleType, LocalType, Control, Procs,
          WriteSame, LockReadOrder, Goto, consem, handle
    <2> QED BY <2>1, WriteFrame
  <1>38. ASSUME NEW p \in Readers, LockReadTry(p)
       PROVE  WriterExclusion' /\ WriteToken'
    <2>1. WriteSame
      BY <1>38, ProcsAssumption
      DEF HoldsWrite, IsWriter, TypeOK, HandleType, LocalType, Control, Procs,
          WriteSame, LockReadTry, Goto
    <2> QED BY <2>1, WriteFrame
  <1>39. ASSUME NEW p \in Readers, LockReadSkip(p)
       PROVE  WriterExclusion' /\ WriteToken'
    <2>1. WriteSame
      BY <1>39, ProcsAssumption
      DEF HoldsWrite, IsWriter, TypeOK, HandleType, LocalType, Control, Procs,
          WriteSame, LockReadSkip, consem, handle
    <2> QED BY <2>1, WriteFrame
  <1>40. ASSUME NEW p \in Readers, LockReadFail(p)
       PROVE  WriterExclusion' /\ WriteToken'
    <2>1. WriteSame
      BY <1>40, ProcsAssumption
      DEF HoldsWrite, IsWriter, TypeOK, HandleType, LocalType, Control, Procs,
          WriteSame, LockReadFail, Goto, consem, handle
    <2> QED BY <2>1, WriteFrame
  <1>41. ASSUME NEW p \in Readers, LockReadState(p)
       PROVE  WriterExclusion' /\ WriteToken'
    <2>1. WriteSame
      BY <1>41, ProcsAssumption
      DEF HoldsWrite, IsWriter, TypeOK, HandleType, LocalType, Control, Procs,
          WriteSame, LockReadState, Goto, SetState, consem
    <2> QED BY <2>1, WriteFrame
  <1>42. ASSUME NEW p \in Readers, UnlockReadRole(p)
       PROVE  WriterExclusion' /\ WriteToken'
    <2>1. WriteSame
      BY <1>42, ProcsAssumption
      DEF HoldsWrite, IsWriter, TypeOK, HandleType, LocalType, Control, Procs,
          WriteSame, UnlockReadRole, Goto, handle
    <2> QED BY <2>1, WriteFrame
  <1>43. ASSUME NEW p \in Readers, UnlockReadState(p)
       PROVE  WriterExclusion' /\ WriteToken'
    <2>1. WriteSame
      BY <1>43, ProcsAssumption
      DEF HoldsWrite, IsWriter, TypeOK, HandleType, LocalType, Control, Procs,
          WriteSame, UnlockReadState, Goto, SetState, consem
    <2> QED BY <2>1, WriteFrame
  <1>44. ASSUME NEW p \in Readers, SodInc(p)
       PROVE  WriterExclusion' /\ WriteToken'
    <2>1. WriteSame
      BY <1>44, ProcsAssumption
      DEF HoldsWrite, IsWriter, TypeOK, HandleType, LocalType, Control, Procs,
          WriteSame, SodInc, Goto, SetState, consem
    <2> QED BY <2>1, WriteFrame
  <1>45. ASSUME NEW p \in Readers, ReadBytes(p)
       PROVE  WriterExclusion' /\ WriteToken'
    <2>1. WriteSame
      BY <1>45, ProcsAssumption
      DEF HoldsWrite, IsWriter, TypeOK, HandleType, LocalType, Control, Procs,
          WriteSame, ReadBytes, Goto, consem, handle
    <2> QED BY <2>1, WriteFrame
  <1>46. ASSUME NEW p \in Readers, ClearedNext(p)
       PROVE  WriterExclusion' /\ WriteToken'
    <2>1. WriteSame
      BY <1>46, ProcsAssumption
      DEF HoldsWrite, IsWriter, TypeOK, HandleType, LocalType, Control, Procs,
          WriteSame, ClearedNext, Goto, consem, handle
    <2> QED BY <2>1, WriteFrame
  <1>47. ASSUME NEW p \in Readers, ClearedEod(p)
       PROVE  WriterExclusion' /\ WriteToken'
    <2>1. WriteSame
      BY <1>47, ProcsAssumption
      DEF HoldsWrite, IsWriter, TypeOK, HandleType, LocalType, Control, Procs,
          WriteSame, ClearedEod, Goto, SetState, consem
    <2> QED BY <2>1, WriteFrame
  <1>48. ASSUME NEW p \in Readers, ReaderCall(p) \/ ReaderStep(p) \/ ReaderLeaves(p)
       PROVE  WriterExclusion' /\ WriteToken'
    BY <1>48, <1>32, <1>33, <1>34, <1>35, <1>36, <1>37, <1>38, <1>39, <1>40,
        <1>41, <1>42, <1>43, <1>44, <1>45, <1>46, <1>47 DEF ReaderCall,
        ReaderStep, ReaderLeaves
  <1>49. CASE UNCHANGED vars
    BY <1>49, WriteFrame
    DEF WriteSame, HoldsWrite, IsWriter, vars, consem, handle
  <1> QED BY <1>13, <1>31, <1>48, <1>49 DEF Next, Rest, ZeroPoll

\* Whatever the number of processes that call ipcbuf_lock_write, and wherever
\* each of them is stopped, at most one is the designated writer.
THEOREM WriterExclusive == Spec => []WriterExclusion
  <1>1. Init => WriterExclusion /\ WriteToken
    BY DEF Init, WriterExclusion, WriteToken, HoldsWrite, IsWriter, Procs
  <1>2. /\ TypeOK /\ Control /\ WriterExclusion /\ WriteToken /\ [Next]_vars
        => WriterExclusion' /\ WriteToken'
    BY WriteNext
  <1> QED BY <1>1, <1>2, TypeInit, TypeNext, PTL DEF Spec

-----------------------------------------------------------------------------
(* READER_CONN: one semaphore per slot, 1 exactly when no reader holds it. *)

Holds(p, s) == HoldsSlot(p) /\ iread[p] = s

SlotToken ==
    \A s \in Slots :
        READER_CONN[s] = IF \E p \in Readers : Holds(p, s) THEN 0 ELSE 1

\* A reader has no slot while it looks for one.
Seeking == \A p \in Readers : pc[p] \in {"rorder", "rtry"} => iread[p] = -1

\* A step that neither takes nor gives back a slot.
SlotSame ==
    /\ READER_CONN' = READER_CONN
    /\ \A q \in Readers, s \in Slots : Holds(q, s)' = Holds(q, s)

SlotInv ==
    /\ SlotToken /\ Seeking
    /\ \A s \in Slots : \A p, q \in Readers : Holds(p, s) /\ Holds(q, s) => p = q

\* Such a step keeps the account of the slots.
LEMMA SlotFrame ==
    ASSUME SlotInv, SlotSame, Seeking'
    PROVE  SlotInv'
  BY DEF SlotInv, SlotToken, SlotSame

\* Every step of the library keeps the account of the slots.
LEMMA SlotNext ==
    ASSUME TypeOK, Control, SlotInv, [Next]_vars
    PROVE  SlotInv'
  <1>1. ASSUME NEW p \in Writers, LockWrite(p)
       PROVE  SlotInv'
    <2>1. SlotSame /\ Seeking'
      BY <1>1, ProcsAssumption, SizesAssumption
      DEF SlotSame, Seeking, SlotInv, Holds, HoldsSlot, TypeOK, HandleType,
          LocalType, Control, RLabels, SlotLabels, IsReader, Procs, Slots,
          LockWrite, Goto, handle
    <2> QED BY <2>1, SlotFrame
  <1>2. ASSUME NEW p \in Writers, UnlockWrite(p)
       PROVE  SlotInv'
    <2>1. SlotSame /\ Seeking'
      BY <1>2, ProcsAssumption, SizesAssumption
      DEF SlotSame, Seeking, SlotInv, Holds, HoldsSlot, TypeOK, HandleType,
          LocalType, Control, RLabels, SlotLabels, IsReader, Procs, Slots,
          UnlockWrite, Goto, IdleWriter, handle
    <2> QED BY <2>1, SlotFrame
  <1>3. ASSUME NEW p \in Writers, RelockWrite(p)
       PROVE  SlotInv'
    <2>1. SlotSame /\ Seeking'
      BY <1>3, ProcsAssumption, SizesAssumption
      DEF SlotSame, Seeking, SlotInv, Holds, HoldsSlot, TypeOK, HandleType,
          LocalType, Control, RLabels, SlotLabels, IsReader, Procs, Slots,
          RelockWrite, SetBoth, SetState, IdleWriter, consem
    <2> QED BY <2>1, SlotFrame
  <1>4. ASSUME NEW p \in Writers, EnableEod(p)
       PROVE  SlotInv'
    <2>1. SlotSame /\ Seeking'
      BY <1>4, ProcsAssumption, SizesAssumption
      DEF SlotSame, Seeking, SlotInv, Holds, HoldsSlot, TypeOK, HandleType,
          LocalType, Control, RLabels, SlotLabels, IsReader, Procs, Slots,
          EnableEod, Goto, SetBoth, SetState, IdleWriter, consem
    <2> QED BY <2>1, SlotFrame
  <1>5. ASSUME NEW p \in Writers, DisableSod(p)
       PROVE  SlotInv'
    <2>1. SlotSame /\ Seeking'
      BY <1>5, ProcsAssumption, SizesAssumption
      DEF SlotSame, Seeking, SlotInv, Holds, HoldsSlot, TypeOK, HandleType,
          LocalType, Control, RLabels, SlotLabels, IsReader, Procs, Slots,
          DisableSod, SetBoth, SetState, IdleWriter, consem
    <2> QED BY <2>1, SlotFrame
  <1>6. ASSUME NEW p \in Writers, SetSoclockBuf(p)
       PROVE  SlotInv'
    <2>1. SlotSame /\ Seeking'
      BY <1>6, ProcsAssumption, SizesAssumption
      DEF SlotSame, Seeking, SlotInv, Holds, HoldsSlot, TypeOK, HandleType,
          LocalType, Control, RLabels, SlotLabels, IsReader, Procs, Slots,
          SetSoclockBuf, IdleWriter, consem
    <2> QED BY <2>1, SlotFrame
  <1>7. ASSUME NEW p \in Writers, NEW b \in 0..MaxBlock, NEW y \in 0..BUFSZ,
             EnableSod(p, b, y)
       PROVE  SlotInv'
    <2>1. SlotSame /\ Seeking'
      BY <1>7, ProcsAssumption, SizesAssumption
      DEF SlotSame, Seeking, SlotInv, Holds, HoldsSlot, TypeOK, HandleType,
          LocalType, Control, RLabels, SlotLabels, IsReader, Procs, Slots,
          EnableSod, CallEnableSod, Goto, IdleWriter, consem, handle
    <2> QED BY <2>1, SlotFrame
  <1>8. ASSUME NEW p \in Writers, GetNextWrite(p)
       PROVE  SlotInv'
    <2>1. /\ READER_CONN' = READER_CONN /\ iread' = iread
          /\ \A q \in Readers : pc'[q] = pc[q]
      BY <1>8, ProcsAssumption
      DEF TypeOK, LocalType, Procs, GetNextWrite, Goto, CallEnableSod, consem, handle
    <2>2. SlotSame /\ Seeking'
      BY <2>1 DEF SlotSame, Seeking, SlotInv, Holds, HoldsSlot
    <2> QED BY <2>2, SlotFrame
  <1>9. ASSUME NEW p \in Writers, ZeroNextWrite(p)
       PROVE  SlotInv'
    <2>1. SlotSame /\ Seeking'
      BY <1>9, ProcsAssumption, SizesAssumption
      DEF SlotSame, Seeking, SlotInv, Holds, HoldsSlot, TypeOK, HandleType,
          LocalType, Control, RLabels, SlotLabels, IsReader, Procs, Slots,
          ZeroNextWrite, Goto, IdleWriter, consem, handle
    <2> QED BY <2>1, SlotFrame
  <1>10. ASSUME NEW p \in Writers, MarkFilledClocked(p)
       PROVE  SlotInv'
    <2>1. SlotSame /\ Seeking'
      BY <1>10, ProcsAssumption, SizesAssumption
      DEF SlotSame, Seeking, SlotInv, Holds, HoldsSlot, TypeOK, HandleType,
          LocalType, Control, RLabels, SlotLabels, IsReader, Procs, Slots,
          MarkFilledClocked, IdleWriter, consem, handle
    <2> QED BY <2>1, SlotFrame
  <1>11. ASSUME NEW p \in Writers, NEW n \in 0..BUFSZ, MarkFilled(p, n)
       PROVE  SlotInv'
    <2>1. SlotSame /\ Seeking'
      BY <1>11, ProcsAssumption, SizesAssumption
      DEF SlotSame, Seeking, SlotInv, Holds, HoldsSlot, TypeOK, HandleType,
          LocalType, Control, RLabels, SlotLabels, IsReader, Procs, Slots,
          MarkFilled, Goto, IdleWriter, consem, handle
    <2> QED BY <2>1, SlotFrame
  <1>12. ASSUME NEW p \in Writers, "reset" \in Uses, Reset(p)
       PROVE  SlotInv'
    <2>1. SlotSame /\ Seeking'
      BY <1>12, ProcsAssumption, SizesAssumption
      DEF SlotSame, Seeking, SlotInv, Holds, HoldsSlot, TypeOK, HandleType,
          LocalType, Control, RLabels, SlotLabels, IsReader, Procs, Slots,
          Reset, Goto, IdleWriter, consem, handle
    <2> QED BY <2>1, SlotFrame
  <1>13. ASSUME NEW p \in Writers, WriterCall(p)
       PROVE  SlotInv'
    BY <1>13, <1>1, <1>2, <1>3, <1>4, <1>5, <1>6, <1>7, <1>8, <1>9, <1>10,
        <1>11, <1>12 DEF WriterCall
  <1>14. ASSUME NEW p \in Writers, LockWriteState(p)
       PROVE  SlotInv'
    <2>1. SlotSame /\ Seeking'
      BY <1>14, ProcsAssumption, SizesAssumption
      DEF SlotSame, Seeking, SlotInv, Holds, HoldsSlot, TypeOK, HandleType,
          LocalType, Control, RLabels, SlotLabels, IsReader, Procs, Slots,
          LockWriteState, Goto, SetBoth, SetState, consem
    <2> QED BY <2>1, SlotFrame
  <1>15. ASSUME NEW p \in Writers, UnlockWriteState(p)
       PROVE  SlotInv'
    <2>1. SlotSame /\ Seeking'
      BY <1>15, ProcsAssumption, SizesAssumption
      DEF SlotSame, Seeking, SlotInv, Holds, HoldsSlot, TypeOK, HandleType,
          LocalType, Control, RLabels, SlotLabels, IsReader, Procs, Slots,
          UnlockWriteState, Goto, SetState, consem
    <2> QED BY <2>1, SlotFrame
  <1>16. ASSUME NEW p \in Writers, SodAck(p)
       PROVE  SlotInv'
    <2>1. SlotSame /\ Seeking'
      BY <1>16, ProcsAssumption, SizesAssumption
      DEF SlotSame, Seeking, SlotInv, Holds, HoldsSlot, TypeOK, HandleType,
          LocalType, Control, RLabels, SlotLabels, IsReader, Procs, Slots,
          SodAck, consem, handle
    <2> QED BY <2>1, SlotFrame
  <1>17. ASSUME NEW p \in Writers, SodSet(p)
       PROVE  SlotInv'
    <2>1. SlotSame /\ Seeking'
      BY <1>17, ProcsAssumption, SizesAssumption
      DEF SlotSame, Seeking, SlotInv, Holds, HoldsSlot, TypeOK, HandleType,
          LocalType, Control, RLabels, SlotLabels, IsReader, Procs, Slots,
          SodSet, Goto, SetBoth, SetState, consem
    <2> QED BY <2>1, SlotFrame
  <1>18. ASSUME NEW p \in Writers, SodFull(p)
       PROVE  SlotInv'
    <2>1. SlotSame /\ Seeking'
      BY <1>18, ProcsAssumption, SizesAssumption
      DEF SlotSame, Seeking, SlotInv, Holds, HoldsSlot, TypeOK, HandleType,
          LocalType, Control, RLabels, SlotLabels, IsReader, Procs, Slots,
          SodFull, consem, handle
    <2> QED BY <2>1, SlotFrame
  <1>19. ASSUME NEW p \in Writers, SodDone(p)
       PROVE  SlotInv'
    <2>1. SlotSame /\ Seeking'
      BY <1>19, ProcsAssumption, SizesAssumption
      DEF SlotSame, Seeking, SlotInv, Holds, HoldsSlot, TypeOK, HandleType,
          LocalType, Control, RLabels, SlotLabels, IsReader, Procs, Slots,
          SodDone, Goto, consem, handle
    <2> QED BY <2>1, SlotFrame
  <1>20. ASSUME NEW p \in Writers, GetClear(p)
       PROVE  SlotInv'
    <2>1. SlotSame /\ Seeking'
      BY <1>20, ProcsAssumption, SizesAssumption
      DEF SlotSame, Seeking, SlotInv, Holds, HoldsSlot, TypeOK, HandleType,
          LocalType, Control, RLabels, SlotLabels, IsReader, Procs, Slots,
          GetClear, consem, handle
    <2> QED BY <2>1, SlotFrame
  <1>21. ASSUME NEW p \in Writers, GetDone(p)
       PROVE  SlotInv'
    <2>1. SlotSame /\ Seeking'
      BY <1>21, ProcsAssumption, SizesAssumption
      DEF SlotSame, Seeking, SlotInv, Holds, HoldsSlot, TypeOK, HandleType,
          LocalType, Control, RLabels, SlotLabels, IsReader, Procs, Slots,
          GetDone, Goto, consem, handle
    <2> QED BY <2>1, SlotFrame
  <1>50. ASSUME NEW p \in Writers, ZeroDone(p)
       PROVE  SlotInv'
    <2>1. SlotSame /\ Seeking'
      BY <1>50, ProcsAssumption, SizesAssumption
      DEF SlotSame, Seeking, SlotInv, Holds, HoldsSlot, TypeOK, HandleType,
          LocalType, Control, RLabels, SlotLabels, IsReader, Procs, Slots,
          ZeroDone, Goto, consem, handle
    <2> QED BY <2>1, SlotFrame
  <1>22. ASSUME NEW p \in Writers, EodAck(p)
       PROVE  SlotInv'
    <2>1. SlotSame /\ Seeking'
      BY <1>22, ProcsAssumption, SizesAssumption
      DEF SlotSame, Seeking, SlotInv, Holds, HoldsSlot, TypeOK, HandleType,
          LocalType, Control, RLabels, SlotLabels, IsReader, Procs, Slots,
          EodAck, consem, handle
    <2> QED BY <2>1, SlotFrame
  <1>23. ASSUME NEW p \in Writers, EodSet(p)
       PROVE  SlotInv'
    <2>1. SlotSame /\ Seeking'
      BY <1>23, ProcsAssumption, SizesAssumption
      DEF SlotSame, Seeking, SlotInv, Holds, HoldsSlot, TypeOK, HandleType,
          LocalType, Control, RLabels, SlotLabels, IsReader, Procs, Slots,
          EodSet, Goto, SetBoth, SetState, consem
    <2> QED BY <2>1, SlotFrame
  <1>24. ASSUME NEW p \in Writers, Publish(p)
       PROVE  SlotInv'
    <2>1. SlotSame /\ Seeking'
      BY <1>24, ProcsAssumption, SizesAssumption
      DEF SlotSame, Seeking, SlotInv, Holds, HoldsSlot, TypeOK, HandleType,
          LocalType, Control, RLabels, SlotLabels, IsReader, Procs, Slots,
          Publish, Goto, consem, handle
    <2> QED BY <2>1, SlotFrame
  <1>25. ASSUME NEW p \in Writers, MarkFull(p)
       PROVE  SlotInv'
    <2>1. SlotSame /\ Seeking'
      BY <1>25, ProcsAssumption, SizesAssumption
      DEF SlotSame, Seeking, SlotInv, Holds, HoldsSlot, TypeOK, HandleType,
          LocalType, Control, RLabels, SlotLabels, IsReader, Procs, Slots,
          MarkFull, Goto, consem, handle
    <2> QED BY <2>1, SlotFrame
  <1>26. ASSUME NEW p \in Writers, ResetClear(p)
       PROVE  SlotInv'
    <2>1. SlotSame /\ Seeking'
      BY <1>26, ProcsAssumption, SizesAssumption
      DEF SlotSame, Seeking, SlotInv, Holds, HoldsSlot, TypeOK, HandleType,
          LocalType, Control, RLabels, SlotLabels, IsReader, Procs, Slots,
          ResetClear, consem, handle
    <2> QED BY <2>1, SlotFrame
  <1>27. ASSUME NEW p \in Writers, ResetCleared(p)
       PROVE  SlotInv'
    <2>1. SlotSame /\ Seeking'
      BY <1>27, ProcsAssumption, SizesAssumption
      DEF SlotSame, Seeking, SlotInv, Holds, HoldsSlot, TypeOK, HandleType,
          LocalType, Control, RLabels, SlotLabels, IsReader, Procs, Slots,
          ResetCleared, Goto, consem, handle
    <2> QED BY <2>1, SlotFrame
  <1>28. ASSUME NEW p \in Writers, ResetSod(p)
       PROVE  SlotInv'
    <2>1. SlotSame /\ Seeking'
      BY <1>28, ProcsAssumption, SizesAssumption
      DEF SlotSame, Seeking, SlotInv, Holds, HoldsSlot, TypeOK, HandleType,
          LocalType, Control, RLabels, SlotLabels, IsReader, Procs, Slots,
          ResetSod, Goto, consem, handle
    <2> QED BY <2>1, SlotFrame
  <1>29. ASSUME NEW p \in Writers, ResetEod(p)
       PROVE  SlotInv'
    <2>1. SlotSame /\ Seeking'
      BY <1>29, ProcsAssumption, SizesAssumption
      DEF SlotSame, Seeking, SlotInv, Holds, HoldsSlot, TypeOK, HandleType,
          LocalType, Control, RLabels, SlotLabels, IsReader, Procs, Slots,
          ResetEod, Goto, consem, handle
    <2> QED BY <2>1, SlotFrame
  <1>30. ASSUME NEW p \in Writers, ResetDone(p)
       PROVE  SlotInv'
    <2>1. SlotSame /\ Seeking'
      BY <1>30, ProcsAssumption, SizesAssumption
      DEF SlotSame, Seeking, SlotInv, Holds, HoldsSlot, TypeOK, HandleType,
          LocalType, Control, RLabels, SlotLabels, IsReader, Procs, Slots,
          ResetDone, Goto, consem, handle
    <2> QED BY <2>1, SlotFrame
  <1>31. ASSUME NEW p \in Writers, WriterStep(p)
       PROVE  SlotInv'
    BY <1>31, <1>14, <1>15, <1>16, <1>17, <1>18, <1>19, <1>20, <1>21, <1>50, <1>22,
        <1>23, <1>24, <1>25, <1>26, <1>27, <1>28, <1>29, <1>30 DEF WriterStep
  <1>32. ASSUME NEW p \in Readers, LockRead(p)
       PROVE  SlotInv'
    <2>1. SlotSame /\ Seeking'
      BY <1>32, ProcsAssumption, SizesAssumption
      DEF SlotSame, Seeking, SlotInv, Holds, HoldsSlot, TypeOK, HandleType,
          LocalType, Control, RLabels, SlotLabels, IsReader, Procs, Slots,
          LockRead, Goto, handle
    <2> QED BY <2>1, SlotFrame
  <1>33. ASSUME NEW p \in Readers, GetNextRead(p)
       PROVE  SlotInv'
    <2>1. SlotSame /\ Seeking'
      BY <1>33, ProcsAssumption, SizesAssumption
      DEF SlotSame, Seeking, SlotInv, Holds, HoldsSlot, TypeOK, HandleType,
          LocalType, Control, RLabels, SlotLabels, IsReader, Procs, Slots,
          GetNextRead, Goto, IdleReader, consem, handle
    <2> QED BY <2>1, SlotFrame
  <1>34. ASSUME NEW p \in Readers, MarkCleared(p)
       PROVE  SlotInv'
    <2>1. SlotSame /\ Seeking'
      BY <1>34, ProcsAssumption, SizesAssumption
      DEF SlotSame, Seeking, SlotInv, Holds, HoldsSlot, TypeOK, HandleType,
          LocalType, Control, RLabels, SlotLabels, IsReader, Procs, Slots,
          MarkCleared, Goto, consem, handle
    <2> QED BY <2>1, SlotFrame
  <1>35. ASSUME NEW p \in Readers, ResetRead(p)
       PROVE  SlotInv'
    <2>1. SlotSame /\ Seeking'
      BY <1>35, ProcsAssumption, SizesAssumption
      DEF SlotSame, Seeking, SlotInv, Holds, HoldsSlot, TypeOK, HandleType,
          LocalType, Control, RLabels, SlotLabels, IsReader, Procs, Slots,
          ResetRead, SetState, IdleReader, consem
    <2> QED BY <2>1, SlotFrame
  <1>36. ASSUME NEW p \in Readers, UnlockRead(p)
       PROVE  SlotInv'
    <2> DEFINE t == iread[p]
    <2>1. t \in Slots /\ t # -1
      BY <1>36, SizesAssumption DEF UnlockRead, Control, IdleReader, Slots
    <2>2. Holds(p, t) /\ READER_CONN[t] = 0
      BY <1>36, <2>1 DEF UnlockRead, IdleReader, Holds, HoldsSlot, SlotInv, SlotToken
    <2>3. \A s \in Slots : READER_CONN'[s] = IF s = t THEN 1 ELSE READER_CONN[s]
      BY <1>36, <2>1, <2>2 DEF UnlockRead, TypeOK, SemType
    <2>4. \A q \in Readers, s \in Slots : Holds(q, s)' <=> q # p /\ Holds(q, s)
      BY <1>36
      DEF UnlockRead, IdleReader, Holds, HoldsSlot, Goto, handle, TypeOK,
          LocalType, HandleType, Procs
    <2>5. \A s \in Slots : Holds(p, s) => s = t
      BY DEF Holds
    <2>6. Seeking'
      BY <1>36 DEF UnlockRead, SlotInv, Seeking, Goto, handle, TypeOK, LocalType, Procs
    <2>7. SlotToken'
      BY <2>2, <2>3, <2>4, <2>5 DEF SlotInv, SlotToken
    <2>8. \A s \in Slots : \A a, q \in Readers : Holds(a, s)' /\ Holds(q, s)' => a = q
      BY <2>4 DEF SlotInv
    <2> QED BY <2>6, <2>7, <2>8 DEF SlotInv
  <1>37. ASSUME NEW p \in Readers, LockReadOrder(p)
       PROVE  SlotInv'
    <2>1. SlotSame /\ Seeking'
      BY <1>37, ProcsAssumption, SizesAssumption
      DEF SlotSame, Seeking, SlotInv, Holds, HoldsSlot, TypeOK, HandleType,
          LocalType, Control, RLabels, SlotLabels, IsReader, Procs, Slots,
          LockReadOrder, Goto, consem, handle
    <2> QED BY <2>1, SlotFrame
  <1>38. ASSUME NEW p \in Readers, LockReadTry(p)
       PROVE  SlotInv'
    <2> DEFINE t == order[p][i[p]]
    <2>1. t \in Slots
      BY <1>38, SlotIndex DEF LockReadTry, TypeOK, LocalType, Procs
    <2>2. READER_CONN[t] = 1 /\ \A q \in Readers : ~Holds(q, t)
      BY <1>38, <2>1 DEF LockReadTry, SlotInv, SlotToken
    <2>3. \A s \in Slots : READER_CONN'[s] = IF s = t THEN 0 ELSE READER_CONN[s]
      BY <1>38, <2>1, <2>2 DEF LockReadTry, TypeOK, SemType
    <2>4. iread[p] = -1
      BY <1>38 DEF LockReadTry, SlotInv, Seeking
    <2>5. \A q \in Readers, s \in Slots :
              Holds(q, s)' <=> (q = p /\ s = t) \/ Holds(q, s)
      <3> SUFFICES ASSUME NEW q \in Readers, NEW s \in Slots
                   PROVE  Holds(q, s)' <=> (q = p /\ s = t) \/ Holds(q, s)
        OBVIOUS
      <3>0. t # -1 /\ s # -1
        BY <2>1, SizesAssumption DEF Slots
      <3>1. CASE q = p
        BY <1>38, <3>0, <3>1, <2>4
        DEF LockReadTry, Holds, HoldsSlot, Goto, TypeOK, LocalType, HandleType, Procs
      <3>2. CASE q # p
        BY <1>38, <3>2
        DEF LockReadTry, Holds, HoldsSlot, Goto, TypeOK, LocalType, HandleType, Procs
      <3> QED BY <3>1, <3>2
    <2>6. Seeking'
      BY <1>38 DEF LockReadTry, SlotInv, Seeking, Goto, TypeOK, LocalType, HandleType, Procs
    <2>7. SlotToken'
      BY <2>2, <2>3, <2>5 DEF SlotInv, SlotToken
    <2>8. \A s \in Slots : \A a, q \in Readers : Holds(a, s)' /\ Holds(q, s)' => a = q
      BY <2>2, <2>5 DEF SlotInv
    <2> QED BY <2>6, <2>7, <2>8 DEF SlotInv
  <1>39. ASSUME NEW p \in Readers, LockReadSkip(p)
       PROVE  SlotInv'
    <2>1. SlotSame /\ Seeking'
      BY <1>39, ProcsAssumption, SizesAssumption
      DEF SlotSame, Seeking, SlotInv, Holds, HoldsSlot, TypeOK, HandleType,
          LocalType, Control, RLabels, SlotLabels, IsReader, Procs, Slots,
          LockReadSkip, consem, handle
    <2> QED BY <2>1, SlotFrame
  <1>40. ASSUME NEW p \in Readers, LockReadFail(p)
       PROVE  SlotInv'
    <2>1. SlotSame /\ Seeking'
      BY <1>40, ProcsAssumption, SizesAssumption
      DEF SlotSame, Seeking, SlotInv, Holds, HoldsSlot, TypeOK, HandleType,
          LocalType, Control, RLabels, SlotLabels, IsReader, Procs, Slots,
          LockReadFail, Goto, consem, handle
    <2> QED BY <2>1, SlotFrame
  <1>41. ASSUME NEW p \in Readers, LockReadState(p)
       PROVE  SlotInv'
    <2>1. SlotSame /\ Seeking'
      BY <1>41, ProcsAssumption, SizesAssumption
      DEF SlotSame, Seeking, SlotInv, Holds, HoldsSlot, TypeOK, HandleType,
          LocalType, Control, RLabels, SlotLabels, IsReader, Procs, Slots,
          LockReadState, Goto, SetState, consem
    <2> QED BY <2>1, SlotFrame
  <1>42. ASSUME NEW p \in Readers, UnlockReadRole(p)
       PROVE  SlotInv'
    <2>1. SlotSame /\ Seeking'
      BY <1>42, ProcsAssumption, SizesAssumption
      DEF SlotSame, Seeking, SlotInv, Holds, HoldsSlot, TypeOK, HandleType,
          LocalType, Control, RLabels, SlotLabels, IsReader, Procs, Slots,
          UnlockReadRole, Goto, handle
    <2> QED BY <2>1, SlotFrame
  <1>43. ASSUME NEW p \in Readers, UnlockReadState(p)
       PROVE  SlotInv'
    <2>1. SlotSame /\ Seeking'
      BY <1>43, ProcsAssumption, SizesAssumption
      DEF SlotSame, Seeking, SlotInv, Holds, HoldsSlot, TypeOK, HandleType,
          LocalType, Control, RLabels, SlotLabels, IsReader, Procs, Slots,
          UnlockReadState, Goto, SetState, consem
    <2> QED BY <2>1, SlotFrame
  <1>44. ASSUME NEW p \in Readers, SodInc(p)
       PROVE  SlotInv'
    <2>1. SlotSame /\ Seeking'
      BY <1>44, ProcsAssumption, SizesAssumption
      DEF SlotSame, Seeking, SlotInv, Holds, HoldsSlot, TypeOK, HandleType,
          LocalType, Control, RLabels, SlotLabels, IsReader, Procs, Slots,
          SodInc, Goto, SetState, consem
    <2> QED BY <2>1, SlotFrame
  <1>45. ASSUME NEW p \in Readers, ReadBytes(p)
       PROVE  SlotInv'
    <2>1. SlotSame /\ Seeking'
      BY <1>45, ProcsAssumption, SizesAssumption
      DEF SlotSame, Seeking, SlotInv, Holds, HoldsSlot, TypeOK, HandleType,
          LocalType, Control, RLabels, SlotLabels, IsReader, Procs, Slots,
          ReadBytes, Goto, consem, handle
    <2> QED BY <2>1, SlotFrame
  <1>46. ASSUME NEW p \in Readers, ClearedNext(p)
       PROVE  SlotInv'
    <2>1. SlotSame /\ Seeking'
      BY <1>46, ProcsAssumption, SizesAssumption
      DEF SlotSame, Seeking, SlotInv, Holds, HoldsSlot, TypeOK, HandleType,
          LocalType, Control, RLabels, SlotLabels, IsReader, Procs, Slots,
          ClearedNext, Goto, consem, handle
    <2> QED BY <2>1, SlotFrame
  <1>47. ASSUME NEW p \in Readers, ClearedEod(p)
       PROVE  SlotInv'
    <2>1. SlotSame /\ Seeking'
      BY <1>47, ProcsAssumption, SizesAssumption
      DEF SlotSame, Seeking, SlotInv, Holds, HoldsSlot, TypeOK, HandleType,
          LocalType, Control, RLabels, SlotLabels, IsReader, Procs, Slots,
          ClearedEod, Goto, SetState, consem
    <2> QED BY <2>1, SlotFrame
  <1>48. ASSUME NEW p \in Readers, ReaderCall(p) \/ ReaderStep(p) \/ ReaderLeaves(p)
       PROVE  SlotInv'
    BY <1>48, <1>32, <1>33, <1>34, <1>35, <1>36, <1>37, <1>38, <1>39, <1>40,
        <1>41, <1>42, <1>43, <1>44, <1>45, <1>46, <1>47 DEF ReaderCall,
        ReaderStep, ReaderLeaves
  <1>49. CASE UNCHANGED vars
    BY <1>49, SlotFrame
    DEF SlotSame, SlotInv, Seeking, Holds, HoldsSlot, vars, consem, handle
  <1> QED BY <1>13, <1>31, <1>48, <1>49 DEF Next, Rest, ZeroPoll

\* ipcbuf_lock_read never gives one slot to two processes: not when they scan
\* the slots at once, and not while another gives its slot up.
THEOREM SlotExclusive == Spec => []SlotExclusion
  <1>1. Init => SlotInv
    BY DEF Init, SlotInv, SlotToken, Seeking, Holds, HoldsSlot, Procs
  <1>2. TypeOK /\ Control /\ SlotInv /\ [Next]_vars => SlotInv'
    BY SlotNext
  <1>3. TypeOK /\ SlotInv => SlotExclusion
    <2> SUFFICES ASSUME TypeOK, SlotInv, NEW p \in Readers, NEW q \in Readers,
                        HoldsSlot(p), HoldsSlot(q), iread[p] = iread[q]
                 PROVE  p = q
      BY DEF SlotExclusion
    <2>1. iread[p] \in Slots
      BY DEF TypeOK, HandleType, Procs, HoldsSlot
    <2> QED BY <2>1 DEF SlotInv, Holds
  <1> QED BY <1>1, <1>2, <1>3, TypeInit, TypeNext, PTL DEF Spec

-----------------------------------------------------------------------------
(* EODACK: of the XFERS that a slot starts with, one is out for every      *)
(* transfer that has ended and that the slot's reader has not finished,    *)
(* and one while the writer is ending a transfer.                          *)

\* The writer is ending a transfer and has taken EODACK of slot s.
Ending(p, s) == pc[p] = "eod_ack" /\ i[p] > s

EodCount ==
    \A s \in Slots :
        EODACK[s] + w_xfer + (IF \E p \in Writers : Ending(p, s) THEN 1 ELSE 0)
            = XFERS + r_xfers[s]

\* A loop over the readers starts at the first, and nobody resets the ring.
LoopStart ==
    \A p \in Writers :
        /\ pc[p] \in {"idle", "wlock", "wunlock", "ending", "zero", "publish"} => i[p] = 0
        /\ pc[p] \notin {"rst_clear", "rst_sod", "rst_eod"}

\* A step that leaves the account of EODACK alone.
EodSame ==
    /\ EODACK' = EODACK /\ w_xfer' = w_xfer /\ r_xfers' = r_xfers
    /\ \A q \in Writers, s \in Slots : Ending(q, s)' = Ending(q, s)

\* Such a step keeps the account of EODACK.
LEMMA EodFrame ==
    ASSUME EodCount, EodSame
    PROVE  EodCount'
  BY DEF EodCount, EodSame

\* A loop over the readers is entered with its index at zero.
LEMMA LoopNext ==
    ASSUME "reset" \notin Uses, TypeOK, Control, LoopStart, [Next]_vars
    PROVE  LoopStart'
  <1>1. ASSUME NEW p \in Writers, LockWrite(p)
       PROVE  LoopStart'
    BY <1>1, ProcsAssumption, SizesAssumption
    DEF LoopStart, TypeOK, LocalType, Procs, LockWrite, Goto
  <1>2. ASSUME NEW p \in Writers, UnlockWrite(p)
       PROVE  LoopStart'
    BY <1>2, ProcsAssumption, SizesAssumption
    DEF LoopStart, TypeOK, LocalType, Procs, UnlockWrite, Goto, IdleWriter
  <1>3. ASSUME NEW p \in Writers, RelockWrite(p)
       PROVE  LoopStart'
    BY <1>3, ProcsAssumption, SizesAssumption
    DEF LoopStart, TypeOK, LocalType, Procs, RelockWrite, IdleWriter
  <1>4. ASSUME NEW p \in Writers, EnableEod(p)
       PROVE  LoopStart'
    BY <1>4, ProcsAssumption, SizesAssumption
    DEF LoopStart, TypeOK, LocalType, Procs, EnableEod, Goto, IdleWriter
  <1>5. ASSUME NEW p \in Writers, DisableSod(p)
       PROVE  LoopStart'
    BY <1>5, ProcsAssumption, SizesAssumption
    DEF LoopStart, TypeOK, LocalType, Procs, DisableSod, IdleWriter
  <1>6. ASSUME NEW p \in Writers, SetSoclockBuf(p)
       PROVE  LoopStart'
    BY <1>6, ProcsAssumption, SizesAssumption
    DEF LoopStart, TypeOK, LocalType, Procs, SetSoclockBuf, IdleWriter
  <1>7. ASSUME NEW p \in Writers, NEW b \in 0..MaxBlock, NEW y \in 0..BUFSZ,
             EnableSod(p, b, y)
       PROVE  LoopStart'
    BY <1>7, ProcsAssumption, SizesAssumption
    DEF LoopStart, TypeOK, LocalType, Procs, EnableSod, CallEnableSod, Rewind,
        Goto, IdleWriter
  <1>8. ASSUME NEW p \in Writers, GetNextWrite(p)
       PROVE  LoopStart'
    BY <1>8, ProcsAssumption, SizesAssumption
    DEF LoopStart, TypeOK, LocalType, Procs, GetNextWrite, Goto,
        CallEnableSod, Rewind, IdleWriter
  <1>9. ASSUME NEW p \in Writers, ZeroNextWrite(p)
       PROVE  LoopStart'
    BY <1>9, ProcsAssumption, SizesAssumption
    DEF LoopStart, TypeOK, LocalType, Procs, ZeroNextWrite, Goto, IdleWriter
  <1>10. ASSUME NEW p \in Writers, MarkFilledClocked(p)
       PROVE  LoopStart'
    BY <1>10, ProcsAssumption, SizesAssumption
    DEF LoopStart, TypeOK, LocalType, Procs, MarkFilledClocked, IdleWriter
  <1>11. ASSUME NEW p \in Writers, NEW n \in 0..BUFSZ, MarkFilled(p, n)
       PROVE  LoopStart'
    BY <1>11, ProcsAssumption, SizesAssumption
    DEF LoopStart, TypeOK, LocalType, Procs, MarkFilled, Goto, IdleWriter
  <1>12. ASSUME NEW p \in Writers, "reset" \in Uses, Reset(p)
       PROVE  LoopStart'
    BY <1>12, ProcsAssumption, SizesAssumption
    DEF LoopStart, TypeOK, LocalType, Procs, Reset, Goto, IdleWriter
  <1>13. ASSUME NEW p \in Writers, WriterCall(p)
       PROVE  LoopStart'
    BY <1>13, <1>1, <1>2, <1>3, <1>4, <1>5, <1>6, <1>7, <1>8, <1>9, <1>10,
        <1>11, <1>12 DEF WriterCall
  <1>14. ASSUME NEW p \in Writers, LockWriteState(p)
       PROVE  LoopStart'
    BY <1>14, ProcsAssumption, SizesAssumption
    DEF LoopStart, TypeOK, LocalType, Procs, LockWriteState, Goto
  <1>15. ASSUME NEW p \in Writers, UnlockWriteState(p)
       PROVE  LoopStart'
    BY <1>15, ProcsAssumption, SizesAssumption
    DEF LoopStart, TypeOK, LocalType, Procs, UnlockWriteState, Goto
  <1>16. ASSUME NEW p \in Writers, SodAck(p)
       PROVE  LoopStart'
    BY <1>16, ProcsAssumption, SizesAssumption
    DEF LoopStart, TypeOK, LocalType, Procs, SodAck, Advance
  <1>17. ASSUME NEW p \in Writers, SodSet(p)
       PROVE  LoopStart'
    BY <1>17, ProcsAssumption, SizesAssumption
    DEF LoopStart, TypeOK, LocalType, Procs, SodSet, Goto, Rewind
  <1>18. ASSUME NEW p \in Writers, SodFull(p)
       PROVE  LoopStart'
    BY <1>18, ProcsAssumption, SizesAssumption
    DEF LoopStart, TypeOK, LocalType, Procs, SodFull, Advance
  <1>19. ASSUME NEW p \in Writers, SodDone(p)
       PROVE  LoopStart'
    BY <1>19, ProcsAssumption, SizesAssumption
    DEF LoopStart, TypeOK, LocalType, Procs, SodDone, Goto, Rewind
  <1>20. ASSUME NEW p \in Writers, GetClear(p)
       PROVE  LoopStart'
    BY <1>20, ProcsAssumption, SizesAssumption
    DEF LoopStart, TypeOK, LocalType, Procs, GetClear, TakeClear, Advance,
        Rewind
  <1>21. ASSUME NEW p \in Writers, GetDone(p)
       PROVE  LoopStart'
    BY <1>21, ProcsAssumption, SizesAssumption
    DEF LoopStart, TypeOK, LocalType, Procs, GetDone, Goto
  <1>50. ASSUME NEW p \in Writers, ZeroDone(p)
       PROVE  LoopStart'
    BY <1>50, ProcsAssumption, SizesAssumption
    DEF LoopStart, TypeOK, LocalType, Procs, ZeroDone, Goto
  <1>22. ASSUME NEW p \in Writers, EodAck(p)
       PROVE  LoopStart'
    BY <1>22, ProcsAssumption, SizesAssumption
    DEF LoopStart, TypeOK, LocalType, Procs, EodAck, Advance
  <1>23. ASSUME NEW p \in Writers, EodSet(p)
       PROVE  LoopStart'
    BY <1>23, ProcsAssumption, SizesAssumption
    DEF LoopStart, TypeOK, LocalType, Procs, EodSet, Goto, Rewind
  <1>24. ASSUME NEW p \in Writers, Publish(p)
       PROVE  LoopStart'
    BY <1>24, ProcsAssumption, SizesAssumption
    DEF LoopStart, TypeOK, LocalType, Procs, Publish, Goto
  <1>25. ASSUME NEW p \in Writers, MarkFull(p)
       PROVE  LoopStart'
    BY <1>25, ProcsAssumption, SizesAssumption
    DEF LoopStart, TypeOK, LocalType, Procs, MarkFull, Goto, Rewind, Advance
  <1>26. ASSUME NEW p \in Writers, ResetClear(p)
       PROVE  LoopStart'
    BY <1>26, ProcsAssumption, SizesAssumption
    DEF LoopStart, TypeOK, LocalType, Procs, ResetClear, TakeClear, Advance,
        Rewind
  <1>27. ASSUME NEW p \in Writers, ResetCleared(p)
       PROVE  LoopStart'
    BY <1>27, ProcsAssumption, SizesAssumption
    DEF LoopStart, TypeOK, LocalType, Procs, ResetCleared, Goto
  <1>28. ASSUME NEW p \in Writers, ResetSod(p)
       PROVE  LoopStart'
    BY <1>28, ProcsAssumption, SizesAssumption
    DEF LoopStart, TypeOK, LocalType, Procs, ResetSod, Goto
  <1>29. ASSUME NEW p \in Writers, ResetEod(p)
       PROVE  LoopStart'
    BY <1>29, ProcsAssumption, SizesAssumption
    DEF LoopStart, TypeOK, LocalType, Procs, ResetEod, Goto, Advance
  <1>30. ASSUME NEW p \in Writers, ResetDone(p)
       PROVE  LoopStart'
    BY <1>30, ProcsAssumption, SizesAssumption
    DEF LoopStart, TypeOK, LocalType, Procs, ResetDone, Goto, Rewind
  <1>31. ASSUME NEW p \in Writers, WriterStep(p)
       PROVE  LoopStart'
    BY <1>31, <1>14, <1>15, <1>16, <1>17, <1>18, <1>19, <1>20, <1>21, <1>50, <1>22,
        <1>23, <1>24, <1>25, <1>26, <1>27, <1>28, <1>29, <1>30 DEF WriterStep
  <1>32. ASSUME NEW p \in Readers, LockRead(p)
       PROVE  LoopStart'
    BY <1>32, ProcsAssumption, SizesAssumption
    DEF LoopStart, TypeOK, LocalType, Procs, LockRead, Goto
  <1>33. ASSUME NEW p \in Readers, GetNextRead(p)
       PROVE  LoopStart'
    BY <1>33, ProcsAssumption, SizesAssumption
    DEF LoopStart, TypeOK, LocalType, Procs, GetNextRead, Goto, IdleReader
  <1>34. ASSUME NEW p \in Readers, MarkCleared(p)
       PROVE  LoopStart'
    BY <1>34, ProcsAssumption, SizesAssumption
    DEF LoopStart, TypeOK, LocalType, Procs, MarkCleared, Goto
  <1>35. ASSUME NEW p \in Readers, ResetRead(p)
       PROVE  LoopStart'
    BY <1>35, ProcsAssumption, SizesAssumption
    DEF LoopStart, TypeOK, LocalType, Procs, ResetRead, IdleReader
  <1>36. ASSUME NEW p \in Readers, UnlockRead(p)
       PROVE  LoopStart'
    BY <1>36, ProcsAssumption, SizesAssumption
    DEF LoopStart, TypeOK, LocalType, Procs, UnlockRead, Goto, IdleReader
  <1>37. ASSUME NEW p \in Readers, LockReadOrder(p)
       PROVE  LoopStart'
    BY <1>37, ProcsAssumption, SizesAssumption
    DEF LoopStart, TypeOK, LocalType, Procs, LockReadOrder, Goto
  <1>38. ASSUME NEW p \in Readers, LockReadTry(p)
       PROVE  LoopStart'
    BY <1>38, ProcsAssumption, SizesAssumption
    DEF LoopStart, TypeOK, LocalType, Procs, LockReadTry, Goto, Rewind
  <1>39. ASSUME NEW p \in Readers, LockReadSkip(p)
       PROVE  LoopStart'
    BY <1>39, ProcsAssumption, SizesAssumption
    DEF LoopStart, TypeOK, LocalType, Procs, LockReadSkip, Advance
  <1>40. ASSUME NEW p \in Readers, LockReadFail(p)
       PROVE  LoopStart'
    BY <1>40, ProcsAssumption, SizesAssumption
    DEF LoopStart, TypeOK, LocalType, Procs, LockReadFail, Goto
  <1>41. ASSUME NEW p \in Readers, LockReadState(p)
       PROVE  LoopStart'
    BY <1>41, ProcsAssumption, SizesAssumption
    DEF LoopStart, TypeOK, LocalType, Procs, LockReadState, Goto
  <1>42. ASSUME NEW p \in Readers, UnlockReadRole(p)
       PROVE  LoopStart'
    BY <1>42, ProcsAssumption, SizesAssumption
    DEF LoopStart, TypeOK, LocalType, Procs, UnlockReadRole, Goto
  <1>43. ASSUME NEW p \in Readers, UnlockReadState(p)
       PROVE  LoopStart'
    BY <1>43, ProcsAssumption, SizesAssumption
    DEF LoopStart, TypeOK, LocalType, Procs, UnlockReadState, Goto
  <1>44. ASSUME NEW p \in Readers, SodInc(p)
       PROVE  LoopStart'
    BY <1>44, ProcsAssumption, SizesAssumption
    DEF LoopStart, TypeOK, LocalType, Procs, SodInc, Goto
  <1>45. ASSUME NEW p \in Readers, ReadBytes(p)
       PROVE  LoopStart'
    BY <1>45, ProcsAssumption, SizesAssumption
    DEF LoopStart, TypeOK, LocalType, Procs, ReadBytes, Goto
  <1>46. ASSUME NEW p \in Readers, ClearedNext(p)
       PROVE  LoopStart'
    BY <1>46, ProcsAssumption, SizesAssumption
    DEF LoopStart, TypeOK, LocalType, Procs, ClearedNext, Goto
  <1>47. ASSUME NEW p \in Readers, ClearedEod(p)
       PROVE  LoopStart'
    BY <1>47, ProcsAssumption, SizesAssumption
    DEF LoopStart, TypeOK, LocalType, Procs, ClearedEod, Goto
  <1>48. ASSUME NEW p \in Readers, ReaderCall(p) \/ ReaderStep(p) \/ ReaderLeaves(p)
       PROVE  LoopStart'
    BY <1>48, <1>32, <1>33, <1>34, <1>35, <1>36, <1>37, <1>38, <1>39, <1>40,
        <1>41, <1>42, <1>43, <1>44, <1>45, <1>46, <1>47 DEF ReaderCall,
        ReaderStep, ReaderLeaves
  <1>49. CASE UNCHANGED vars
    BY <1>49 DEF LoopStart, vars
  <1> QED BY <1>13, <1>31, <1>48, <1>49 DEF Next, Rest, ZeroPoll

\* Every step of the library keeps the account of EODACK.
LEMMA EodNext ==
    ASSUME "reset" \notin Uses, TypeOK, Control, WriterExclusion, LoopStart,
           EodCount, [Next]_vars
    PROVE  EodCount'
  <1>1. ASSUME NEW p \in Writers, LockWrite(p)
       PROVE  EodCount'
    <2>1. EodSame
      BY <1>1, ProcsAssumption, SizesAssumption
      DEF EodSame, Ending, LoopStart, TypeOK, LocalType, Control, IsReader,
          Procs, Slots, LockWrite, Goto, wsync, rsync, datasem
    <2> QED BY <2>1, EodFrame
  <1>2. ASSUME NEW p \in Writers, UnlockWrite(p)
       PROVE  EodCount'
    <2>1. EodSame
      BY <1>2, ProcsAssumption, SizesAssumption
      DEF EodSame, Ending, LoopStart, TypeOK, LocalType, Control, IsReader,
          Procs, Slots, UnlockWrite, Goto, IdleWriter, wsync, rsync, datasem
    <2> QED BY <2>1, EodFrame
  <1>3. ASSUME NEW p \in Writers, RelockWrite(p)
       PROVE  EodCount'
    <2>1. EodSame
      BY <1>3, ProcsAssumption, SizesAssumption
      DEF EodSame, Ending, LoopStart, TypeOK, LocalType, Control, IsReader,
          Procs, Slots, RelockWrite, IdleWriter, rsync, datasem
    <2> QED BY <2>1, EodFrame
  <1>4. ASSUME NEW p \in Writers, EnableEod(p)
       PROVE  EodCount'
    <2>1. EodSame
      BY <1>4, ProcsAssumption, SizesAssumption
      DEF EodSame, Ending, LoopStart, TypeOK, LocalType, Control, IsReader,
          Procs, Slots, EnableEod, Goto, IdleWriter, rsync, datasem
    <2> QED BY <2>1, EodFrame
  <1>5. ASSUME NEW p \in Writers, DisableSod(p)
       PROVE  EodCount'
    <2>1. EodSame
      BY <1>5, ProcsAssumption, SizesAssumption
      DEF EodSame, Ending, LoopStart, TypeOK, LocalType, Control, IsReader,
          Procs, Slots, DisableSod, IdleWriter, rsync, datasem
    <2> QED BY <2>1, EodFrame
  <1>6. ASSUME NEW p \in Writers, SetSoclockBuf(p)
       PROVE  EodCount'
    <2>1. EodSame
      BY <1>6, ProcsAssumption, SizesAssumption
      DEF EodSame, Ending, LoopStart, TypeOK, LocalType, Control, IsReader,
          Procs, Slots, SetSoclockBuf, IdleWriter, wsync, rsync, datasem
    <2> QED BY <2>1, EodFrame
  <1>7. ASSUME NEW p \in Writers, NEW b \in 0..MaxBlock, NEW y \in 0..BUFSZ,
             EnableSod(p, b, y)
       PROVE  EodCount'
    <2>1. EodSame
      BY <1>7, ProcsAssumption, SizesAssumption
      DEF EodSame, Ending, LoopStart, TypeOK, LocalType, Control, IsReader,
          Procs, Slots, EnableSod, CallEnableSod, Rewind, Goto, IdleWriter,
          wsync, rsync, datasem
    <2> QED BY <2>1, EodFrame
  <1>8. ASSUME NEW p \in Writers, GetNextWrite(p)
       PROVE  EodCount'
    <2>1. EodSame
      BY <1>8, ProcsAssumption, SizesAssumption
      DEF EodSame, Ending, LoopStart, TypeOK, LocalType, Control, IsReader,
          Procs, Slots, GetNextWrite, Goto, CallEnableSod, Rewind, IdleWriter,
          wsync, rsync, datasem
    <2> QED BY <2>1, EodFrame
  <1>9. ASSUME NEW p \in Writers, ZeroNextWrite(p)
       PROVE  EodCount'
    <2>1. EodSame
      BY <1>9, ProcsAssumption, SizesAssumption
      DEF EodSame, Ending, LoopStart, TypeOK, LocalType, Control, IsReader,
          Procs, Slots, ZeroNextWrite, Goto, IdleWriter, wsync, rsync, datasem
    <2> QED BY <2>1, EodFrame
  <1>10. ASSUME NEW p \in Writers, MarkFilledClocked(p)
       PROVE  EodCount'
    <2>1. EodSame
      BY <1>10, ProcsAssumption, SizesAssumption
      DEF EodSame, Ending, LoopStart, TypeOK, LocalType, Control, IsReader,
          Procs, Slots, MarkFilledClocked, IdleWriter, rsync, datasem
    <2> QED BY <2>1, EodFrame
  <1>11. ASSUME NEW p \in Writers, NEW n \in 0..BUFSZ, MarkFilled(p, n)
       PROVE  EodCount'
    <2>1. i[p] = 0 /\ pc[p] # "eod_ack" /\ i' = i
      BY <1>11 DEF MarkFilled, IdleWriter, LoopStart
    <2>2. \A s \in Slots : ~(0 > s)
      BY SizesAssumption DEF Slots
    <2>3. \A q \in Writers : q # p => pc'[q] = pc[q]
      BY <1>11 DEF MarkFilled, Goto, TypeOK, LocalType, Procs
    <2>4. EodSame
      BY <1>11, <2>1, <2>2, <2>3
      DEF EodSame, Ending, MarkFilled, wsync, rsync, datasem
    <2> QED BY <2>4, EodFrame
  <1>12. ASSUME NEW p \in Writers, "reset" \in Uses, Reset(p)
       PROVE  EodCount'
    BY <1>12
  <1>13. ASSUME NEW p \in Writers, WriterCall(p)
       PROVE  EodCount'
    BY <1>13, <1>1, <1>2, <1>3, <1>4, <1>5, <1>6, <1>7, <1>8, <1>9, <1>10,
        <1>11, <1>12 DEF WriterCall
  <1>14. ASSUME NEW p \in Writers, LockWriteState(p)
       PROVE  EodCount'
    <2>1. EodSame
      BY <1>14, ProcsAssumption, SizesAssumption
      DEF EodSame, Ending, LoopStart, TypeOK, LocalType, Control, IsReader,
          Procs, Slots, LockWriteState, Goto, rsync, datasem
    <2> QED BY <2>1, EodFrame
  <1>15. ASSUME NEW p \in Writers, UnlockWriteState(p)
       PROVE  EodCount'
    <2>1. EodSame
      BY <1>15, ProcsAssumption, SizesAssumption
      DEF EodSame, Ending, LoopStart, TypeOK, LocalType, Control, IsReader,
          Procs, Slots, UnlockWriteState, Goto, rsync, datasem
    <2> QED BY <2>1, EodFrame
  <1>16. ASSUME NEW p \in Writers, SodAck(p)
       PROVE  EodCount'
    <2>1. EodSame
      BY <1>16, ProcsAssumption, SizesAssumption
      DEF EodSame, Ending, LoopStart, TypeOK, LocalType, Control, IsReader,
          Procs, Slots, SodAck, Advance, wsync, rsync
    <2> QED BY <2>1, EodFrame
  <1>17. ASSUME NEW p \in Writers, SodSet(p)
       PROVE  EodCount'
    <2>1. EodSame
      BY <1>17, ProcsAssumption, SizesAssumption
      DEF EodSame, Ending, LoopStart, TypeOK, LocalType, Control, IsReader,
          Procs, Slots, SodSet, Goto, Rewind, rsync, datasem
    <2> QED BY <2>1, EodFrame
  <1>18. ASSUME NEW p \in Writers, SodFull(p)
       PROVE  EodCount'
    <2>1. EodSame
      BY <1>18, ProcsAssumption, SizesAssumption
      DEF EodSame, Ending, LoopStart, TypeOK, LocalType, Control, IsReader,
          Procs, Slots, SodFull, Advance, wsync, rsync
    <2> QED BY <2>1, EodFrame
  <1>19. ASSUME NEW p \in Writers, SodDone(p)
       PROVE  EodCount'
    <2>1. EodSame
      BY <1>19, ProcsAssumption, SizesAssumption
      DEF EodSame, Ending, LoopStart, TypeOK, LocalType, Control, IsReader,
          Procs, Slots, SodDone, Goto, Rewind, wsync, rsync, datasem
    <2> QED BY <2>1, EodFrame
  <1>20. ASSUME NEW p \in Writers, GetClear(p)
       PROVE  EodCount'
    <2>1. EodSame
      BY <1>20, ProcsAssumption, SizesAssumption
      DEF EodSame, Ending, LoopStart, TypeOK, LocalType, Control, IsReader,
          Procs, Slots, GetClear, TakeClear, Advance, Rewind, wsync, rsync
    <2> QED BY <2>1, EodFrame
  <1>21. ASSUME NEW p \in Writers, GetDone(p)
       PROVE  EodCount'
    <2>1. EodSame
      BY <1>21, ProcsAssumption, SizesAssumption
      DEF EodSame, Ending, LoopStart, TypeOK, LocalType, Control, IsReader,
          Procs, Slots, GetDone, Goto, rsync, datasem
    <2> QED BY <2>1, EodFrame
  <1>50. ASSUME NEW p \in Writers, ZeroDone(p)
       PROVE  EodCount'
    <2>1. EodSame
      BY <1>50, ProcsAssumption, SizesAssumption
      DEF EodSame, Ending, LoopStart, TypeOK, LocalType, Control, IsReader,
          Procs, Slots, ZeroDone, Goto, wsync, rsync, datasem
    <2> QED BY <2>1, EodFrame
  <1>22. ASSUME NEW p \in Writers, EodAck(p)
       PROVE  EodCount'
    <2> DEFINE t == i[p]
    <2>1. t \in Slots /\ t \in Nat
      BY <1>22, SlotIndex, SizesAssumption DEF EodAck, TypeOK, LocalType, Procs
    <2>2. \A q \in Writers : pc[q] = "eod_ack" => q = p
      BY <1>22 DEF EodAck, WriterExclusion, HoldsWrite, Control
    <2>3. \A s \in Slots : EODACK'[s] = IF s = t THEN EODACK[s] - 1 ELSE EODACK[s]
      BY <1>22, <2>1 DEF EodAck, TypeOK, SemType
    <2>4. w_xfer' = w_xfer /\ r_xfers' = r_xfers
      BY <1>22 DEF EodAck, wsync, rsync
    <2>5. \A s \in Slots : (\E q \in Writers : Ending(q, s)) <=> t > s
      BY <1>22, <2>2 DEF EodAck, Ending
    <2>6. pc' = pc /\ i'[p] = t + 1
      BY <1>22 DEF EodAck, Advance, TypeOK, LocalType, Procs
    <2>7. \A s \in Slots : (\E q \in Writers : Ending(q, s)') <=> t + 1 > s
      BY <1>22, <2>2, <2>6 DEF EodAck, Ending
    <2> SUFFICES ASSUME NEW s \in Slots
                 PROVE  EODACK'[s] + w_xfer' + (IF t + 1 > s THEN 1 ELSE 0)
                            = XFERS + r_xfers'[s]
      BY <2>7 DEF EodCount
    <2>8. EODACK[s] + w_xfer + (IF t > s THEN 1 ELSE 0) = XFERS + r_xfers[s]
      BY <2>5 DEF EodCount
    <2>9. s \in Nat /\ EODACK[s] \in Nat /\ w_xfer \in Nat
      BY SizesAssumption DEF Slots, TypeOK, SyncType, SemType
    <2> QED BY <2>1, <2>3, <2>4, <2>8, <2>9
  <1>23. ASSUME NEW p \in Writers, EodSet(p)
       PROVE  EodCount'
    <2>1. \A q \in Writers : pc[q] = "eod_ack" => q = p
      BY <1>23 DEF EodSet, WriterExclusion, HoldsWrite, Control
    <2>2. \A s \in Slots : \E q \in Writers : Ending(q, s)
      BY <1>23, SizesAssumption DEF EodSet, Ending, Slots
    <2>3. \A s \in Slots, q \in Writers : ~Ending(q, s)'
      BY <1>23, <2>1 DEF EodSet, Ending, Goto, TypeOK, LocalType, Procs
    <2>4. EODACK' = EODACK /\ r_xfers' = r_xfers /\ w_xfer' = w_xfer + 1
      BY <1>23 DEF EodSet, datasem, rsync
    <2>5. \A s \in Slots : EODACK[s] \in Nat /\ w_xfer \in Nat
      BY DEF TypeOK, SyncType, SemType
    <2> QED BY <2>2, <2>3, <2>4, <2>5 DEF EodCount
  <1>24. ASSUME NEW p \in Writers, Publish(p)
       PROVE  EodCount'
    <2>1. EodSame
      BY <1>24, ProcsAssumption, SizesAssumption
      DEF EodSame, Ending, LoopStart, TypeOK, LocalType, Control, IsReader,
          Procs, Slots, Publish, Goto, rsync, datasem
    <2> QED BY <2>1, EodFrame
  <1>25. ASSUME NEW p \in Writers, MarkFull(p)
       PROVE  EodCount'
    <2>1. EodSame
      BY <1>25, ProcsAssumption, SizesAssumption
      DEF EodSame, Ending, LoopStart, TypeOK, LocalType, Control, IsReader,
          Procs, Slots, MarkFull, Goto, Rewind, Advance, wsync, rsync
    <2> QED BY <2>1, EodFrame
  <1>26. ASSUME NEW p \in Writers, ResetClear(p)
       PROVE  EodCount'
    <2>1. EodSame
      BY <1>26, ProcsAssumption, SizesAssumption
      DEF EodSame, Ending, LoopStart, TypeOK, LocalType, Control, IsReader,
          Procs, Slots, ResetClear, TakeClear, Advance, Rewind, wsync, rsync
    <2> QED BY <2>1, EodFrame
  <1>27. ASSUME NEW p \in Writers, ResetCleared(p)
       PROVE  EodCount'
    <2>1. EodSame
      BY <1>27, ProcsAssumption, SizesAssumption
      DEF EodSame, Ending, LoopStart, TypeOK, LocalType, Control, IsReader,
          Procs, Slots, ResetCleared, Goto, wsync, rsync, datasem
    <2> QED BY <2>1, EodFrame
  <1>28. ASSUME NEW p \in Writers, ResetSod(p)
       PROVE  EodCount'
    <2>1. EodSame
      BY <1>28, ProcsAssumption, SizesAssumption
      DEF EodSame, Ending, LoopStart, TypeOK, LocalType, Control, IsReader,
          Procs, Slots, ResetSod, Goto, wsync, rsync
    <2> QED BY <2>1, EodFrame
  <1>29. ASSUME NEW p \in Writers, ResetEod(p)
       PROVE  EodCount'
    BY <1>29 DEF LoopStart, ResetEod
  <1>30. ASSUME NEW p \in Writers, ResetDone(p)
       PROVE  EodCount'
    BY <1>30 DEF LoopStart, ResetDone
  <1>31. ASSUME NEW p \in Writers, WriterStep(p)
       PROVE  EodCount'
    BY <1>31, <1>14, <1>15, <1>16, <1>17, <1>18, <1>19, <1>20, <1>21, <1>50, <1>22,
        <1>23, <1>24, <1>25, <1>26, <1>27, <1>28, <1>29, <1>30 DEF WriterStep
  <1>32. ASSUME NEW p \in Readers, LockRead(p)
       PROVE  EodCount'
    <2>1. EodSame
      BY <1>32, ProcsAssumption, SizesAssumption
      DEF EodSame, Ending, LoopStart, TypeOK, LocalType, Control, IsReader,
          Procs, Slots, LockRead, Goto, wsync, rsync, datasem
    <2> QED BY <2>1, EodFrame
  <1>33. ASSUME NEW p \in Readers, GetNextRead(p)
       PROVE  EodCount'
    <2>1. EodSame
      BY <1>33, ProcsAssumption, SizesAssumption
      DEF EodSame, Ending, LoopStart, TypeOK, LocalType, Control, IsReader,
          Procs, Slots, GetNextRead, Goto, IdleReader, wsync, rsync
    <2> QED BY <2>1, EodFrame
  <1>34. ASSUME NEW p \in Readers, MarkCleared(p)
       PROVE  EodCount'
    <2>1. EodSame
      BY <1>34, ProcsAssumption, SizesAssumption
      DEF EodSame, Ending, LoopStart, TypeOK, LocalType, Control, IsReader,
          Procs, Slots, MarkCleared, Goto, wsync, rsync
    <2> QED BY <2>1, EodFrame
  <1>35. ASSUME NEW p \in Readers, ResetRead(p)
       PROVE  EodCount'
    <2>1. EodSame
      BY <1>35, ProcsAssumption, SizesAssumption
      DEF EodSame, Ending, LoopStart, TypeOK, LocalType, Control, IsReader,
          Procs, Slots, ResetRead, IdleReader, wsync, datasem
    <2> QED BY <2>1, EodFrame
  <1>36. ASSUME NEW p \in Readers, UnlockRead(p)
       PROVE  EodCount'
    <2>1. EodSame
      BY <1>36, ProcsAssumption, SizesAssumption
      DEF EodSame, Ending, LoopStart, TypeOK, LocalType, Control, IsReader,
          Procs, Slots, UnlockRead, Goto, IdleReader, wsync, rsync, datasem
    <2> QED BY <2>1, EodFrame
  <1>37. ASSUME NEW p \in Readers, LockReadOrder(p)
       PROVE  EodCount'
    <2>1. EodSame
      BY <1>37, ProcsAssumption, SizesAssumption
      DEF EodSame, Ending, LoopStart, TypeOK, LocalType, Control, IsReader,
          Procs, Slots, LockReadOrder, Goto, wsync, rsync, datasem
    <2> QED BY <2>1, EodFrame
  <1>38. ASSUME NEW p \in Readers, LockReadTry(p)
       PROVE  EodCount'
    <2>1. EodSame
      BY <1>38, ProcsAssumption, SizesAssumption
      DEF EodSame, Ending, LoopStart, TypeOK, LocalType, Control, IsReader,
          Procs, Slots, LockReadTry, Goto, Rewind, wsync, rsync, datasem
    <2> QED BY <2>1, EodFrame
  <1>39. ASSUME NEW p \in Readers, LockReadSkip(p)
       PROVE  EodCount'
    <2>1. EodSame
      BY <1>39, ProcsAssumption, SizesAssumption
      DEF EodSame, Ending, LoopStart, TypeOK, LocalType, Control, IsReader,
          Procs, Slots, LockReadSkip, Advance, wsync, rsync, datasem
    <2> QED BY <2>1, EodFrame
  <1>40. ASSUME NEW p \in Readers, LockReadFail(p)
       PROVE  EodCount'
    <2>1. EodSame
      BY <1>40, ProcsAssumption, SizesAssumption
      DEF EodSame, Ending, LoopStart, TypeOK, LocalType, Control, IsReader,
          Procs, Slots, LockReadFail, Goto, wsync, rsync, datasem
    <2> QED BY <2>1, EodFrame
  <1>41. ASSUME NEW p \in Readers, LockReadState(p)
       PROVE  EodCount'
    <2>1. EodSame
      BY <1>41, ProcsAssumption, SizesAssumption
      DEF EodSame, Ending, LoopStart, TypeOK, LocalType, Control, IsReader,
          Procs, Slots, LockReadState, Goto, wsync, datasem
    <2> QED BY <2>1, EodFrame
  <1>42. ASSUME NEW p \in Readers, UnlockReadRole(p)
       PROVE  EodCount'
    <2>1. EodSame
      BY <1>42, ProcsAssumption, SizesAssumption
      DEF EodSame, Ending, LoopStart, TypeOK, LocalType, Control, IsReader,
          Procs, Slots, UnlockReadRole, Goto, wsync, rsync, datasem
    <2> QED BY <2>1, EodFrame
  <1>43. ASSUME NEW p \in Readers, UnlockReadState(p)
       PROVE  EodCount'
    <2>1. EodSame
      BY <1>43, ProcsAssumption, SizesAssumption
      DEF EodSame, Ending, LoopStart, TypeOK, LocalType, Control, IsReader,
          Procs, Slots, UnlockReadState, Goto, wsync, datasem
    <2> QED BY <2>1, EodFrame
  <1>44. ASSUME NEW p \in Readers, SodInc(p)
       PROVE  EodCount'
    <2>1. EodSame
      BY <1>44, ProcsAssumption, SizesAssumption
      DEF EodSame, Ending, LoopStart, TypeOK, LocalType, Control, IsReader,
          Procs, Slots, SodInc, Goto, wsync
    <2> QED BY <2>1, EodFrame
  <1>45. ASSUME NEW p \in Readers, ReadBytes(p)
       PROVE  EodCount'
    <2>1. EodSame
      BY <1>45, ProcsAssumption, SizesAssumption
      DEF EodSame, Ending, LoopStart, TypeOK, LocalType, Control, IsReader,
          Procs, Slots, ReadBytes, Goto, wsync, rsync, datasem
    <2> QED BY <2>1, EodFrame
  <1>46. ASSUME NEW p \in Readers, ClearedNext(p)
       PROVE  EodCount'
    <2>1. EodSame
      BY <1>46, ProcsAssumption, SizesAssumption
      DEF EodSame, Ending, LoopStart, TypeOK, LocalType, Control, IsReader,
          Procs, Slots, ClearedNext, Goto, wsync, datasem
    <2> QED BY <2>1, EodFrame
  <1>47. ASSUME NEW p \in Readers, ClearedEod(p)
       PROVE  EodCount'
    <2> DEFINE t == iread[p]
    <2>1. t \in Slots
      BY <1>47 DEF ClearedEod, Control, SlotLabels
    <2>2. \A s \in Slots :
              /\ EODACK'[s] = IF s = t THEN EODACK[s] + 1 ELSE EODACK[s]
              /\ r_xfers'[s] = IF s = t THEN r_xfers[s] + 1 ELSE r_xfers[s]
      BY <1>47, <2>1 DEF ClearedEod, TypeOK, SemType, ReadersType
    <2>3. w_xfer' = w_xfer
      BY <1>47 DEF ClearedEod, wsync
    <2>4. \A q \in Writers, s \in Slots : Ending(q, s)' = Ending(q, s)
      BY <1>47, ProcsAssumption
      DEF ClearedEod, Ending, Goto, TypeOK, LocalType, Procs
    <2>5. \A s \in Slots : EODACK[s] \in Nat /\ w_xfer \in Nat /\ r_xfers[s] \in Nat
      BY DEF TypeOK, SyncType, SemType, ReadersType
    <2> QED BY <2>2, <2>3, <2>4, <2>5, SizesAssumption DEF EodCount
  <1>48. ASSUME NEW p \in Readers, ReaderCall(p) \/ ReaderStep(p) \/ ReaderLeaves(p)
       PROVE  EodCount'
    BY <1>48, <1>32, <1>33, <1>34, <1>35, <1>36, <1>37, <1>38, <1>39, <1>40,
        <1>41, <1>42, <1>43, <1>44, <1>45, <1>46, <1>47 DEF ReaderCall,
        ReaderStep, ReaderLeaves
  <1>49. CASE UNCHANGED vars
    BY <1>49, EodFrame
    DEF EodSame, Ending, vars, wsync, rsync, datasem
  <1> QED BY <1>13, <1>31, <1>48, <1>49 DEF Next, Rest, ZeroPoll

\* While nobody resets the ring, the writer is never more than IPCBUF_XFERS
\* transfers ahead of any reader, so mark_filled never overwrites the end of
\* data of a transfer that a reader is still in.
THEOREM XferWindowHolds ==
    ASSUME "reset" \notin Uses
    PROVE  Spec => []XferWindow
  <1>1. Init => LoopStart /\ EodCount
    BY SizesAssumption DEF Init, LoopStart, EodCount, Ending, Procs
  <1>2. TypeOK /\ Control /\ LoopStart /\ [Next]_vars => LoopStart'
    BY LoopNext
  <1>3. TypeOK /\ Control /\ WriterExclusion /\ LoopStart /\ EodCount
        /\ [Next]_vars => EodCount'
    BY EodNext
  <1>4. TypeOK /\ EodCount => XferWindow
    <2> SUFFICES ASSUME TypeOK, EodCount, NEW s \in Slots
                 PROVE  w_xfer <= r_xfers[s] + XFERS
      BY DEF XferWindow
    <2>1. EODACK[s] \in Nat /\ w_xfer \in Nat /\ r_xfers[s] \in Nat
      BY DEF TypeOK, SyncType, SemType, ReadersType
    <2> QED BY <2>1, SizesAssumption DEF EodCount
  <1> QED BY <1>1, <1>2, <1>3, <1>4, TypeInit, TypeNext, WriterExclusive, PTL
      DEF Spec

-----------------------------------------------------------------------------
(* Types.                                                                  *)

UndoType == undo \in Nat

\* A library step of the crash specification is a step of the library.
LEMMA LibraryIsNext == LibraryStep => [Next]_vars
  BY DEF LibraryStep

\* A fresh handle has its types, and no role.
LEMMA TypeCrash ==
    ASSUME TypeOK, Control, NEW p \in Procs, Crash(p)
    PROVE  TypeOK' /\ Control'
  <1>1. SyncType' /\ FlagsType' /\ ReadersType'
    BY DEF TypeOK, SyncType, FlagsType, ReadersType, Crash, wsync, flags, rsync, hist
  <1>2. SemType'
    <2>1. WRITE' \in Nat /\ READ' \in Nat
      BY DEF TypeOK, SemType, Crash, Undo
    <2>2. READER_CONN' \in [Slots -> Nat]
      <3>1. p \in Readers /\ HoldsSlot(p) => iread[p] \in Slots
        BY DEF TypeOK, HandleType, HoldsSlot
      <3> QED BY <3>1 DEF TypeOK, SemType, Crash, Undo
    <2> QED BY <2>1, <2>2 DEF TypeOK, SemType, Crash, datasem
  <1>3. HandleType'
    <2>1. 0 \in Xfers
      BY SizesAssumption DEF Xfers
    <2> QED BY <2>1 DEF TypeOK, HandleType, PStates, Crash, FreshHandle, SetState
  <1>4. LocalType'
    <2>1. 0 \in 0..NREADERS
      BY SizesAssumption
    <2>2. [k \in Slots |-> k] \in [Slots -> Slots]
      OBVIOUS
    <2>3. pc' \in [Procs -> Labels] /\ i' \in [Procs -> 0..NREADERS]
      BY <2>1 DEF TypeOK, LocalType, Labels, Crash, FreshHandle, Goto, Rewind
    <2>4. /\ start_buf' \in [Procs -> Nat] /\ start_byte' \in [Procs -> Nat]
          /\ nbytes' \in [Procs -> Nat] /\ ret' \in [Procs -> {"idle", "get", "publish"}]
      BY DEF TypeOK, LocalType, Crash, FreshHandle
    <2>5. order' \in [Procs -> [Slots -> Slots]]
      BY <2>2 DEF TypeOK, LocalType, Crash, FreshHandle
    <2> QED BY <2>3, <2>4, <2>5 DEF LocalType
  <1>5. Control'
    <2>1. ASSUME NEW q \in Procs
          PROVE  /\ pc'[q] = IF q = p THEN "idle" ELSE pc[q]
                 /\ state'[q] = IF q = p THEN "VIEWER" ELSE state[q]
                 /\ iread'[q] = IF q = p THEN -1 ELSE iread[q]
      BY DEF TypeOK, HandleType, LocalType, Crash, FreshHandle, Goto, SetState
    <2> QED BY <2>1, ProcsAssumption
        DEF Control, IsReader, IsWriter, Procs, WLabels, RLabels, SlotLabels
  <1> QED BY <1>1, <1>2, <1>3, <1>4, <1>5 DEF TypeOK

\* The kernel's second step only returns READ.
LEMMA TypeUndoRead ==
    ASSUME TypeOK, Control, UndoRead
    PROVE  TypeOK' /\ Control'
  <1>1. SyncType' /\ FlagsType' /\ ReadersType' /\ HandleType' /\ LocalType'
    BY DEF TypeOK, SyncType, FlagsType, ReadersType, HandleType, LocalType, UndoRead,
        wsync, flags, rsync, handle, args, hist
  <1>2. SemType'
    BY DEF TypeOK, SemType, UndoRead, datasem
  <1>3. Control'
    BY DEF Control, IsReader, IsWriter, UndoRead, handle
  <1> QED BY <1>1, <1>2, <1>3 DEF TypeOK

\* ipcbuf_hard_reset leaves positions and semaphores of the right types, and the
\* handles alone.
LEMMA TypeHardReset ==
    ASSUME TypeOK, Control, HardReset
    PROVE  TypeOK' /\ Control'
  <1>1. SyncType' /\ FlagsType' /\ ReadersType'
    BY DEF TypeOK, SyncType, FlagsType, ReadersType, HardReset
  <1>2. SemType'
    BY DEF TypeOK, SemType, HardReset, consem
  <1>3. HandleType' /\ LocalType' /\ Control'
    BY DEF TypeOK, HandleType, LocalType, Control, IsReader, IsWriter, HardReset,
        handle, args
  <1> QED BY <1>1, <1>2, <1>3 DEF TypeOK

\* Every step of the crash specification keeps the types.
LEMMA CrashTypeNext ==
    ASSUME TypeOK, Control, UndoType, [CrashNext]_cvars
    PROVE  TypeOK' /\ Control' /\ UndoType'
  <1>1. CASE LibraryStep
    <2>1. TypeOK' /\ Control'
      BY <1>1, LibraryIsNext, TypeNext
    <2>2. UndoType'
      BY <1>1 DEF LibraryStep, UndoType
    <2> QED BY <2>1, <2>2
  <1>2. ASSUME NEW p \in Procs, Crash(p) PROVE TypeOK' /\ Control' /\ UndoType'
    <2>1. UndoType'
      BY <1>2 DEF Crash, Undo, UndoType
    <2> QED BY <1>2, <2>1, TypeCrash
  <1>3. CASE UndoRead
    <2>1. UndoType'
      BY <1>3 DEF UndoRead, UndoType
    <2> QED BY <1>3, <2>1, TypeUndoRead
  <1>4. CASE HardReset
    <2>1. UndoType'
      BY <1>4 DEF HardReset, UndoType
    <2> QED BY <1>4, <2>1, TypeHardReset
  <1>5. CASE UNCHANGED cvars
    <2>1. UNCHANGED vars
      BY <1>5 DEF cvars
    <2>2. UndoType'
      BY <1>5 DEF cvars, UndoType
    <2> QED BY <2>1, <2>2, TypeNext
  <1> QED BY <1>1, <1>2, <1>3, <1>4, <1>5 DEF CrashNext

\* They hold at the start.
LEMMA CrashTypeInit == CrashInit => TypeOK /\ Control /\ UndoType
  BY TypeInit DEF CrashInit, UndoType

\* Whenever and wherever processes die, and even when the ring is hard reset under
\* its clients: the shared fields keep their types, no array of ipcsync_t is
\* indexed out of bounds and no semaphore goes below zero.
THEOREM CrashTypeCorrect == CrashSpec => []TypeOK
  <1>1. TypeOK /\ Control /\ UndoType /\ [CrashNext]_cvars
        => TypeOK' /\ Control' /\ UndoType'
    BY CrashTypeNext
  <1> QED BY <1>1, CrashTypeInit, PTL DEF CrashSpec

-----------------------------------------------------------------------------
(* WRITE.                                                                  *)

\* A crash gives WRITE back exactly if the process that died held it.
LEMMA WriteCrash ==
    ASSUME TypeOK, Control, WriterExclusion, WriteToken, NEW p \in Procs, Crash(p)
    PROVE  WriterExclusion' /\ WriteToken'
  <1>1. \A q \in Writers : HoldsWrite(q)' <=> q # p /\ HoldsWrite(q)
    <2>1. ASSUME NEW q \in Writers
          PROVE  /\ pc'[q] = IF q = p THEN "idle" ELSE pc[q]
                 /\ state'[q] = IF q = p THEN "VIEWER" ELSE state[q]
      BY DEF TypeOK, HandleType, LocalType, Crash, FreshHandle, Goto, SetState, Procs
    <2> QED BY <2>1 DEF HoldsWrite, IsWriter
  <1>2. CASE p \in Writers /\ HoldsWrite(p)
    <2>1. WRITE' = 1
      BY <1>2 DEF Crash, Undo, WriteToken
    <2>2. \A q \in Writers : ~HoldsWrite(q)'
      BY <1>1, <1>2 DEF WriterExclusion
    <2> QED BY <2>1, <2>2 DEF WriterExclusion, WriteToken
  <1>3. CASE ~(p \in Writers /\ HoldsWrite(p))
    <2>1. WriteSame
      BY <1>1, <1>3 DEF WriteSame, Crash, Undo, HoldsWrite, IsWriter
    <2> QED BY <2>1, WriteFrame
  <1> QED BY <1>2, <1>3

\* Every step of the crash specification keeps the account of WRITE.
LEMMA CrashWriteNext ==
    ASSUME TypeOK, Control, WriterExclusion, WriteToken, [CrashNext]_cvars
    PROVE  WriterExclusion' /\ WriteToken'
  <1>1. CASE LibraryStep
    BY <1>1, LibraryIsNext, WriteNext
  <1>2. ASSUME NEW p \in Procs, Crash(p) PROVE WriterExclusion' /\ WriteToken'
    BY <1>2, WriteCrash
  <1>3. CASE UndoRead \/ HardReset
    <2>1. WriteSame
      BY <1>3 DEF WriteSame, UndoRead, HardReset, HoldsWrite, IsWriter, handle, consem
    <2> QED BY <2>1, WriteFrame
  <1>4. CASE UNCHANGED cvars
    <2>1. UNCHANGED vars
      BY <1>4 DEF cvars
    <2> QED BY <2>1, WriteNext
  <1> QED BY <1>1, <1>2, <1>3, <1>4 DEF CrashNext

\* SEM_UNDO is enough for the writer's role: at most one process has it, wherever
\* others died before.
THEOREM CrashWriterExclusive == CrashSpec => []WriterExclusion
  <1>1. CrashInit => WriterExclusion /\ WriteToken
    BY DEF CrashInit, Init, WriterExclusion, WriteToken, HoldsWrite, IsWriter, Procs
  <1>2. TypeOK /\ Control /\ WriterExclusion /\ WriteToken /\ [CrashNext]_cvars
        => WriterExclusion' /\ WriteToken'
    BY CrashWriteNext
  <1>3. TypeOK /\ Control /\ UndoType /\ [CrashNext]_cvars
        => TypeOK' /\ Control' /\ UndoType'
    BY CrashTypeNext
  <1> QED BY <1>1, <1>2, <1>3, CrashTypeInit, PTL DEF CrashSpec

-----------------------------------------------------------------------------
(* READER_CONN.                                                            *)

\* A crash gives the slot back exactly if the process that died held it.
LEMMA SlotCrash ==
    ASSUME TypeOK, Control, SlotInv, NEW p \in Procs, Crash(p)
    PROVE  SlotInv'
  <1>1. ASSUME NEW q \in Procs
        PROVE  /\ pc'[q] = IF q = p THEN "idle" ELSE pc[q]
               /\ iread'[q] = IF q = p THEN -1 ELSE iread[q]
    BY DEF TypeOK, HandleType, LocalType, Crash, FreshHandle, Goto
  <1>2. Seeking'
    BY <1>1 DEF SlotInv, Seeking, Procs
  <1>3. \A q \in Readers, s \in Slots : Holds(q, s)' <=> q # p /\ Holds(q, s)
    <2>1. -1 \notin Slots
      BY SizesAssumption DEF Slots
    <2> QED BY <1>1, <2>1 DEF Holds, HoldsSlot, Procs
  <1>4. CASE p \in Readers /\ HoldsSlot(p)
    <2>1. PICK c \in Slots : c = iread[p]
      BY <1>4 DEF TypeOK, HandleType, Procs, HoldsSlot
    <2>2. Holds(p, c)
      BY <1>4, <2>1 DEF Holds
    <2>3. READER_CONN' = [READER_CONN EXCEPT ![c] = @ + 1]
      BY <1>4, <2>1 DEF Crash, Undo
    <2>4. READER_CONN'[c] = 1 /\ \A q \in Readers : ~(Holds(q, c)')
      <3>1. READER_CONN[c] = 0
        BY <1>4, <2>2 DEF SlotInv, SlotToken
      <3>2. READER_CONN'[c] = 1
        BY <2>3, <3>1 DEF TypeOK, SemType
      <3>3. \A q \in Readers : Holds(q, c) => q = p
        BY <1>4, <2>2 DEF SlotInv
      <3> QED BY <1>3, <3>2, <3>3
    <2>5. ASSUME NEW s \in Slots, s # c
          PROVE  /\ READER_CONN'[s] = READER_CONN[s]
                 /\ \A q \in Readers : Holds(q, s)' <=> Holds(q, s)
      <3>1. ~Holds(p, s)
        BY <2>1, <2>5 DEF Holds
      <3> QED BY <1>3, <2>3, <2>5, <3>1 DEF TypeOK, SemType
    <2>6. SlotToken'
      <3> SUFFICES ASSUME NEW s \in Slots
                   PROVE  READER_CONN'[s] = IF \E q \in Readers : Holds(q, s)' THEN 0 ELSE 1
        BY DEF SlotToken
      <3>1. CASE s = c
        BY <2>4, <3>1
      <3>2. CASE s # c
        BY <2>5, <3>2 DEF SlotInv, SlotToken
      <3> QED BY <3>1, <3>2
    <2> QED BY <1>2, <1>3, <2>6 DEF SlotInv
  <1>5. CASE ~(p \in Readers /\ HoldsSlot(p))
    <2>1. READER_CONN' = READER_CONN
      BY <1>5 DEF Crash, Undo
    <2>2. \A q \in Readers, s \in Slots : Holds(q, s)' = Holds(q, s)
      BY <1>3, <1>5 DEF Holds, HoldsSlot
    <2>3. SlotSame
      BY <2>1, <2>2 DEF SlotSame
    <2> QED BY <1>2, <2>3, SlotFrame
  <1> QED BY <1>4, <1>5

\* Every step of the crash specification keeps the account of the slots.
LEMMA CrashSlotNext ==
    ASSUME TypeOK, Control, SlotInv, [CrashNext]_cvars
    PROVE  SlotInv'
  <1>1. CASE LibraryStep
    BY <1>1, LibraryIsNext, SlotNext
  <1>2. ASSUME NEW p \in Procs, Crash(p) PROVE SlotInv'
    BY <1>2, SlotCrash
  <1>3. CASE UndoRead \/ HardReset
    <2>1. SlotSame /\ Seeking'
      BY <1>3 DEF SlotSame, SlotInv, Seeking, UndoRead, HardReset, Holds, HoldsSlot, handle,
          consem
    <2> QED BY <2>1, SlotFrame
  <1>4. CASE UNCHANGED cvars
    <2>1. UNCHANGED vars
      BY <1>4 DEF cvars
    <2> QED BY <2>1, SlotNext
  <1> QED BY <1>1, <1>2, <1>3, <1>4 DEF CrashNext

\* SEM_UNDO is enough for the slots: no two readers ever share one, wherever others
\* died before.
THEOREM CrashSlotExclusive == CrashSpec => []SlotExclusion
  <1>1. CrashInit => SlotInv
    BY DEF CrashInit, Init, SlotInv, SlotToken, Seeking, Holds, HoldsSlot, Procs
  <1>2. TypeOK /\ Control /\ SlotInv /\ [CrashNext]_cvars => SlotInv'
    BY CrashSlotNext
  <1>3. TypeOK /\ SlotInv => SlotExclusion
    <2> SUFFICES ASSUME TypeOK, SlotInv, NEW p \in Readers, NEW q \in Readers,
                        HoldsSlot(p), HoldsSlot(q), iread[p] = iread[q]
                 PROVE  p = q
      BY DEF SlotExclusion
    <2>1. iread[p] \in Slots
      BY DEF TypeOK, HandleType, Procs, HoldsSlot
    <2> QED BY <2>1 DEF SlotInv, Holds
  <1>4. TypeOK /\ Control /\ UndoType /\ [CrashNext]_cvars
        => TypeOK' /\ Control' /\ UndoType'
    BY CrashTypeNext
  <1> QED BY <1>1, <1>2, <1>3, <1>4, CrashTypeInit, PTL DEF CrashSpec

-----------------------------------------------------------------------------
(* READ: of the NREADERS units, every one is free, with the kernel, or     *)
(* with a process that ipcbuf_lock_read admitted.                          *)

\* A step that neither takes nor gives back READ.
ReadSame == READ' = READ /\ \A q \in Readers : HoldsRead(q)' = HoldsRead(q)

\* What a step of the library may do to READ.
ReadStep ==
    \/ READ' = READ /\ Admitted' = Admitted
    \/ \E p \in Readers \ Admitted : Admitted' = Admitted \cup {p} /\ READ' = READ - 1
    \/ \E p \in Admitted : Admitted' = Admitted \ {p} /\ READ' = READ + 1

\* A step that leaves READ and its holders alone is one of them.
LEMMA ReadFrame == ReadSame => ReadStep
  BY DEF ReadSame, ReadStep, Admitted

\* Every step of the library moves at most one unit of READ.
LEMMA ReadNext ==
    ASSUME TypeOK, Control, [Next]_vars
    PROVE  ReadStep
  <1>1. ASSUME NEW p \in Writers, LockWrite(p)
       PROVE  ReadStep
    <2>1. ReadSame
      BY <1>1, ProcsAssumption
      DEF ReadSame, HoldsRead, HoldsSlot, TypeOK, HandleType, LocalType,
          Control, RLabels, SlotLabels, IsReader, Procs, LockWrite, Goto,
          handle
    <2> QED BY <2>1, ReadFrame
  <1>2. ASSUME NEW p \in Writers, UnlockWrite(p)
       PROVE  ReadStep
    <2>1. ReadSame
      BY <1>2, ProcsAssumption
      DEF ReadSame, HoldsRead, HoldsSlot, TypeOK, HandleType, LocalType,
          Control, RLabels, SlotLabels, IsReader, Procs, UnlockWrite, Goto,
          IdleWriter, handle
    <2> QED BY <2>1, ReadFrame
  <1>3. ASSUME NEW p \in Writers, RelockWrite(p)
       PROVE  ReadStep
    <2>1. ReadSame
      BY <1>3, ProcsAssumption
      DEF ReadSame, HoldsRead, HoldsSlot, TypeOK, HandleType, LocalType,
          Control, RLabels, SlotLabels, IsReader, Procs, RelockWrite,
          IdleWriter, consem
    <2> QED BY <2>1, ReadFrame
  <1>4. ASSUME NEW p \in Writers, EnableEod(p)
       PROVE  ReadStep
    <2>1. ReadSame
      BY <1>4, ProcsAssumption
      DEF ReadSame, HoldsRead, HoldsSlot, TypeOK, HandleType, LocalType,
          Control, RLabels, SlotLabels, IsReader, Procs, EnableEod, Goto,
          IdleWriter, consem
    <2> QED BY <2>1, ReadFrame
  <1>5. ASSUME NEW p \in Writers, DisableSod(p)
       PROVE  ReadStep
    <2>1. ReadSame
      BY <1>5, ProcsAssumption
      DEF ReadSame, HoldsRead, HoldsSlot, TypeOK, HandleType, LocalType,
          Control, RLabels, SlotLabels, IsReader, Procs, DisableSod,
          IdleWriter, consem
    <2> QED BY <2>1, ReadFrame
  <1>6. ASSUME NEW p \in Writers, SetSoclockBuf(p)
       PROVE  ReadStep
    <2>1. ReadSame
      BY <1>6, ProcsAssumption
      DEF ReadSame, HoldsRead, HoldsSlot, TypeOK, HandleType, LocalType,
          Control, RLabels, SlotLabels, IsReader, Procs, SetSoclockBuf,
          IdleWriter, consem
    <2> QED BY <2>1, ReadFrame
  <1>7. ASSUME NEW p \in Writers, NEW b \in 0..MaxBlock, NEW y \in 0..BUFSZ,
             EnableSod(p, b, y)
       PROVE  ReadStep
    <2>1. ReadSame
      BY <1>7, ProcsAssumption
      DEF ReadSame, HoldsRead, HoldsSlot, TypeOK, HandleType, LocalType,
          Control, RLabels, SlotLabels, IsReader, Procs, EnableSod,
          CallEnableSod, Goto, IdleWriter, consem, handle
    <2> QED BY <2>1, ReadFrame
  <1>8. ASSUME NEW p \in Writers, GetNextWrite(p)
       PROVE  ReadStep
    <2>1. ReadSame
      BY <1>8, ProcsAssumption
      DEF ReadSame, HoldsRead, HoldsSlot, TypeOK, HandleType, LocalType,
          Control, RLabels, SlotLabels, IsReader, Procs, GetNextWrite, Goto,
          CallEnableSod, IdleWriter, consem, handle
    <2> QED BY <2>1, ReadFrame
  <1>9. ASSUME NEW p \in Writers, ZeroNextWrite(p)
       PROVE  ReadStep
    <2>1. ReadSame
      BY <1>9, ProcsAssumption
      DEF ReadSame, HoldsRead, HoldsSlot, TypeOK, HandleType, LocalType,
          Control, RLabels, SlotLabels, IsReader, Procs, ZeroNextWrite, Goto,
          IdleWriter, consem, handle
    <2> QED BY <2>1, ReadFrame
  <1>10. ASSUME NEW p \in Writers, MarkFilledClocked(p)
       PROVE  ReadStep
    <2>1. ReadSame
      BY <1>10, ProcsAssumption
      DEF ReadSame, HoldsRead, HoldsSlot, TypeOK, HandleType, LocalType,
          Control, RLabels, SlotLabels, IsReader, Procs, MarkFilledClocked,
          IdleWriter, consem, handle
    <2> QED BY <2>1, ReadFrame
  <1>11. ASSUME NEW p \in Writers, NEW n \in 0..BUFSZ, MarkFilled(p, n)
       PROVE  ReadStep
    <2>1. ReadSame
      BY <1>11, ProcsAssumption
      DEF ReadSame, HoldsRead, HoldsSlot, TypeOK, HandleType, LocalType,
          Control, RLabels, SlotLabels, IsReader, Procs, MarkFilled, Goto,
          IdleWriter, consem, handle
    <2> QED BY <2>1, ReadFrame
  <1>12. ASSUME NEW p \in Writers, "reset" \in Uses, Reset(p)
       PROVE  ReadStep
    <2>1. ReadSame
      BY <1>12, ProcsAssumption
      DEF ReadSame, HoldsRead, HoldsSlot, TypeOK, HandleType, LocalType,
          Control, RLabels, SlotLabels, IsReader, Procs, Reset, Goto,
          IdleWriter, consem, handle
    <2> QED BY <2>1, ReadFrame
  <1>13. ASSUME NEW p \in Writers, WriterCall(p)
       PROVE  ReadStep
    BY <1>13, <1>1, <1>2, <1>3, <1>4, <1>5, <1>6, <1>7, <1>8, <1>9, <1>10,
        <1>11, <1>12 DEF WriterCall
  <1>14. ASSUME NEW p \in Writers, LockWriteState(p)
       PROVE  ReadStep
    <2>1. ReadSame
      BY <1>14, ProcsAssumption
      DEF ReadSame, HoldsRead, HoldsSlot, TypeOK, HandleType, LocalType,
          Control, RLabels, SlotLabels, IsReader, Procs, LockWriteState, Goto,
          consem
    <2> QED BY <2>1, ReadFrame
  <1>15. ASSUME NEW p \in Writers, UnlockWriteState(p)
       PROVE  ReadStep
    <2>1. ReadSame
      BY <1>15, ProcsAssumption
      DEF ReadSame, HoldsRead, HoldsSlot, TypeOK, HandleType, LocalType,
          Control, RLabels, SlotLabels, IsReader, Procs, UnlockWriteState,
          Goto, consem
    <2> QED BY <2>1, ReadFrame
  <1>16. ASSUME NEW p \in Writers, SodAck(p)
       PROVE  ReadStep
    <2>1. ReadSame
      BY <1>16, ProcsAssumption
      DEF ReadSame, HoldsRead, HoldsSlot, TypeOK, HandleType, LocalType,
          Control, RLabels, SlotLabels, IsReader, Procs, SodAck, consem,
          handle
    <2> QED BY <2>1, ReadFrame
  <1>17. ASSUME NEW p \in Writers, SodSet(p)
       PROVE  ReadStep
    <2>1. ReadSame
      BY <1>17, ProcsAssumption
      DEF ReadSame, HoldsRead, HoldsSlot, TypeOK, HandleType, LocalType,
          Control, RLabels, SlotLabels, IsReader, Procs, SodSet, Goto, consem
    <2> QED BY <2>1, ReadFrame
  <1>18. ASSUME NEW p \in Writers, SodFull(p)
       PROVE  ReadStep
    <2>1. ReadSame
      BY <1>18, ProcsAssumption
      DEF ReadSame, HoldsRead, HoldsSlot, TypeOK, HandleType, LocalType,
          Control, RLabels, SlotLabels, IsReader, Procs, SodFull, consem,
          handle
    <2> QED BY <2>1, ReadFrame
  <1>19. ASSUME NEW p \in Writers, SodDone(p)
       PROVE  ReadStep
    <2>1. ReadSame
      BY <1>19, ProcsAssumption
      DEF ReadSame, HoldsRead, HoldsSlot, TypeOK, HandleType, LocalType,
          Control, RLabels, SlotLabels, IsReader, Procs, SodDone, Goto,
          consem, handle
    <2> QED BY <2>1, ReadFrame
  <1>20. ASSUME NEW p \in Writers, GetClear(p)
       PROVE  ReadStep
    <2>1. ReadSame
      BY <1>20, ProcsAssumption
      DEF ReadSame, HoldsRead, HoldsSlot, TypeOK, HandleType, LocalType,
          Control, RLabels, SlotLabels, IsReader, Procs, GetClear, consem,
          handle
    <2> QED BY <2>1, ReadFrame
  <1>21. ASSUME NEW p \in Writers, GetDone(p)
       PROVE  ReadStep
    <2>1. ReadSame
      BY <1>21, ProcsAssumption
      DEF ReadSame, HoldsRead, HoldsSlot, TypeOK, HandleType, LocalType,
          Control, RLabels, SlotLabels, IsReader, Procs, GetDone, Goto,
          consem, handle
    <2> QED BY <2>1, ReadFrame
  <1>50. ASSUME NEW p \in Writers, ZeroDone(p)
       PROVE  ReadStep
    <2>1. ReadSame
      BY <1>50, ProcsAssumption
      DEF ReadSame, HoldsRead, HoldsSlot, TypeOK, HandleType, LocalType,
          Control, RLabels, SlotLabels, IsReader, Procs, ZeroDone, Goto,
          consem, handle
    <2> QED BY <2>1, ReadFrame
  <1>22. ASSUME NEW p \in Writers, EodAck(p)
       PROVE  ReadStep
    <2>1. ReadSame
      BY <1>22, ProcsAssumption
      DEF ReadSame, HoldsRead, HoldsSlot, TypeOK, HandleType, LocalType,
          Control, RLabels, SlotLabels, IsReader, Procs, EodAck, consem,
          handle
    <2> QED BY <2>1, ReadFrame
  <1>23. ASSUME NEW p \in Writers, EodSet(p)
       PROVE  ReadStep
    <2>1. ReadSame
      BY <1>23, ProcsAssumption
      DEF ReadSame, HoldsRead, HoldsSlot, TypeOK, HandleType, LocalType,
          Control, RLabels, SlotLabels, IsReader, Procs, EodSet, Goto, consem
    <2> QED BY <2>1, ReadFrame
  <1>24. ASSUME NEW p \in Writers, Publish(p)
       PROVE  ReadStep
    <2>1. ReadSame
      BY <1>24, ProcsAssumption
      DEF ReadSame, HoldsRead, HoldsSlot, TypeOK, HandleType, LocalType,
          Control, RLabels, SlotLabels, IsReader, Procs, Publish, Goto,
          consem, handle
    <2> QED BY <2>1, ReadFrame
  <1>25. ASSUME NEW p \in Writers, MarkFull(p)
       PROVE  ReadStep
    <2>1. ReadSame
      BY <1>25, ProcsAssumption
      DEF ReadSame, HoldsRead, HoldsSlot, TypeOK, HandleType, LocalType,
          Control, RLabels, SlotLabels, IsReader, Procs, MarkFull, Goto,
          consem, handle
    <2> QED BY <2>1, ReadFrame
  <1>26. ASSUME NEW p \in Writers, ResetClear(p)
       PROVE  ReadStep
    <2>1. ReadSame
      BY <1>26, ProcsAssumption
      DEF ReadSame, HoldsRead, HoldsSlot, TypeOK, HandleType, LocalType,
          Control, RLabels, SlotLabels, IsReader, Procs, ResetClear, consem,
          handle
    <2> QED BY <2>1, ReadFrame
  <1>27. ASSUME NEW p \in Writers, ResetCleared(p)
       PROVE  ReadStep
    <2>1. ReadSame
      BY <1>27, ProcsAssumption
      DEF ReadSame, HoldsRead, HoldsSlot, TypeOK, HandleType, LocalType,
          Control, RLabels, SlotLabels, IsReader, Procs, ResetCleared, Goto,
          consem, handle
    <2> QED BY <2>1, ReadFrame
  <1>28. ASSUME NEW p \in Writers, ResetSod(p)
       PROVE  ReadStep
    <2>1. ReadSame
      BY <1>28, ProcsAssumption
      DEF ReadSame, HoldsRead, HoldsSlot, TypeOK, HandleType, LocalType,
          Control, RLabels, SlotLabels, IsReader, Procs, ResetSod, Goto,
          consem, handle
    <2> QED BY <2>1, ReadFrame
  <1>29. ASSUME NEW p \in Writers, ResetEod(p)
       PROVE  ReadStep
    <2>1. ReadSame
      BY <1>29, ProcsAssumption
      DEF ReadSame, HoldsRead, HoldsSlot, TypeOK, HandleType, LocalType,
          Control, RLabels, SlotLabels, IsReader, Procs, ResetEod, Goto,
          consem, handle
    <2> QED BY <2>1, ReadFrame
  <1>30. ASSUME NEW p \in Writers, ResetDone(p)
       PROVE  ReadStep
    <2>1. ReadSame
      BY <1>30, ProcsAssumption
      DEF ReadSame, HoldsRead, HoldsSlot, TypeOK, HandleType, LocalType,
          Control, RLabels, SlotLabels, IsReader, Procs, ResetDone, Goto,
          consem, handle
    <2> QED BY <2>1, ReadFrame
  <1>31. ASSUME NEW p \in Writers, WriterStep(p)
       PROVE  ReadStep
    BY <1>31, <1>14, <1>15, <1>16, <1>17, <1>18, <1>19, <1>20, <1>21, <1>50, <1>22,
        <1>23, <1>24, <1>25, <1>26, <1>27, <1>28, <1>29, <1>30 DEF WriterStep
  <1>32. ASSUME NEW p \in Readers, LockRead(p)
       PROVE  ReadStep
    <2>1. p \notin Admitted
      BY <1>32 DEF Admitted, HoldsRead, HoldsSlot, LockRead
    <2>2. \A q \in Readers : HoldsRead(q)' <=> q = p \/ HoldsRead(q)
      BY <1>32 DEF HoldsRead, HoldsSlot, LockRead, Goto, handle, TypeOK, LocalType, Procs
    <2>3. Admitted' = Admitted \cup {p}
      BY <2>2 DEF Admitted
    <2>4. READ' = READ - 1
      BY <1>32 DEF LockRead
    <2> QED BY <2>1, <2>3, <2>4 DEF ReadStep
  <1>33. ASSUME NEW p \in Readers, GetNextRead(p)
       PROVE  ReadStep
    <2>1. ReadSame
      BY <1>33, ProcsAssumption
      DEF ReadSame, HoldsRead, HoldsSlot, TypeOK, HandleType, LocalType,
          Control, RLabels, SlotLabels, IsReader, Procs, GetNextRead, Goto,
          IdleReader, consem, handle
    <2> QED BY <2>1, ReadFrame
  <1>34. ASSUME NEW p \in Readers, MarkCleared(p)
       PROVE  ReadStep
    <2>1. ReadSame
      BY <1>34, ProcsAssumption
      DEF ReadSame, HoldsRead, HoldsSlot, TypeOK, HandleType, LocalType,
          Control, RLabels, SlotLabels, IsReader, Procs, MarkCleared, Goto,
          consem, handle
    <2> QED BY <2>1, ReadFrame
  <1>35. ASSUME NEW p \in Readers, ResetRead(p)
       PROVE  ReadStep
    <2>1. ReadSame
      BY <1>35, ProcsAssumption
      DEF ReadSame, HoldsRead, HoldsSlot, TypeOK, HandleType, LocalType,
          Control, RLabels, SlotLabels, IsReader, Procs, ResetRead,
          IdleReader, consem
    <2> QED BY <2>1, ReadFrame
  <1>36. ASSUME NEW p \in Readers, UnlockRead(p)
       PROVE  ReadStep
    <2>0. iread[p] \in Slots /\ -1 \notin Slots
      BY <1>36 DEF UnlockRead, IdleReader, Control, Slots
    <2>1. ReadSame
      BY <1>36, <2>0, ProcsAssumption
      DEF ReadSame, HoldsRead, HoldsSlot, TypeOK, HandleType, LocalType,
          Control, RLabels, SlotLabels, IsReader, Procs, UnlockRead, Goto,
          IdleReader, handle
    <2> QED BY <2>1, ReadFrame
  <1>37. ASSUME NEW p \in Readers, LockReadOrder(p)
       PROVE  ReadStep
    <2>1. ReadSame
      BY <1>37, ProcsAssumption
      DEF ReadSame, HoldsRead, HoldsSlot, TypeOK, HandleType, LocalType,
          Control, RLabels, SlotLabels, IsReader, Procs, LockReadOrder, Goto,
          consem, handle
    <2> QED BY <2>1, ReadFrame
  <1>38. ASSUME NEW p \in Readers, LockReadTry(p)
       PROVE  ReadStep
    <2>0. order[p][i[p]] \in Slots /\ -1 \notin Slots
      BY <1>38, SizesAssumption DEF LockReadTry, TypeOK, LocalType, Procs, Slots
    <2>1. ReadSame
      BY <1>38, <2>0, ProcsAssumption
      DEF ReadSame, HoldsRead, HoldsSlot, TypeOK, HandleType, LocalType,
          Control, RLabels, SlotLabels, IsReader, Procs, LockReadTry, Goto
    <2> QED BY <2>1, ReadFrame
  <1>39. ASSUME NEW p \in Readers, LockReadSkip(p)
       PROVE  ReadStep
    <2>1. ReadSame
      BY <1>39, ProcsAssumption
      DEF ReadSame, HoldsRead, HoldsSlot, TypeOK, HandleType, LocalType,
          Control, RLabels, SlotLabels, IsReader, Procs, LockReadSkip, consem,
          handle
    <2> QED BY <2>1, ReadFrame
  <1>40. ASSUME NEW p \in Readers, LockReadFail(p)
       PROVE  ReadStep
    <2>1. ReadSame
      BY <1>40, ProcsAssumption
      DEF ReadSame, HoldsRead, HoldsSlot, TypeOK, HandleType, LocalType,
          Control, RLabels, SlotLabels, IsReader, Procs, LockReadFail, Goto,
          consem, handle
    <2> QED BY <2>1, ReadFrame
  <1>41. ASSUME NEW p \in Readers, LockReadState(p)
       PROVE  ReadStep
    <2>1. ReadSame
      BY <1>41, ProcsAssumption
      DEF ReadSame, HoldsRead, HoldsSlot, TypeOK, HandleType, LocalType,
          Control, RLabels, SlotLabels, IsReader, Procs, LockReadState, Goto,
          consem
    <2> QED BY <2>1, ReadFrame
  <1>42. ASSUME NEW p \in Readers, UnlockReadRole(p)
       PROVE  ReadStep
    <2>1. p \in Admitted
      BY <1>42 DEF Admitted, HoldsRead, UnlockReadRole
    <2>2. \A q \in Readers : HoldsRead(q)' <=> q # p /\ HoldsRead(q)
      BY <1>42
      DEF HoldsRead, HoldsSlot, UnlockReadRole, Goto, handle, TypeOK, LocalType,
          Procs
    <2>3. Admitted' = Admitted \ {p}
      BY <2>2 DEF Admitted
    <2>4. READ' = READ + 1
      BY <1>42 DEF UnlockReadRole
    <2> QED BY <2>1, <2>3, <2>4 DEF ReadStep
  <1>43. ASSUME NEW p \in Readers, UnlockReadState(p)
       PROVE  ReadStep
    <2>1. ReadSame
      BY <1>43, ProcsAssumption
      DEF ReadSame, HoldsRead, HoldsSlot, TypeOK, HandleType, LocalType,
          Control, RLabels, SlotLabels, IsReader, Procs, UnlockReadState,
          Goto, consem
    <2> QED BY <2>1, ReadFrame
  <1>44. ASSUME NEW p \in Readers, SodInc(p)
       PROVE  ReadStep
    <2>1. ReadSame
      BY <1>44, ProcsAssumption
      DEF ReadSame, HoldsRead, HoldsSlot, TypeOK, HandleType, LocalType,
          Control, RLabels, SlotLabels, IsReader, Procs, SodInc, Goto, consem
    <2> QED BY <2>1, ReadFrame
  <1>45. ASSUME NEW p \in Readers, ReadBytes(p)
       PROVE  ReadStep
    <2>1. ReadSame
      BY <1>45, ProcsAssumption
      DEF ReadSame, HoldsRead, HoldsSlot, TypeOK, HandleType, LocalType,
          Control, RLabels, SlotLabels, IsReader, Procs, ReadBytes, Goto,
          consem, handle
    <2> QED BY <2>1, ReadFrame
  <1>46. ASSUME NEW p \in Readers, ClearedNext(p)
       PROVE  ReadStep
    <2>1. ReadSame
      BY <1>46, ProcsAssumption
      DEF ReadSame, HoldsRead, HoldsSlot, TypeOK, HandleType, LocalType,
          Control, RLabels, SlotLabels, IsReader, Procs, ClearedNext, Goto,
          consem, handle
    <2> QED BY <2>1, ReadFrame
  <1>47. ASSUME NEW p \in Readers, ClearedEod(p)
       PROVE  ReadStep
    <2>1. ReadSame
      BY <1>47, ProcsAssumption
      DEF ReadSame, HoldsRead, HoldsSlot, TypeOK, HandleType, LocalType,
          Control, RLabels, SlotLabels, IsReader, Procs, ClearedEod, Goto,
          consem
    <2> QED BY <2>1, ReadFrame
  <1>48. ASSUME NEW p \in Readers, ReaderCall(p) \/ ReaderStep(p) \/ ReaderLeaves(p)
       PROVE  ReadStep
    BY <1>48, <1>32, <1>33, <1>34, <1>35, <1>36, <1>37, <1>38, <1>39, <1>40,
        <1>41, <1>42, <1>43, <1>44, <1>45, <1>46, <1>47 DEF ReaderCall,
        ReaderStep, ReaderLeaves
  <1>49. CASE UNCHANGED vars
    BY <1>49, ReadFrame
    DEF ReadSame, HoldsRead, HoldsSlot, vars, consem, handle
  <1> QED BY <1>13, <1>31, <1>48, <1>49 DEF Next, Rest, ZeroPoll

\* The processes that were admitted are finitely many.
LEMMA AdmittedFinite == IsFiniteSet(Admitted) /\ Cardinality(Admitted) \in Nat
  <1>1. Admitted \in SUBSET Readers
    BY DEF Admitted
  <1>2. IsFiniteSet(Admitted)
    BY <1>1, CrashAssumption, FS_Subset
  <1> QED BY <1>2, FS_CardinalityType

\* Every step of the crash specification keeps the account of READ.
LEMMA CrashRolesNext ==
    ASSUME TypeOK, Control, UndoType, RolesKept, [CrashNext]_cvars
    PROVE  RolesKept'
  <1>0. READ \in Nat /\ NREADERS \in Nat
    BY SizesAssumption DEF TypeOK, SemType
  <1>1. CASE LibraryStep
    <2>1. ReadStep
      BY <1>1, LibraryIsNext, ReadNext
    <2>2. undo' = undo
      BY <1>1 DEF LibraryStep
    <2>3. CASE READ' = READ /\ Admitted' = Admitted
      BY <2>2, <2>3 DEF RolesKept
    <2>4. ASSUME NEW p \in Readers \ Admitted, Admitted' = Admitted \cup {p},
                 READ' = READ - 1
          PROVE  RolesKept'
      <3>1. Cardinality(Admitted') = Cardinality(Admitted) + 1
        BY <2>4, AdmittedFinite, FS_AddElement
      <3> QED BY <1>0, <2>2, <2>4, <3>1, AdmittedFinite DEF RolesKept, UndoType
    <2>5. ASSUME NEW p \in Admitted, Admitted' = Admitted \ {p}, READ' = READ + 1
          PROVE  RolesKept'
      <3>1. Cardinality(Admitted') = Cardinality(Admitted) - 1
        BY <2>5, AdmittedFinite, FS_RemoveElement
      <3> QED BY <1>0, <2>2, <2>5, <3>1, AdmittedFinite DEF RolesKept, UndoType
    <2> QED BY <2>1, <2>3, <2>4, <2>5 DEF ReadStep
  <1>2. ASSUME NEW p \in Procs, Crash(p) PROVE RolesKept'
    <2>1. \A q \in Readers : HoldsRead(q)' <=> q # p /\ HoldsRead(q)
      <3>1. ASSUME NEW q \in Readers
            PROVE  /\ pc'[q] = IF q = p THEN "idle" ELSE pc[q]
                   /\ iread'[q] = IF q = p THEN -1 ELSE iread[q]
        BY <1>2 DEF TypeOK, HandleType, LocalType, Crash, FreshHandle, Goto, Procs
      <3> QED BY <3>1 DEF HoldsRead, HoldsSlot
    <2>2. Admitted' = Admitted \ {p}
      BY <2>1 DEF Admitted
    <2>3. READ' = READ
      BY <1>2 DEF Crash, Undo
    <2>4. CASE p \in Admitted
      <3>1. Cardinality(Admitted') = Cardinality(Admitted) - 1
        BY <2>2, <2>4, AdmittedFinite, FS_RemoveElement
      <3>2. undo' = undo + 1
        BY <1>2, <2>4 DEF Crash, Undo, Admitted
      <3> QED BY <1>0, <2>3, <3>1, <3>2, AdmittedFinite DEF RolesKept, UndoType
    <2>5. CASE p \notin Admitted
      <3>1. Admitted' = Admitted
        BY <2>2, <2>5
      <3>2. undo' = undo
        BY <1>2, <2>5 DEF Crash, Undo, Admitted
      <3> QED BY <2>3, <3>1, <3>2 DEF RolesKept
    <2> QED BY <2>4, <2>5
  <1>3. CASE UndoRead
    <2>1. Admitted' = Admitted
      BY <1>3 DEF UndoRead, Admitted, HoldsRead, HoldsSlot, handle
    <2>2. undo' = undo - 1 /\ READ' = READ + 1
      BY <1>3 DEF UndoRead
    <2> QED BY <1>0, <2>1, <2>2, AdmittedFinite DEF RolesKept, UndoType
  <1>4. CASE HardReset
    <2>1. Admitted' = Admitted
      BY <1>4 DEF HardReset, Admitted, HoldsRead, HoldsSlot, handle
    <2>2. undo' = undo /\ READ' = READ
      BY <1>4 DEF HardReset, consem
    <2> QED BY <2>1, <2>2 DEF RolesKept
  <1>5. CASE UNCHANGED cvars
    <2>1. undo' = undo /\ READ' = READ /\ pc' = pc /\ iread' = iread
      BY <1>5 DEF cvars, vars, consem, handle
    <2>2. Admitted' = Admitted
      BY <2>1 DEF Admitted, HoldsRead, HoldsSlot
    <2> QED BY <2>1, <2>2 DEF RolesKept
  <1> QED BY <1>1, <1>2, <1>3, <1>4, <1>5 DEF CrashNext

\* No reader's role is lost or multiplied by crashes: with SEM_UNDO the processes
\* that were admitted, the undo that is still to come and the free units of READ
\* always add up to n_readers.
THEOREM CrashRolesKept == CrashSpec => []RolesKept
  <1>1. CrashInit => RolesKept
    <2> SUFFICES ASSUME CrashInit PROVE RolesKept
      OBVIOUS
    <2>1. Admitted = {}
      BY DEF CrashInit, Init, Admitted, HoldsRead, HoldsSlot, Procs
    <2>2. READ = NREADERS /\ undo = 0
      BY DEF CrashInit, Init
    <2>3. Cardinality(Admitted) = 0
      BY <2>1, FS_EmptySet
    <2> QED BY <2>2, <2>3, SizesAssumption DEF RolesKept
  <1>2. TypeOK /\ Control /\ UndoType /\ RolesKept /\ [CrashNext]_cvars => RolesKept'
    BY CrashRolesNext
  <1>3. TypeOK /\ Control /\ UndoType /\ [CrashNext]_cvars
        => TypeOK' /\ Control' /\ UndoType'
    BY CrashTypeNext
  <1> QED BY <1>1, <1>2, <1>3, CrashTypeInit, PTL DEF CrashSpec

-----------------------------------------------------------------------------
(* ipcbuf_lock_read when nobody dies and no reader gives its role up: the  *)
(* search for a slot.                                                      *)

\* Who looks for a slot goes through all of them, each once, and those it has been
\* turned away from are still taken; nobody has failed.
Scanning ==
    \A p \in Readers :
        /\ pc[p] # "failed"
        /\ pc[p] # "rtry" => i[p] = 0
        /\ pc[p] = "rtry" =>
              /\ \A j, k \in Slots : order[p][j] = order[p][k] => j = k
              /\ \A j \in Slots : j < i[p] => READER_CONN[order[p][j]] = 0

\* A step that frees no slot and moves nobody's search.
ScanSame ==
    /\ READER_CONN' = READER_CONN
    /\ \A q \in Readers :
          /\ i'[q] = i[q] /\ order'[q] = order[q]
          /\ pc'[q] # pc[q] => pc[q] # "rtry" /\ pc'[q] \notin {"rtry", "failed"}

\* Such a step keeps every search.
LEMMA ScanFrame ==
    ASSUME Scanning, ScanSame
    PROVE  Scanning'
  BY DEF Scanning, ScanSame

\* Each unit of READ is free or with a process that was admitted.
ReadUnits == READ + Cardinality(Admitted) = NREADERS

\* Nobody is turned away from every slot: they would all be with others that were
\* admitted, one more than READ admits.
LEMMA SomeSlotFree ==
    ASSUME TypeOK, SlotInv, ReadUnits, Scanning,
           NEW p \in Readers, pc[p] = "rtry", i[p] = NREADERS
    PROVE  FALSE
  <1> DEFINE holder == [j \in Slots |-> CHOOSE q \in Readers : Holds(q, order[p][j])]
  <1>1. NREADERS \in Nat \ {0} /\ READ \in Nat /\ order[p] \in [Slots -> Slots]
    BY SizesAssumption DEF TypeOK, SemType, LocalType, Procs
  <1>2. ASSUME NEW j \in Slots
        PROVE  holder[j] \in Readers /\ Holds(holder[j], order[p][j])
    <2>1. order[p][j] \in Slots
      BY <1>1
    <2>2. READER_CONN[order[p][j]] = 0
      BY <1>1 DEF Scanning, Slots
    <2>3. \E q \in Readers : Holds(q, order[p][j])
      BY <2>1, <2>2 DEF SlotInv, SlotToken
    <2> QED BY <2>3
  <1>3. ASSUME NEW j \in Slots
        PROVE  holder[j] \in Admitted \ {p}
    <2>1. iread[p] = -1
      BY DEF SlotInv, Seeking
    <2>2. holder[j] \in Readers /\ HoldsSlot(holder[j])
      BY <1>2 DEF Holds
    <2>3. holder[j] # p
      BY <2>1, <2>2 DEF HoldsSlot
    <2> QED BY <2>2, <2>3 DEF Admitted, HoldsRead
  <1>4. ASSUME NEW j \in Slots, NEW k \in Slots, holder[j] = holder[k]
        PROVE  j = k
    <2>1. order[p][j] = order[p][k]
      BY <1>2, <1>4 DEF Holds
    <2> QED BY <2>1 DEF Scanning
  <1>5. holder \in Injection(Slots, Admitted \ {p})
    BY <1>3, <1>4 DEF Injection, IsInjective
  <1>6. p \in Admitted
    BY DEF Admitted, HoldsRead
  <1>7. Cardinality(Admitted \ {p}) = Cardinality(Admitted) - 1 /\ IsFiniteSet(Admitted \ {p})
    BY SMTT(30), <1>6, AdmittedFinite, FS_RemoveElement
  <1>8. Cardinality(Slots) = NREADERS
    BY <1>1, FS_Interval DEF Slots
  <1>9. Cardinality(Slots) <= Cardinality(Admitted \ {p})
    BY <1>5, <1>7, FS_Injection
  <1> QED BY <1>1, <1>7, <1>8, <1>9, AdmittedFinite DEF ReadUnits

\* Every step of the library keeps every search, if no reader gives its slot up.
LEMMA ScanNext ==
    ASSUME TypeOK, Control, SlotInv, ReadUnits, Scanning, "unlock" \notin Uses, [Next]_vars
    PROVE  Scanning'
  <1>0. /\ pc \in [Procs -> Labels] /\ i \in [Procs -> 0..NREADERS]
        /\ \A q \in Readers : q \in Procs
        /\ \A p \in Writers, q \in Readers : p # q
    BY ProcsAssumption DEF TypeOK, LocalType, Procs
  <1>1. ASSUME NEW p \in Writers, LockWrite(p)
       PROVE  Scanning'
    <2>1. ScanSame
      BY <1>0, <1>1 DEF ScanSame, LockWrite, Goto, Advance, Rewind, consem
    <2> QED BY <2>1, ScanFrame
  <1>2. ASSUME NEW p \in Writers, UnlockWrite(p)
       PROVE  Scanning'
    <2>1. ScanSame
      BY <1>0, <1>2 DEF ScanSame, UnlockWrite, Goto, Advance, Rewind, consem
    <2> QED BY <2>1, ScanFrame
  <1>3. ASSUME NEW p \in Writers, RelockWrite(p)
       PROVE  Scanning'
    <2>1. ScanSame
      BY <1>0, <1>3 DEF ScanSame, RelockWrite, Goto, Advance, Rewind, consem
    <2> QED BY <2>1, ScanFrame
  <1>4. ASSUME NEW p \in Writers, EnableEod(p)
       PROVE  Scanning'
    <2>1. ScanSame
      BY <1>0, <1>4 DEF ScanSame, EnableEod, Goto, Advance, Rewind, consem
    <2> QED BY <2>1, ScanFrame
  <1>5. ASSUME NEW p \in Writers, DisableSod(p)
       PROVE  Scanning'
    <2>1. ScanSame
      BY <1>0, <1>5 DEF ScanSame, DisableSod, Goto, Advance, Rewind, consem
    <2> QED BY <2>1, ScanFrame
  <1>6. ASSUME NEW p \in Writers, SetSoclockBuf(p)
       PROVE  Scanning'
    <2>1. ScanSame
      BY <1>0, <1>6 DEF ScanSame, SetSoclockBuf, Goto, Advance, Rewind, consem
    <2> QED BY <2>1, ScanFrame
  <1>7. ASSUME NEW p \in Writers, NEW b \in 0..MaxBlock, NEW y \in 0..BUFSZ,
             EnableSod(p, b, y)
       PROVE  Scanning'
    <2>1. ScanSame
      BY <1>0, <1>7 DEF ScanSame, EnableSod, CallEnableSod, Goto, Advance, Rewind, consem
    <2> QED BY <2>1, ScanFrame
  <1>8. ASSUME NEW p \in Writers, GetNextWrite(p)
       PROVE  Scanning'
    <2>1. ScanSame
      BY <1>0, <1>8 DEF ScanSame, GetNextWrite, CallEnableSod, Goto, Advance, Rewind, consem
    <2> QED BY <2>1, ScanFrame
  <1>9. ASSUME NEW p \in Writers, ZeroNextWrite(p)
       PROVE  Scanning'
    <2>1. ScanSame
      BY <1>0, <1>9 DEF ScanSame, ZeroNextWrite, Goto, Advance, Rewind, consem
    <2> QED BY <2>1, ScanFrame
  <1>10. ASSUME NEW p \in Writers, MarkFilledClocked(p)
       PROVE  Scanning'
    <2>1. ScanSame
      BY <1>0, <1>10 DEF ScanSame, MarkFilledClocked, Goto, Advance, Rewind, consem
    <2> QED BY <2>1, ScanFrame
  <1>11. ASSUME NEW p \in Writers, NEW n \in 0..BUFSZ, MarkFilled(p, n)
       PROVE  Scanning'
    <2>1. ScanSame
      BY <1>0, <1>11 DEF ScanSame, MarkFilled, Goto, Advance, Rewind, consem
    <2> QED BY <2>1, ScanFrame
  <1>12. ASSUME NEW p \in Writers, "reset" \in Uses, Reset(p)
       PROVE  Scanning'
    <2>1. ScanSame
      BY <1>0, <1>12 DEF ScanSame, Reset, Goto, Advance, Rewind, consem
    <2> QED BY <2>1, ScanFrame
  <1>13. ASSUME NEW p \in Writers, WriterCall(p)
       PROVE  Scanning'
    BY <1>13, <1>1, <1>2, <1>3, <1>4, <1>5, <1>6, <1>7, <1>8, <1>9, <1>10,
        <1>11, <1>12 DEF WriterCall
  <1>14. ASSUME NEW p \in Writers, LockWriteState(p)
       PROVE  Scanning'
    <2>1. ScanSame
      BY <1>0, <1>14 DEF ScanSame, LockWriteState, Goto, Advance, Rewind, consem
    <2> QED BY <2>1, ScanFrame
  <1>15. ASSUME NEW p \in Writers, UnlockWriteState(p)
       PROVE  Scanning'
    <2>1. ScanSame
      BY <1>0, <1>15 DEF ScanSame, UnlockWriteState, Goto, Advance, Rewind, consem
    <2> QED BY <2>1, ScanFrame
  <1>16. ASSUME NEW p \in Writers, SodAck(p)
       PROVE  Scanning'
    <2>1. ScanSame
      BY <1>0, <1>16 DEF ScanSame, SodAck, Goto, Advance, Rewind, consem
    <2> QED BY <2>1, ScanFrame
  <1>17. ASSUME NEW p \in Writers, SodSet(p)
       PROVE  Scanning'
    <2>1. ScanSame
      BY <1>0, <1>17 DEF ScanSame, SodSet, Goto, Advance, Rewind, consem
    <2> QED BY <2>1, ScanFrame
  <1>18. ASSUME NEW p \in Writers, SodFull(p)
       PROVE  Scanning'
    <2>1. ScanSame
      BY <1>0, <1>18 DEF ScanSame, SodFull, Goto, Advance, Rewind, consem
    <2> QED BY <2>1, ScanFrame
  <1>19. ASSUME NEW p \in Writers, SodDone(p)
       PROVE  Scanning'
    <2>1. ScanSame
      BY <1>0, <1>19 DEF ScanSame, SodDone, Goto, Advance, Rewind, consem
    <2> QED BY <2>1, ScanFrame
  <1>20. ASSUME NEW p \in Writers, GetClear(p)
       PROVE  Scanning'
    <2>1. ScanSame
      BY <1>0, <1>20 DEF ScanSame, GetClear, TakeClear, Goto, Advance, Rewind, consem
    <2> QED BY <2>1, ScanFrame
  <1>21. ASSUME NEW p \in Writers, GetDone(p)
       PROVE  Scanning'
    <2>1. ScanSame
      BY <1>0, <1>21 DEF ScanSame, GetDone, Goto, Advance, Rewind, consem
    <2> QED BY <2>1, ScanFrame
  <1>50. ASSUME NEW p \in Writers, ZeroDone(p)
       PROVE  Scanning'
    <2>1. ScanSame
      BY <1>0, <1>50 DEF ScanSame, ZeroDone, Goto, Advance, Rewind, consem
    <2> QED BY <2>1, ScanFrame
  <1>22. ASSUME NEW p \in Writers, EodAck(p)
       PROVE  Scanning'
    <2>1. ScanSame
      BY <1>0, <1>22 DEF ScanSame, EodAck, Goto, Advance, Rewind, consem
    <2> QED BY <2>1, ScanFrame
  <1>23. ASSUME NEW p \in Writers, EodSet(p)
       PROVE  Scanning'
    <2>1. ScanSame
      BY <1>0, <1>23 DEF ScanSame, EodSet, Goto, Advance, Rewind, consem
    <2> QED BY <2>1, ScanFrame
  <1>24. ASSUME NEW p \in Writers, Publish(p)
       PROVE  Scanning'
    <2>1. ScanSame
      BY <1>0, <1>24 DEF ScanSame, Publish, Goto, Advance, Rewind, consem
    <2> QED BY <2>1, ScanFrame
  <1>25. ASSUME NEW p \in Writers, MarkFull(p)
       PROVE  Scanning'
    <2>1. ScanSame
      BY <1>0, <1>25 DEF ScanSame, MarkFull, Goto, Advance, Rewind, consem
    <2> QED BY <2>1, ScanFrame
  <1>26. ASSUME NEW p \in Writers, ResetClear(p)
       PROVE  Scanning'
    <2>1. ScanSame
      BY <1>0, <1>26 DEF ScanSame, ResetClear, TakeClear, Goto, Advance, Rewind, consem
    <2> QED BY <2>1, ScanFrame
  <1>27. ASSUME NEW p \in Writers, ResetCleared(p)
       PROVE  Scanning'
    <2>1. ScanSame
      BY <1>0, <1>27 DEF ScanSame, ResetCleared, Goto, Advance, Rewind, consem
    <2> QED BY <2>1, ScanFrame
  <1>28. ASSUME NEW p \in Writers, ResetSod(p)
       PROVE  Scanning'
    <2>1. ScanSame
      BY <1>0, <1>28 DEF ScanSame, ResetSod, Goto, Advance, Rewind, consem
    <2> QED BY <2>1, ScanFrame
  <1>29. ASSUME NEW p \in Writers, ResetEod(p)
       PROVE  Scanning'
    <2>1. ScanSame
      BY <1>0, <1>29 DEF ScanSame, ResetEod, Goto, Advance, Rewind, consem
    <2> QED BY <2>1, ScanFrame
  <1>30. ASSUME NEW p \in Writers, ResetDone(p)
       PROVE  Scanning'
    <2>1. ScanSame
      BY <1>0, <1>30 DEF ScanSame, ResetDone, Goto, Advance, Rewind, consem
    <2> QED BY <2>1, ScanFrame
  <1>31. ASSUME NEW p \in Writers, WriterStep(p)
       PROVE  Scanning'
    BY <1>31, <1>14, <1>15, <1>16, <1>17, <1>18, <1>19, <1>20, <1>21, <1>50, <1>22,
        <1>23, <1>24, <1>25, <1>26, <1>27, <1>28, <1>29, <1>30 DEF WriterStep
  <1>32. ASSUME NEW p \in Readers, LockRead(p)
       PROVE  Scanning'
    <2>1. ScanSame
      BY <1>0, <1>32 DEF ScanSame, LockRead, Goto, Advance, Rewind, consem
    <2> QED BY <2>1, ScanFrame
  <1>33. ASSUME NEW p \in Readers, GetNextRead(p)
       PROVE  Scanning'
    <2>1. ScanSame
      BY <1>0, <1>33 DEF ScanSame, GetNextRead, IdleReader, Goto, Advance, Rewind, consem
    <2> QED BY <2>1, ScanFrame
  <1>34. ASSUME NEW p \in Readers, MarkCleared(p)
       PROVE  Scanning'
    <2>1. ScanSame
      BY <1>0, <1>34 DEF ScanSame, MarkCleared, Goto, Advance, Rewind, consem
    <2> QED BY <2>1, ScanFrame
  <1>35. ASSUME NEW p \in Readers, ResetRead(p)
       PROVE  Scanning'
    <2>1. ScanSame
      BY <1>0, <1>35 DEF ScanSame, ResetRead, Goto, Advance, Rewind, consem
    <2> QED BY <2>1, ScanFrame
  <1>37. ASSUME NEW p \in Readers, LockReadOrder(p)
       PROVE  Scanning'
    <2>1. \A j, k \in Slots : order'[p][j] = order'[p][k] => j = k
      <3>1. PICK o \in [Slots -> Slots] :
                /\ \A j, k \in Slots : j < k =>
                      \/ r_bufs[o[j]] < r_bufs[o[k]]
                      \/ r_bufs[o[j]] = r_bufs[o[k]] /\ o[j] < o[k]
                /\ order' = [order EXCEPT ![p] = o]
        BY <1>37 DEF LockReadOrder
      <3>2. order'[p] = o
        BY <3>1 DEF TypeOK, LocalType, Procs
      <3> SUFFICES ASSUME NEW j \in Slots, NEW k \in Slots, j < k
                   PROVE  o[j] # o[k]
        BY <3>2 DEF Slots
      <3>3. o[j] \in Slots /\ o[k] \in Slots
        BY <3>1
      <3>4. r_bufs[o[j]] \in Nat /\ r_bufs[o[k]] \in Nat /\ o[j] \in Int /\ o[k] \in Int
        BY <3>3 DEF TypeOK, ReadersType, Slots
      <3> QED BY <3>1, <3>4
    <2>2. /\ i[p] = 0 /\ i' = i /\ READER_CONN' = READER_CONN
          /\ pc'[p] = "rtry"
      BY <1>37 DEF LockReadOrder, Scanning, Goto, consem, TypeOK, LocalType, Procs
    <2>3. \A j \in Slots : ~(j < 0)
      BY DEF Slots
    <2>4. \A q \in Readers : q # p => order'[q] = order[q] /\ pc'[q] = pc[q]
      BY <1>37 DEF LockReadOrder, Goto, TypeOK, LocalType, Procs
    <2> QED BY <2>1, <2>2, <2>3, <2>4 DEF Scanning
  <1>38. ASSUME NEW p \in Readers, LockReadTry(p)
       PROVE  Scanning'
    <2>1. \A s \in Slots : READER_CONN[s] = 0 => READER_CONN'[s] = 0
      <3>1. order[p][i[p]] \in Slots
        BY <1>38, SlotIndex DEF LockReadTry, TypeOK, LocalType, Procs
      <3> QED BY <1>38, <3>1 DEF LockReadTry, TypeOK, SemType
    <2>2. pc'[p] = "rlock" /\ i'[p] = 0
      BY <1>38 DEF LockReadTry, Goto, Rewind, TypeOK, LocalType, Procs
    <2>3. \A q \in Readers : q # p =>
              order'[q] = order[q] /\ pc'[q] = pc[q] /\ i'[q] = i[q]
      BY <1>38 DEF LockReadTry, Goto, Rewind, TypeOK, LocalType, Procs
    <2>4. \A q \in Readers, j \in Slots : order[q][j] \in Slots
      BY DEF TypeOK, LocalType, Procs
    <2> QED BY <2>1, <2>2, <2>3, <2>4 DEF Scanning
  <1>39. ASSUME NEW p \in Readers, LockReadSkip(p)
       PROVE  Scanning'
    <2>1. /\ pc[p] = "rtry" /\ pc' = pc /\ order' = order /\ READER_CONN' = READER_CONN
          /\ READER_CONN[order[p][i[p]]] = 0
      BY <1>39 DEF LockReadSkip, consem
    <2>2. i[p] \in Nat /\ i'[p] = i[p] + 1 /\ \A q \in Readers : q # p => i'[q] = i[q]
      BY <1>39, SizesAssumption DEF LockReadSkip, Advance, TypeOK, LocalType, Procs
    <2>3. \A j \in Slots : j < i[p] + 1 => j < i[p] \/ j = i[p]
      BY <2>2 DEF Slots
    <2> QED BY <2>1, <2>2, <2>3 DEF Scanning
  <1>40. ASSUME NEW p \in Readers, LockReadFail(p)
       PROVE  Scanning'
    BY <1>40, SomeSlotFree DEF LockReadFail
  <1>41. ASSUME NEW p \in Readers, LockReadState(p)
       PROVE  Scanning'
    <2>1. ScanSame
      BY <1>0, <1>41 DEF ScanSame, LockReadState, Goto, Advance, Rewind, consem
    <2> QED BY <2>1, ScanFrame
  <1>42. ASSUME NEW p \in Readers, UnlockReadRole(p)
       PROVE  Scanning'
    <2>1. ScanSame
      BY <1>0, <1>42 DEF ScanSame, UnlockReadRole, Goto, Advance, Rewind, consem
    <2> QED BY <2>1, ScanFrame
  <1>43. ASSUME NEW p \in Readers, UnlockReadState(p)
       PROVE  Scanning'
    <2>1. ScanSame
      BY <1>0, <1>43 DEF ScanSame, UnlockReadState, Goto, Advance, Rewind, consem
    <2> QED BY <2>1, ScanFrame
  <1>44. ASSUME NEW p \in Readers, SodInc(p)
       PROVE  Scanning'
    <2>1. ScanSame
      BY <1>0, <1>44 DEF ScanSame, SodInc, Goto, Advance, Rewind, consem
    <2> QED BY <2>1, ScanFrame
  <1>45. ASSUME NEW p \in Readers, ReadBytes(p)
       PROVE  Scanning'
    <2>1. ScanSame
      BY <1>0, <1>45 DEF ScanSame, ReadBytes, Goto, Advance, Rewind, consem
    <2> QED BY <2>1, ScanFrame
  <1>46. ASSUME NEW p \in Readers, ClearedNext(p)
       PROVE  Scanning'
    <2>1. ScanSame
      BY <1>0, <1>46 DEF ScanSame, ClearedNext, Goto, Advance, Rewind, consem
    <2> QED BY <2>1, ScanFrame
  <1>47. ASSUME NEW p \in Readers, ClearedEod(p)
       PROVE  Scanning'
    <2>1. ScanSame
      BY <1>0, <1>47 DEF ScanSame, ClearedEod, Goto, Advance, Rewind, consem
    <2> QED BY <2>1, ScanFrame
  <1>48. ASSUME NEW p \in Readers, ReaderCall(p) \/ ReaderStep(p) \/ ReaderLeaves(p)
       PROVE  Scanning'
    BY <1>48, <1>32, <1>33, <1>34, <1>35, <1>37, <1>38, <1>39, <1>40,
        <1>41, <1>42, <1>43, <1>44, <1>45, <1>46, <1>47 DEF ReaderCall,
        ReaderStep, ReaderLeaves
  <1>49. CASE UNCHANGED vars
    <2>1. ScanSame
      BY <1>49 DEF ScanSame, vars, consem
    <2> QED BY <2>1, ScanFrame
  <1> QED BY <1>13, <1>31, <1>48, <1>49 DEF Next, Rest, ZeroPoll

\* ... and the account of READ, which moves as in CrashRolesNext.
LEMMA ReadUnitsNext ==
    ASSUME TypeOK, Control, ReadUnits, [Next]_vars
    PROVE  ReadUnits'
  <1>0. READ \in Nat /\ NREADERS \in Nat
    BY SizesAssumption DEF TypeOK, SemType
  <1>1. ReadStep
    BY ReadNext
  <1>2. CASE READ' = READ /\ Admitted' = Admitted
    BY <1>2 DEF ReadUnits
  <1>3. ASSUME NEW p \in Readers \ Admitted, Admitted' = Admitted \cup {p},
               READ' = READ - 1
        PROVE  ReadUnits'
    <2>1. Cardinality(Admitted') = Cardinality(Admitted) + 1
      BY <1>3, AdmittedFinite, FS_AddElement
    <2> QED BY <1>0, <1>3, <2>1, AdmittedFinite DEF ReadUnits
  <1>4. ASSUME NEW p \in Admitted, Admitted' = Admitted \ {p}, READ' = READ + 1
        PROVE  ReadUnits'
    <2>1. Cardinality(Admitted') = Cardinality(Admitted) - 1
      BY <1>4, AdmittedFinite, FS_RemoveElement
    <2> QED BY <1>0, <1>4, <2>1, AdmittedFinite DEF ReadUnits
  <1> QED BY <1>1, <1>2, <1>3, <1>4 DEF ReadStep

\* Of any number of processes that call ipcbuf_lock_read at once, those that READ
\* admits each find a slot that is free, whatever the others take meanwhile: "could
\* not find available read index" needs a reader that gives its slot up, or dies,
\* during the search.
THEOREM LockReadFindsSlot ==
    ASSUME "unlock" \notin Uses
    PROVE  Spec => []LockReadSucceeds
  <1>1. Init => SlotInv /\ ReadUnits /\ Scanning
    <2> SUFFICES ASSUME Init PROVE SlotInv /\ ReadUnits /\ Scanning
      OBVIOUS
    <2>1. SlotInv
      BY DEF Init, SlotInv, SlotToken, Seeking, Holds, HoldsSlot, Procs
    <2>2. Admitted = {} /\ READ = NREADERS
      BY DEF Init, Admitted, HoldsRead, HoldsSlot, Procs
    <2>3. ReadUnits
      BY <2>2, FS_EmptySet, SizesAssumption DEF ReadUnits
    <2>4. Scanning
      BY DEF Init, Scanning, Procs
    <2> QED BY <2>1, <2>3, <2>4
  <1>2. TypeOK /\ Control /\ SlotInv /\ ReadUnits /\ Scanning /\ [Next]_vars
        => SlotInv' /\ ReadUnits' /\ Scanning'
    BY SlotNext, ReadUnitsNext, ScanNext
  <1>3. Scanning => LockReadSucceeds
    BY DEF Scanning, LockReadSucceeds
  <1> QED BY <1>1, <1>2, <1>3, TypeInit, TypeNext, PTL DEF Spec
=============================================================================
