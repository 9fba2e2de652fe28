------------------------------ MODULE IbProofs ------------------------------
(***************************************************************************)
(* Theorem about dada_dbib and dada_ibdb (Ib): as long as the link holds   *)
(* and the programs agree on where each observation ends, neither leaves a *)
(* transfer with an error.                                                 *)
(*                                                                         *)
(* The two programs take turns.  dada_ibdb asks with one message, to which *)
(* dada_dbib answers with one message, behind the writes of a block if the *)
(* question was an address.  Stage names the turns; in each of them the    *)
(* queues of both sides are known, down to what they hold.                 *)
(***************************************************************************)
EXTENDS Ib, FiniteSetTheorems, SequenceTheorems, TLAPS

\* t[k] is what the first k blocks of observation o hold: less than TRANSFER_SIZE.
Totals(o, t) ==
    /\ t[0] = 0
    /\ \A k \in 1..Len(Obs[o].blocks) : t[k] = t[k - 1] + Obs[o].blocks[k]
    /\ \A k \in 0..Len(Obs[o].blocks) : t[k] < Obs[o].want

\* The instance: sizes, and the blocks of the observations.  Of an observation
\* that holds less than its TRANSFER_SIZE, so do the first blocks: a sum over a
\* sequence is beyond the provers, and that it grows is taken as it is.
Fits ==
    /\ BUFSZ \in Nat \ {0} /\ NBUFS \in Nat \ {0} /\ MaxFails \in Nat
    /\ Obs \in Seq([blocks : Seq(0..BUFSZ), want : Nat, offset : BOOLEAN])
    /\ \A o \in 1..Len(Obs) : Total(o) < Obs[o].want =>
          \E t \in [0..Len(Obs[o].blocks) -> Nat] : Totals(o, t)

-----------------------------------------------------------------------------
(* Types.                                                                  *)

Keys == {"", "READY", "HEADER", "TO_XFER", "ADDRESS", "XFERRED"} \cup Nat
Request == [op : {"send", "write"}, key : Keys, val : Int]
Sc == Seq({"ok", "err"})
Rc == Seq({"sync", "header", "err"})
Sq == Seq(Request)
Rq == Seq({"sync", "header"})
QP == [key : Keys, val : Int, hdr : Int, sc : Sc, rc : Rc, sq : Sq, rq : Rq,
       used : Int, max : Int, err : BOOLEAN]

SPcs == {"off", "init", "connect", "request", "read", "header", "headerSent", "loop",
         "ready", "sizeSent", "address", "blockSent", "close", "endSent", "done", "unlock"}
RPcs == {"off", "listen", "open", "accept", "header", "headerReady", "headerWait", "loop",
         "ready", "size", "addressSent", "data", "close", "closeReady", "closeSize",
         "disconnect", "unlock", "ended"}
SType == [pc : SPcs, o : Nat, blk : Nat, sent : Nat, mem : [1..BUFSZ -> Nat \X Nat]]
RType == [pc : RPcs, want : Nat, got : Int, ending : BOOLEAN, open : BOOLEAN,
          err : BOOLEAN]
RingType == [n : Seq(Int), read : Int, got : Int]

IbType == s \in SType /\ r \in RType /\ qs \in QP /\ qr \in QP /\ ring \in RingType

-----------------------------------------------------------------------------
(* The turns.                                                              *)

\* Where a program waits for the completion of the message it has posted.
SSends == {"headerSent", "sizeSent", "blockSent", "endSent"}
RSends == {"headerReady", "ready", "addressSent", "closeReady"}

\* Where dada_dbib is, by what it waits for: a connection, the question for the
\* header, for a size, for an address; or nothing more.
Unconnected == {"off", "init", "connect"}
AtHeader  == {"request", "read", "header"}
AtBlock   == {"headerSent", "blockSent", "loop", "ready", "close"}
AtAddress == {"sizeSent", "address"}
AtEnd     == {"endSent", "done", "read", "header"} \cup Unconnected

\* Where dada_ibdb is while the question for a header, a size, or with an address
\* is out.
HeaderPcs  == {"headerReady", "headerWait"}
SizePcs    == {"ready", "size", "closeReady", "closeSize"}
AddressPcs == {"addressSent", "data"}

\* All that was posted is carried out, and polled unless the program waits for it.
SQuiet == qs.sq = <<>> /\ qs.sc = IF s.pc \in SSends THEN <<"ok">> ELSE <<>>
RQuiet == qr.sq = <<>> /\ qr.sc = IF r.pc \in RSends THEN <<"ok">> ELSE <<>>

\* One receive for mb is posted, or completed, or there is none.
Awaits(q, mb) == q.rq = <<mb>> /\ q.rc = <<>>
Holds(q, mb)  == q.rq = <<>> /\ q.rc = <<mb>>
Neither(q)    == q.rq = <<>> /\ q.rc = <<>>

\* The buffer that the next message of dada_dbib goes to.
Box == IF r.pc \in {"header", "accept"} \cup HeaderPcs THEN "header" ELSE "sync"

\* The first n blocks are full or empty; those that dada_dbib has answered for.
Whole(n) == \A k \in 1..n : Ob.blocks[k] \in {0, BUFSZ}
AllWhole == Whole(IF s.pc = "blockSent" THEN s.blk + 1 ELSE s.blk)
InLoop == r.pc \in {"loop", "ready", "size"}
Size == Ob.blocks[s.blk + 1]

\* What dada_dbib may be doing before it answers.
Before ==
    \/ r.pc \in HeaderPcs /\ s.pc \in AtHeader
    \/ r.pc \in SizePcs /\ s.pc \in AtBlock /\ r.want = Ob.want /\ (InLoop => AllWhole)
    \/ r.pc \in AddressPcs /\ s.pc \in AtAddress /\ r.want = Ob.want /\ Whole(s.blk)

\* dada_ibdb has no connection, or has not accepted it.
Apart ==
    /\ r.pc \in {"off", "listen", "unlock", "open", "accept"}
    /\ link \in {"none", "req"}
    /\ r.pc \in {"off", "unlock"} => link = "none"
    /\ r.pc \in {"open", "accept"} => link = "req"
    /\ s.pc = "request" => Awaits(qs, "sync") /\ SQuiet
    /\ r.pc = "open" => Neither(qr) /\ RQuiet /\ ~qr.err
    /\ r.pc = "accept" => Awaits(qr, "header") /\ RQuiet /\ ~qr.err

\* dada_ibdb is about to ask.
Between ==
    /\ link = "est" /\ ~qr.err
    /\ RQuiet /\ Awaits(qr, Box) /\ SQuiet /\ Awaits(qs, "sync")
    /\ \/ r.pc = "header" /\ s.pc \in AtHeader
       \/ r.pc = "loop" /\ s.pc \in AtBlock /\ r.want = Ob.want /\ AllWhole
       \/ r.pc = "close" /\ ~r.ending /\ s.pc \in AtBlock /\ r.want = Ob.want

\* The question is posted.
Question(w) ==
    w.op = "send" /\ (r.pc \notin AddressPcs => w.key = "READY" /\ w.val = 0)
Asking ==
    /\ link = "est" /\ ~qr.err
    /\ r.pc \in RSends /\ Len(qr.sq) = 1 /\ Question(qr.sq[1]) /\ qr.sc = <<>>
    /\ Awaits(qr, Box) /\ SQuiet /\ Awaits(qs, "sync")
    /\ Before

\* The question has arrived.
Asked ==
    /\ link = "est" /\ ~qr.err
    /\ RQuiet /\ Awaits(qr, Box) /\ SQuiet /\ Holds(qs, "sync")
    /\ r.pc \notin AddressPcs => qs.key = "READY" /\ qs.val = 0
    /\ Before

\* The answer is posted: w, after writes only.
Closes(sq, w) ==
    /\ Len(sq) > 0 /\ sq[Len(sq)] = w
    /\ \A k \in 1..(Len(sq) - 1) : sq[k].op = "write"
AnswerHeader ==
    /\ r.pc \in HeaderPcs /\ s.pc = "headerSent" /\ Awaits(qs, "sync")
    /\ qs.sq = <<Message("HEADER", s.o)>> /\ s.blk = 0
AnswerSize ==
    /\ r.pc \in SizePcs /\ s.pc = "sizeSent" /\ Awaits(qs, "sync")
    /\ qs.sq = <<Message("TO_XFER", Size)>> /\ r.want = Ob.want /\ (InLoop => Whole(s.blk))
AnswerEnd ==
    /\ r.pc \in SizePcs /\ s.pc = "endSent" /\ Neither(qs)
    /\ qs.sq = <<Message("TO_XFER", 0)>> /\ (InLoop => r.want = 0)
AnswerBlock ==
    /\ r.pc \in AddressPcs /\ s.pc = "blockSent" /\ Awaits(qs, "sync")
    /\ Closes(qs.sq, Message("XFERRED", Size)) /\ r.want = Ob.want /\ Whole(s.blk)
Answering ==
    /\ link = "est" /\ ~qr.err /\ RQuiet /\ Awaits(qr, Box) /\ qs.sc = <<>>
    /\ AnswerHeader \/ AnswerSize \/ AnswerEnd \/ AnswerBlock

\* dada_dbib has sent its last message.
Gone == s.pc \in AtEnd /\ (s.pc \notin Unconnected => SQuiet /\ Neither(qs))

\* The answer has arrived.
GotHeader == r.pc \in HeaderPcs /\ s.pc \in AtBlock \ {"blockSent"} /\ qr.hdr = s.o /\ AllWhole
GotSize ==
    /\ r.pc \in SizePcs /\ s.pc \in AtAddress
    /\ qr.key = "TO_XFER" /\ qr.val = Size /\ r.want = Ob.want /\ (InLoop => Whole(s.blk))
GotBlock ==
    /\ r.pc \in AddressPcs /\ s.pc \in AtBlock
    /\ qr.key = "XFERRED" /\ r.want = Ob.want /\ (AllWhole \/ qr.val < BUFSZ)
GotEnd ==
    /\ link \in {"est", "down"} /\ Gone
    /\ r.pc \in SizePcs /\ qr.key = "TO_XFER" /\ qr.val = 0 /\ (InLoop => r.want = 0)
Answered ==
    /\ RQuiet /\ Holds(qr, Box)
    /\ \/ /\ link = "est" /\ ~qr.err /\ SQuiet /\ Awaits(qs, "sync")
          /\ GotHeader \/ GotSize \/ GotBlock
       \/ GotEnd

\* dada_ibdb has nothing more to ask.
Over ==
    /\ link \in {"est", "down"}
    /\ r.pc = "disconnect" \/ (r.pc = "close" /\ r.ending /\ r.want = 0)
    /\ Neither(qr) /\ RQuiet
    /\ Gone \/ (s.pc \in AtAddress /\ SQuiet /\ Awaits(qs, "sync"))

Stage == Apart \/ Between \/ Asking \/ Asked \/ Answering \/ Answered \/ Over

\* The connection, as the two programs see it.
Connection ==
    /\ link \in {"none", "req", "est", "down"}
    /\ link \in {"none", "down"} <=> s.pc \in Unconnected
    /\ link = "req" => s.pc = "request"
    /\ s.pc = "request" => link \in {"req", "est"}
    /\ s.pc = "connect" => Awaits(qs, "sync") /\ qs.sq = <<>> /\ qs.sc = <<>>

\* The bytes of the first blocks of an observation with a TRANSFER_SIZE.
Upto == [o \in 1..Len(Obs) |->
            CHOOSE t \in [0..Len(Obs[o].blocks) -> Nat] : Totals(o, t)]

\* dada_dbib within its observation, and the room in its send queue.
SenderFits ==
    /\ s.o \in 0..Len(Obs)
    /\ s.pc \notin (Unconnected \cup {"request", "read"}) =>
          /\ s.o > 0 /\ s.blk <= Len(Ob.blocks)
          /\ Ob.want = 0 \/ s.sent = Upto[s.o][s.blk]
    /\ s.pc = "header" => Neither(qs) \/ s.blk = 0
    /\ s.pc = "close" => s.blk = Len(Ob.blocks)
    /\ s.pc \in {"ready", "sizeSent", "address", "blockSent"} =>
          s.blk < Len(Ob.blocks) /\ Size > 0
    /\ qs.max = BUFSZ \div CHUNK + 1
    /\ s.pc = "address" => qs.used = 0

\* Nothing has gone wrong; and the end is not seen before it comes.
Sound ==
    /\ ~qs.err /\ ~r.err /\ s.pc # "unlock"
    /\ r.pc \in HeaderPcs \cup SizePcs \cup AddressPcs \cup {"loop"} => ~r.ending

Inv == IbType /\ Stage /\ Connection /\ SenderFits /\ Sound
-----------------------------------------------------------------------------
(* The operations on a queue pair.                                         *)

LEMMA Empties ==
    /\ <<>> \in Sc /\ <<>> \in Rc /\ <<>> \in Sq /\ <<>> \in Rq
    /\ <<"ok">> \in Sc /\ <<"sync">> \in Rq /\ <<"header">> \in Rq
    /\ <<"sync">> \in Rc /\ <<"header">> \in Rc
  BY DEF Sc, Rc, Sq, Rq

LEMMA OneRequest == ASSUME NEW w \in Request PROVE <<w>> \in Sq /\ Len(<<w>>) = 1
  BY DEF Sq

\* RemoveFirst on the only element.
LEMMA FirstRemoved == ASSUME NEW x PROVE RemoveFirst(<<x>>, x) = <<>>
  <1>1. {i \in 1..Len(<<x>>) : <<x>>[i] = x} = {1}
    OBVIOUS
  <1>2. Min({1}) = 1
    BY DEF Min
  <1>3. SelectInSeq(<<x>>, LAMBDA v : v = x) = 1
    BY <1>1, <1>2 DEF SelectInSeq
  <1>4. \E i \in 1..Len(<<x>>) : <<x>>[i] = x
    OBVIOUS
  <1>5. RemoveFirst(<<x>>, x) = RemoveAt(<<x>>, 1)
    BY <1>3, <1>4 DEF RemoveFirst
  <1>6. RemoveAt(<<x>>, 1) = <<>>
    BY DEF RemoveAt
  <1> QED BY <1>5, <1>6

\* A new queue pair is empty.
LEMMA NewQPIs ==
  ASSUME NEW n \in Int
  PROVE  LET z == NewQP(n) IN
         /\ z \in QP /\ Neither(z) /\ z.sq = <<>> /\ z.sc = <<>>
         /\ z.max = n + 1 /\ z.used = 0 /\ ~z.err
  <1>1. CreateCm \in QP
    BY Empties DEF QP, CreateCm, Keys
  <1>2. CreateVerbs(CreateCm) \in QP
    BY Empties, <1>1 DEF CreateVerbs, QP
  <1>3. CreateVerbs(CreateCm).rc = <<>> /\ CreateVerbs(CreateCm).sc = <<>>
    BY <1>1 DEF CreateVerbs, QP
  <1> DEFINE q == CreateVerbs(CreateCm)
  <1> HIDE DEF q
  <1>4. n + 1 \in Int
    OBVIOUS
  <1>5. CreateQP(q, n) \in QP
    <2> DEFINE q1 == [q EXCEPT !.sq = <<>>, !.rq = <<>>]
               q2 == [q1 EXCEPT !.used = 0]
               q3 == [q2 EXCEPT !.max = n + 1]
    <2>1. q1 \in QP
      BY <1>2, Empties DEF QP, q
    <2> HIDE DEF q1
    <2>2. q2 \in QP
      BY <2>1 DEF QP
    <2> HIDE DEF q2
    <2>3. q3 \in QP
      BY <2>2, <1>4 DEF QP
    <2> HIDE DEF q3
    <2>4. [q3 EXCEPT !.err = FALSE] \in QP
      BY <2>3 DEF QP
    <2> QED BY <2>4 DEF CreateQP, q1, q2, q3
  <1>6. CreateQP(q, n).rc = <<>> /\ CreateQP(q, n).rq = <<>> /\ CreateQP(q, n).sc = <<>>
    BY <1>2, <1>3 DEF QP, CreateQP, q
  <1>7. CreateQP(q, n).sq = <<>> /\ CreateQP(q, n).max = n + 1
    BY <1>2 DEF QP, CreateQP, q
  <1>8. CreateQP(q, n).used = 0 /\ ~CreateQP(q, n).err
    BY <1>2 DEF QP, CreateQP, q
  <1> QED BY <1>5, <1>6, <1>7, <1>8 DEF NewQP, q, Neither

\* dada_ib_post_recv on a queue pair without receives.
LEMMA PostRecvIs ==
  ASSUME NEW q \in QP, ~q.err, Neither(q), NEW mb \in {"sync", "header"}
  PROVE  LET z == PostRecv(q, mb) IN
         /\ z \in QP /\ Awaits(z, mb) /\ z.sq = q.sq /\ z.sc = q.sc
         /\ z.max = q.max /\ z.used = q.used /\ ~z.err /\ z.hdr = q.hdr
  <1>1. Append(<<>>, mb) = <<mb>> /\ <<mb>> \in Rq
    BY Empties
  <1> DEFINE z0 == IF mb = "sync" THEN [q EXCEPT !.key = "", !.val = 0] ELSE q
  <1>2. z0 \in QP
    <2>1. "" \in Keys /\ 0 \in Int
      BY DEF Keys
    <2>2. [q EXCEPT !.key = "", !.val = 0] \in QP
      BY <2>1 DEF QP
    <2> QED BY <2>2
  <1>3. /\ z0.err = q.err /\ z0.rq = <<>> /\ z0.rc = <<>> /\ z0.sq = q.sq /\ z0.sc = q.sc
        /\ z0.max = q.max /\ z0.used = q.used /\ z0.hdr = q.hdr
    BY DEF QP, Neither
  <1> HIDE DEF z0
  <1>4. PostRecv(q, mb) = [z0 EXCEPT !.rq = Append(@, mb)]
    BY DEF PostRecv, z0
  <1>5. PostRecv(q, mb) = [z0 EXCEPT !.rq = <<mb>>]
    BY <1>1, <1>3, <1>4
  <1> QED BY <1>1, <1>2, <1>3, <1>5 DEF QP, Awaits

\* dada_ib_post_sends: the requests are put behind those that are posted.
LEMMA PostIs ==
  ASSUME NEW q \in QP, ~q.err, q.sq = <<>>, NEW wrs \in Sq
  PROVE  LET z == Post(q, wrs) IN
         /\ z \in QP /\ z.sq = wrs /\ z.sc = q.sc /\ z.rq = q.rq /\ z.rc = q.rc
         /\ z.max = q.max /\ ~z.err /\ z.key = q.key /\ z.val = q.val /\ z.hdr = q.hdr
  <1>1. <<>> \o wrs = wrs /\ q.used + Len(wrs) \in Int
    BY DEF Sq, QP
  <1>2. Post(q, wrs) = [q EXCEPT !.sq = wrs, !.used = q.used + Len(wrs)]
    BY <1>1 DEF Post
  <1> QED BY <1>1, <1>2 DEF QP

\* The completion of the only receive is polled.
LEMMA PolledIs ==
  ASSUME NEW q \in QP, NEW mb, Holds(q, mb)
  PROVE  LET z == Polled(q, mb) IN
         /\ z \in QP /\ Neither(z) /\ z.sq = q.sq /\ z.sc = q.sc /\ z.max = q.max
         /\ z.used = q.used /\ z.err = q.err
         /\ z.key = q.key /\ z.val = q.val /\ z.hdr = q.hdr
  <1>1. Polled(q, mb) = [q EXCEPT !.rc = <<>>]
    BY FirstRemoved DEF Polled, Holds
  <1> QED BY <1>1, Empties DEF QP, Holds, Neither

\* The completion of a message is polled.
LEMMA SendPolledIs ==
  ASSUME NEW q \in QP, q.sc = <<"ok">>
  PROVE  LET z == SendPolled(q) IN
         /\ z \in QP /\ z.sc = <<>> /\ z.used = 0 /\ z.sq = q.sq /\ z.rq = q.rq
         /\ z.rc = q.rc /\ z.max = q.max /\ z.err = q.err
         /\ z.key = q.key /\ z.val = q.val /\ z.hdr = q.hdr
  <1>1. Tail(<<"ok">>) = <<>>
    OBVIOUS
  <1>2. SendPolled(q) = [q EXCEPT !.sc = <<>>, !.used = 0]
    BY <1>1 DEF SendPolled
  <1>3. [q EXCEPT !.sc = <<>>, !.used = 0] \in QP
    <2> DEFINE q1 == [q EXCEPT !.sc = <<>>]
    <2>1. q1 \in QP
      BY Empties DEF QP
    <2> HIDE DEF q1
    <2>2. [q1 EXCEPT !.used = 0] \in QP
      BY <2>1 DEF QP
    <2> QED BY <2>2 DEF q1
  <1> QED BY <1>2, <1>3 DEF QP

\* A message is put into the buffer that waits for it.
LEMMA DeliveredIs ==
  ASSUME NEW q \in QP, NEW mb \in {"sync", "header"}, Awaits(q, mb), NEW w \in Request
  PROVE  LET z == Delivered(q, w) IN
         /\ z \in QP /\ Holds(z, mb) /\ z.sq = q.sq /\ z.sc = q.sc /\ z.max = q.max
         /\ z.used = q.used /\ z.err = q.err
         /\ mb = "sync" => z.key = w.key /\ z.val = w.val
         /\ mb = "header" => z.hdr = w.val
  <1>1. q.rq[1] = mb /\ Tail(q.rq) = <<>> /\ Append(q.rc, mb) = <<mb>> /\ <<mb>> \in Rc
    BY Empties DEF Awaits
  <1> DEFINE p == [q EXCEPT !.rq = <<>>, !.rc = <<mb>>]
  <1>2. p \in QP
    BY <1>1, Empties DEF QP
  <1>3. Holds(p, mb) /\ p.sq = q.sq /\ p.sc = q.sc /\ p.max = q.max /\ p.used = q.used
        /\ p.err = q.err
    BY DEF QP, Holds
  <1>4. p = [q EXCEPT !.rq = Tail(@), !.rc = Append(@, mb)]
    BY <1>1
  <1>5. Delivered(q, w) = IF mb = "sync" THEN [p EXCEPT !.key = w.key, !.val = w.val]
                                         ELSE [p EXCEPT !.hdr = w.val]
    BY <1>1, <1>4 DEF Delivered
  <1>6. w.key \in Keys /\ w.val \in Int
    BY DEF Request
  <1> HIDE DEF p
  <1> QED BY <1>2, <1>3, <1>5, <1>6 DEF QP, Holds

\* The message at the head of a queue is carried out.
LEMMA DoneIs ==
  ASSUME NEW q \in QP, Len(q.sq) = 1, q.sc = <<>>
  PROVE  LET z == Done(q) IN
         /\ z \in QP /\ z.sq = <<>> /\ z.sc = <<"ok">> /\ z.rq = q.rq /\ z.rc = q.rc
         /\ z.max = q.max /\ z.used = q.used /\ z.err = q.err
         /\ z.key = q.key /\ z.val = q.val /\ z.hdr = q.hdr
  <1>1. q.sq \in Seq(Request)
    BY DEF QP, Sq
  <1>2. Tail(q.sq) = <<>>
    <2> DEFINE t == q.sq
    <2>1. t \in Seq(Request) /\ Len(t) = 1 /\ t # <<>>
      BY <1>1
    <2> HIDE DEF t
    <2>2. Tail(t) \in Seq(Request) /\ Len(Tail(t)) = 0
      BY <2>1, HeadTailProperties
    <2> QED BY <2>2, EmptySeq DEF t
  <1>3. Done(q) = [q EXCEPT !.sq = <<>>, !.sc = <<"ok">>]
    <2>1. Append(q.sc, "ok") = <<"ok">>
      OBVIOUS
    <2> QED BY <1>2, <2>1 DEF Done
  <1> QED BY <1>3, Empties DEF QP

\* A queue pair to which nothing is posted goes into the error state.
LEMMA FlushIs ==
  ASSUME NEW q \in QP, q.sq = <<>>, q.rq = <<>>
  PROVE  LET z == Flush(q) IN
         /\ z \in QP /\ z.sq = <<>> /\ z.rq = <<>> /\ z.rc = q.rc /\ z.sc = q.sc
         /\ z.key = q.key /\ z.val = q.val /\ z.hdr = q.hdr
  <1>1. {k \in DOMAIN q.sq : q.sq[k].op = "send"} = {}
    OBVIOUS
  <1>2. Cardinality({k \in DOMAIN q.sq : q.sq[k].op = "send"}) = 0
    BY <1>1, FS_EmptySet
  <1>3. Len(q.rq) = 0
    OBVIOUS
  <1>4. q.sc \in Seq({"ok", "err"}) /\ q.rc \in Seq({"sync", "header", "err"})
    BY DEF QP, Sc, Rc
  <1>5. q.sc \o [i \in 1..0 |-> "err"] = q.sc /\ q.rc \o [i \in 1..0 |-> "err"] = q.rc
    <2>1. [i \in 1..0 |-> "err"] = <<>>
      OBVIOUS
    <2> QED BY <2>1, <1>4
  <1>6. Flush(q) = [q EXCEPT !.err = TRUE, !.rq = <<>>, !.sq = <<>>, !.rc = q.rc, !.sc = q.sc]
    BY <1>2, <1>3, <1>5 DEF Flush
  <1>7. q.rc \in Rc /\ q.sc \in Sc
    BY DEF QP
  <1> QED BY <1>6, <1>7, Empties DEF QP

-----------------------------------------------------------------------------
(* Steps that stay within a turn.                                          *)

\* dada_dbib goes on without a word: the completion of its message, the loop
\* over the blocks.
LEMMA SMove ==
  ASSUME Inv, r' = r, qr' = qr, link' = link, s'.o = s.o,
         qs'.rq = qs.rq, qs'.rc = qs.rc, qs'.key = qs.key, qs'.val = qs.val,
         SQuiet, SQuiet',
         \/ s.pc \in AtBlock /\ s'.pc \in AtBlock \ {"blockSent"} /\ (AllWhole => AllWhole')
         \/ s.pc \in AtAddress /\ s'.pc \in AtAddress /\ s'.blk = s.blk
         \/ s.pc \in {"endSent", "done"} /\ s'.pc \in {"done", "header", "read"}
         \/ s.pc = "request" /\ link = "est" /\ s'.pc = "read"
  PROVE  Stage'
  <1>1. RQuiet' = RQuiet /\ Box' = Box /\ InLoop' = InLoop
    BY DEF RQuiet, Box, InLoop
  <1>2. \A mb : /\ Awaits(qr, mb)' = Awaits(qr, mb) /\ Holds(qr, mb)' = Holds(qr, mb)
                /\ Awaits(qs, mb)' = Awaits(qs, mb) /\ Holds(qs, mb)' = Holds(qs, mb)
    BY DEF Awaits, Holds
  <1>3. Neither(qr)' = Neither(qr) /\ Neither(qs)' = Neither(qs)
    BY DEF Neither
  <1>4. Ob' = Ob
    BY DEF Ob
  <1> USE DEF AtHeader, AtBlock, AtAddress, AtEnd, Unconnected
  <1>5. Whole(s.blk)' = Whole(s.blk) \/ s.pc \notin AtAddress
    BY <1>4 DEF Whole
  <1>6. Before => Before'
    BY <1>1, <1>4, <1>5 DEF Before
  <1>7. CASE Between
    <2>1. /\ r.pc = "header" => s'.pc \in AtHeader
          /\ r.pc \in {"loop", "close"} => s'.pc \in AtBlock
      BY <1>7 DEF Between
    <2>2. Between'
      BY <1>7, <1>1, <1>2, <1>4, <2>1 DEF Between
    <2> QED BY <2>2 DEF Stage
  <1>8. CASE Asking
    <2>1. Asking'
      BY <1>8, <1>1, <1>2, <1>6 DEF Asking, Question
    <2> QED BY <2>1 DEF Stage
  <1>9. CASE Asked
    <2>1. Asked'
      BY <1>9, <1>1, <1>2, <1>6 DEF Asked
    <2> QED BY <2>1 DEF Stage
  <1>10. ~Answering
    BY EmptySeq DEF Answering, AnswerHeader, AnswerSize, AnswerEnd, AnswerBlock, Closes, SQuiet
  <1>11. ~Apart
    BY DEF Apart, Inv, Connection
  <1>12. Gone => Gone'
    BY <1>3 DEF Gone
  <1>13. CASE Answered
    <2>1. GotHeader => GotHeader'
      BY <1>1 DEF GotHeader
    <2>2. GotSize => GotSize'
      BY <1>1, <1>4, <1>5 DEF GotSize, Size
    <2>3. GotBlock => GotBlock'
      BY <1>4 DEF GotBlock
    <2>4. GotEnd => GotEnd'
      BY <1>1, <1>12 DEF GotEnd
    <2>5. Answered'
      BY <1>13, <1>1, <1>2, <2>1, <2>2, <2>3, <2>4 DEF Answered
    <2> QED BY <2>5 DEF Stage
  <1>14. CASE Over
    <2>1. Over'
      BY <1>14, <1>1, <1>2, <1>3, <1>12 DEF Over
    <2> QED BY <2>1 DEF Stage
  <1> QED BY <1>7, <1>8, <1>9, <1>10, <1>11, <1>13, <1>14 DEF Inv, Stage

\* dada_ibdb goes on to wait for the answer.
LEMMA RMove ==
  ASSUME Inv, s' = s, qs' = qs, link' = link, RQuiet, RQuiet',
         qr'.rq = qr.rq, qr'.rc = qr.rc, qr'.key = qr.key, qr'.val = qr.val,
         qr'.hdr = qr.hdr, qr'.err = qr.err, r'.want = r.want,
         \/ r.pc = "headerReady" /\ r'.pc = "headerWait"
         \/ r.pc = "ready" /\ r'.pc = "size"
         \/ r.pc = "addressSent" /\ r'.pc = "data"
         \/ r.pc = "closeReady" /\ r'.pc = "closeSize"
  PROVE  Stage'
  <1> USE DEF HeaderPcs, SizePcs, AddressPcs
  <1>1. SQuiet' = SQuiet /\ Box' = Box /\ InLoop' = InLoop /\ AllWhole' = AllWhole
    BY DEF SQuiet, Box, InLoop, AllWhole, Whole, Ob
  <1>2. \A mb : /\ Awaits(qr, mb)' = Awaits(qr, mb) /\ Holds(qr, mb)' = Holds(qr, mb)
                /\ Awaits(qs, mb)' = Awaits(qs, mb) /\ Holds(qs, mb)' = Holds(qs, mb)
    BY DEF Awaits, Holds
  <1>3. Neither(qr)' = Neither(qr) /\ Neither(qs)' = Neither(qs)
    BY DEF Neither
  <1>4. Ob' = Ob /\ Size' = Size /\ Whole(s.blk)' = Whole(s.blk) /\ Gone' = Gone
    BY <1>1, <1>3 DEF Ob, Size, Whole, Gone
  <1>5. Before => Before'
    BY <1>1, <1>4 DEF Before
  <1>6. ~Asking
    BY DEF Asking, RQuiet
  <1>7. ~Between /\ ~Apart /\ ~Over
    BY DEF Between, Apart, Over
  <1>8. CASE Asked
    <2>1. Asked'
      BY <1>8, <1>1, <1>2, <1>5 DEF Asked
    <2> QED BY <2>1 DEF Stage
  <1>9. CASE Answering
    <2>1. AnswerHeader => AnswerHeader'
      BY <1>2 DEF AnswerHeader
    <2>2. AnswerSize => AnswerSize'
      BY <1>1, <1>2, <1>4 DEF AnswerSize
    <2>3. AnswerEnd => AnswerEnd'
      BY <1>1, <1>3 DEF AnswerEnd
    <2>4. AnswerBlock => AnswerBlock'
      BY <1>1, <1>2, <1>4 DEF AnswerBlock
    <2>5. Answering'
      BY <1>9, <1>1, <1>2, <2>1, <2>2, <2>3, <2>4 DEF Answering
    <2> QED BY <2>5 DEF Stage
  <1>10. CASE Answered
    <2>1. GotHeader => GotHeader'
      BY <1>1 DEF GotHeader
    <2>2. GotSize => GotSize'
      BY <1>1, <1>4 DEF GotSize
    <2>3. GotBlock => GotBlock'
      BY <1>1, <1>4 DEF GotBlock
    <2>4. GotEnd => GotEnd'
      BY <1>1, <1>4 DEF GotEnd
    <2>5. Answered'
      BY <1>10, <1>1, <1>2, <2>1, <2>2, <2>3, <2>4 DEF Answered
    <2> QED BY <2>5 DEF Stage
  <1> QED BY <1>6, <1>7, <1>8, <1>9, <1>10 DEF Inv, Stage

-----------------------------------------------------------------------------
(* The steps of dada_dbib that say nothing.                                *)

LEMMA QuietUnlessAnswering ==
  ASSUME Inv, s.pc \notin Unconnected, ~Answering
  PROVE  SQuiet
  BY DEF Inv, Stage, Connection, Apart, Between, Asking, Asked, Answered, GotEnd, Over, Gone

LEMMA AnsweringWaits == Answering => s.pc \in SSends /\ qs.sc = <<>>
  BY DEF Answering, AnswerHeader, AnswerSize, AnswerEnd, AnswerBlock, SSends

\* A completion has come: it is the only one, and it is good.
LEMMA SenderPolls ==
  ASSUME Inv, s.pc \in SSends, SendReturns(qs)
  PROVE  /\ SQuiet /\ Sent(qs) /\ SendPolled(qs) \in QP
         /\ LET z == SendPolled(qs) IN
            /\ z.sc = <<>> /\ z.used = 0 /\ z.sq = <<>> /\ z.rq = qs.rq /\ z.rc = qs.rc
            /\ z.max = qs.max /\ z.err = qs.err /\ z.key = qs.key /\ z.val = qs.val
  <1>1. ~Answering /\ s.pc \notin Unconnected
    BY AnsweringWaits DEF SendReturns, SSends, Unconnected
  <1>2. SQuiet
    BY <1>1, QuietUnlessAnswering
  <1>3. qs.sc = <<"ok">> /\ qs.sq = <<>>
    BY <1>2 DEF SQuiet
  <1>4. Sent(qs)
    BY <1>3 DEF Sent
  <1>5. qs \in QP
    BY DEF Inv, IbType
  <1> QED BY <1>2, <1>3, <1>4, <1>5, SendPolledIs

\* What is left to show for such a step.
LEMMA SStays ==
  ASSUME Inv, SKeeps, s' \in SType, qs' \in QP, qs'.err = qs.err \/ ~qs'.err,
         Stage', SenderFits',
         link # "req", s.pc \notin Unconnected,
         s'.pc \notin Unconnected \cup {"request", "unlock"}
  PROVE  Inv'
  <1>1. r' = r /\ qr' = qr /\ link' = link /\ ring' = ring
    BY DEF SKeeps, Memory
  <1>2. IbType'
    BY <1>1 DEF Inv, IbType
  <1>3. Connection'
    BY <1>1 DEF Inv, Connection, Unconnected
  <1>4. Sound'
    BY <1>1 DEF Inv, Sound
  <1> QED BY <1>2, <1>3, <1>4 DEF Inv

\* A program counter is all that changes of dada_dbib.
LEMMA AtIs ==
  ASSUME Inv, NEW p \in SPcs
  PROVE  /\ At(p) \in SType /\ At(p).pc = p /\ At(p).o = s.o /\ At(p).blk = s.blk
         /\ At(p).sent = s.sent
  BY DEF Inv, IbType, SType, At

\* The number of blocks of an observation, and their sizes.
LEMMA ObIs ==
  ASSUME Inv, Fits, AllAgreed, s.o > 0
  PROVE  /\ Ob \in [blocks : Seq(0..BUFSZ), want : Nat, offset : BOOLEAN] /\ Len(Ob.blocks) \in Nat
         /\ s.o \in 1..Len(Obs) /\ s.blk \in Nat /\ s.sent \in Nat
         /\ \A k \in 1..Len(Ob.blocks) : Ob.blocks[k] \in 0..BUFSZ
         /\ BUFSZ \in Nat \ {0}
  <1>1. s.o \in 1..Len(Obs) /\ s.blk \in Nat /\ s.sent \in Nat
    BY DEF Inv, IbType, SType, SenderFits, Fits
  <1> DEFINE R == [blocks : Seq(0..BUFSZ), want : Nat, offset : BOOLEAN]
  <1>2. Ob \in R
    <2> HIDE DEF R
    <2>1. Obs \in Seq(R)
      BY DEF Fits, R
    <2> QED BY <1>1, <2>1, ElementOfSeq DEF Ob
  <1>3. Ob.blocks \in Seq(0..BUFSZ)
    BY <1>2
  <1>4. Len(Ob.blocks) \in Nat /\ \A k \in 1..Len(Ob.blocks) : Ob.blocks[k] \in 0..BUFSZ
    <2> DEFINE bs == Ob.blocks
               S == 0..BUFSZ
    <2>1. bs \in Seq(S)
      BY <1>3
    <2> HIDE DEF bs, S
    <2>2. Len(bs) \in Nat /\ \A k \in 1..Len(bs) : bs[k] \in S
      BY <2>1, ElementOfSeq
    <2> QED BY <2>2 DEF bs, S
  <1> QED BY <1>1, <1>2, <1>4 DEF Fits

LEMMA UptoIs ==
  ASSUME Fits, NEW o \in 1..Len(Obs), Agreed(o), Obs[o].want # 0
  PROVE  /\ Upto[o] \in [0..Len(Obs[o].blocks) -> Nat] /\ Totals(o, Upto[o])
         /\ \E k \in 1..Len(Obs[o].blocks) : Obs[o].blocks[k] \notin {0, BUFSZ}
  <1> DEFINE T == [0..Len(Obs[o].blocks) -> Nat]
  <1>1. \E t \in T : Totals(o, t)
    BY DEF Fits, Agreed
  <1>2. Upto[o] = CHOOSE t \in T : Totals(o, t)
    BY DEF Upto
  <1> HIDE DEF T
  <1>3. Upto[o] \in T /\ Totals(o, Upto[o])
    BY <1>1, <1>2, Zenon
  <1>4. \E k \in 1..Len(Obs[o].blocks) : Obs[o].blocks[k] \notin {0, BUFSZ}
    <2> DEFINE R == [blocks : Seq(0..BUFSZ), want : Nat, offset : BOOLEAN]
               bs == Obs[o].blocks
    <2> HIDE DEF R
    <2>1. Obs[o] \in R
      BY ElementOfSeq DEF Fits, R
    <2>2. bs \in Seq(0..BUFSZ)
      BY <2>1 DEF R
    <2>3. DOMAIN bs = 1..Len(bs)
      BY <2>2
    <2> QED BY <2>3 DEF Agreed
  <1> QED BY <1>3, <1>4 DEF T

\* TRANSFER_SIZE is never reached.
LEMMA NeverEnough ==
  ASSUME Inv, Fits, AllAgreed, s.pc \notin Unconnected \cup {"request", "read"}, Ob.want # 0
  PROVE  /\ s.sent < Ob.want
         /\ \E k \in 1..Len(Ob.blocks) : Ob.blocks[k] \notin {0, BUFSZ}
  <1>1. s.o > 0 /\ s.blk <= Len(Ob.blocks) /\ s.sent = Upto[s.o][s.blk]
    BY DEF Inv, SenderFits
  <1>2. s.o \in 1..Len(Obs) /\ s.blk \in Nat /\ Len(Ob.blocks) \in Nat
    BY <1>1, ObIs
  <1>3. s.blk \in 0..Len(Ob.blocks)
    BY <1>1, <1>2
  <1>4. Agreed(s.o)
    BY <1>2 DEF AllAgreed
  <1> QED BY <1>1, <1>2, <1>3, <1>4, UptoIs DEF Ob, Totals

\* The bytes with one more block.
LEMMA TotalNext ==
  ASSUME Inv, Fits, AllAgreed, s.o > 0, s.blk < Len(Ob.blocks), Ob.want # 0, s.sent = Upto[s.o][s.blk]
  PROVE  s.sent + Ob.blocks[s.blk + 1] = Upto[s.o][s.blk + 1]
  <1>1. s.o \in 1..Len(Obs) /\ s.blk \in Nat /\ Len(Ob.blocks) \in Nat
    BY ObIs
  <1>2. s.blk + 1 \in 1..Len(Ob.blocks) /\ (s.blk + 1) - 1 = s.blk
    BY <1>1
  <1>3. Totals(s.o, Upto[s.o])
    BY <1>1, UptoIs DEF Ob, AllAgreed
  <1> QED BY <1>2, <1>3 DEF Totals, Ob

LEMMA EstablishedInv == ASSUME Inv, SEstablished PROVE Inv'
  <1>1. s.pc = "request" /\ link = "est" /\ s' = At("read") /\ qs' = qs /\ SKeeps
    BY DEF SEstablished
  <1>2. s' \in SType /\ s'.pc = "read" /\ s'.o = s.o
    BY <1>1, AtIs DEF SPcs
  <1>3. ~Answering /\ s.pc \notin Unconnected /\ s.pc \notin SSends
    BY <1>1, AnsweringWaits DEF SSends, Unconnected
  <1>4. SQuiet
    BY <1>3, QuietUnlessAnswering
  <1>5. SQuiet'
    BY <1>1, <1>2, <1>3, <1>4 DEF SQuiet, SSends
  <1>6. Stage'
    BY <1>1, <1>2, <1>4, <1>5, SMove DEF SKeeps
  <1>7. SenderFits'
    BY <1>1, <1>2 DEF Inv, SenderFits
  <1>8. qs \in QP
    BY DEF Inv, IbType
  <1> QED BY <1>1, <1>2, <1>3, <1>6, <1>7, <1>8, SStays DEF Unconnected

LEMMA HeaderSentInv == ASSUME Inv, SHeaderSent PROVE Inv'
  <1>1. s.pc = "headerSent" /\ SendReturns(qs) /\ qs' = SendPolled(qs) /\ SKeeps
        /\ STo(Sent(qs), At("loop"))
    BY DEF SHeaderSent
  <1>2. s.pc \in SSends
    BY <1>1 DEF SSends
  <1>3. s' = At("loop")
    BY <1>1, <1>2, SenderPolls DEF STo
  <1>4. s' \in SType /\ s'.pc = "loop" /\ s'.o = s.o /\ s'.blk = s.blk /\ s'.sent = s.sent
    BY <1>3, AtIs DEF SPcs
  <1>5. SQuiet'
    BY <1>1, <1>2, <1>4, SenderPolls DEF SQuiet, SSends
  <1>6. AllWhole => AllWhole'
    BY <1>1, <1>4 DEF AllWhole, Whole, Ob
  <1>7. Stage'
    BY <1>1, <1>2, <1>4, <1>5, <1>6, SenderPolls, SMove DEF SKeeps, AtBlock
  <1>8. SenderFits'
    BY <1>1, <1>2, <1>4, SenderPolls DEF Inv, SenderFits, Ob, Unconnected
  <1>9. link # "req"
    BY <1>1 DEF Inv, Connection
  <1> QED BY <1>1, <1>2, <1>4, <1>7, <1>8, <1>9, SenderPolls, SStays DEF Unconnected

LEMMA SizeSentInv == ASSUME Inv, SSizeSent PROVE Inv'
  <1>1. s.pc = "sizeSent" /\ SendReturns(qs) /\ qs' = SendPolled(qs) /\ SKeeps
        /\ STo(Sent(qs), At("address"))
    BY DEF SSizeSent
  <1>2. s.pc \in SSends
    BY <1>1 DEF SSends
  <1>3. s' = At("address")
    BY <1>1, <1>2, SenderPolls DEF STo
  <1>4. /\ s' \in SType /\ s'.pc = "address" /\ s'.o = s.o /\ s'.blk = s.blk
        /\ s'.sent = s.sent
    BY <1>3, AtIs DEF SPcs
  <1>5. SQuiet'
    BY <1>1, <1>2, <1>4, SenderPolls DEF SQuiet, SSends
  <1>7. Stage'
    BY <1>1, <1>2, <1>4, <1>5, SenderPolls, SMove DEF SKeeps, AtAddress
  <1>8. SenderFits'
    BY <1>1, <1>2, <1>4, SenderPolls DEF Inv, SenderFits, Ob, Size, Unconnected
  <1>9. link # "req"
    BY <1>1 DEF Inv, Connection
  <1> QED BY <1>1, <1>2, <1>4, <1>7, <1>8, <1>9, SenderPolls, SStays DEF Unconnected

LEMMA EndSentInv == ASSUME Inv, SEndSent PROVE Inv'
  <1>1. s.pc = "endSent" /\ SendReturns(qs) /\ qs' = SendPolled(qs) /\ SKeeps
        /\ STo(Sent(qs), At("done"))
    BY DEF SEndSent
  <1>2. s.pc \in SSends
    BY <1>1 DEF SSends
  <1>3. s' = At("done")
    BY <1>1, <1>2, SenderPolls DEF STo
  <1>4. s' \in SType /\ s'.pc = "done" /\ s'.o = s.o /\ s'.blk = s.blk /\ s'.sent = s.sent
    BY <1>3, AtIs DEF SPcs
  <1>5. SQuiet'
    BY <1>1, <1>2, <1>4, SenderPolls DEF SQuiet, SSends
  <1>7. Stage'
    BY <1>1, <1>2, <1>4, <1>5, SenderPolls, SMove DEF SKeeps
  <1>8. SenderFits'
    BY <1>1, <1>2, <1>4, SenderPolls DEF Inv, SenderFits, Ob, Unconnected
  <1>9. link # "req"
    BY <1>1 DEF Inv, Connection
  <1> QED BY <1>1, <1>2, <1>4, <1>7, <1>8, <1>9, SenderPolls, SStays DEF Unconnected

\* dbib_send_block returns: the block counts as sent.
LEMMA BlockSentInv == ASSUME Inv, Fits, AllAgreed, SBlockSent PROVE Inv'
  <1> DEFINE t == [s EXCEPT !.pc = "loop", !.blk = @ + 1,
                            !.sent = @ + Ob.blocks[s.blk + 1], !.mem = Bytes(0, 0, BUFSZ)]
  <1>1. s.pc = "blockSent" /\ SendReturns(qs) /\ qs' = SendPolled(qs) /\ SKeeps
        /\ STo(Sent(qs), t)
    BY DEF SBlockSent
  <1>2. s.pc \in SSends
    BY <1>1 DEF SSends
  <1>3. s' = t
    BY <1>1, <1>2, SenderPolls DEF STo
  <1>4. /\ s.o > 0 /\ s.blk < Len(Ob.blocks) /\ s \in SType
        /\ (Ob.want = 0 \/ s.sent = Upto[s.o][s.blk])
        /\ qs.max = BUFSZ \div CHUNK + 1 /\ s.o \in 0..Len(Obs)
    BY <1>1 DEF Inv, SenderFits, Unconnected, IbType
  <1>5. /\ Size \in 0..BUFSZ /\ s.blk \in Nat /\ s.sent \in Nat /\ Len(Ob.blocks) \in Nat
        /\ BUFSZ \in Nat \ {0}
    BY <1>4, ObIs, SMTT(30) DEF Size
  <1>6. Bytes(0, 0, BUFSZ) \in [1..BUFSZ -> Nat \X Nat]
    BY <1>5 DEF Bytes
  <1>7. /\ s'.pc = "loop" /\ s'.o = s.o /\ s'.blk = s.blk + 1 /\ s'.sent = s.sent + Size
    BY <1>3, <1>4 DEF SType, Size
  <1>8. s' \in SType
    <2> DEFINE n == s.blk + 1
               m == s.sent + Ob.blocks[s.blk + 1]
    <2>1. n \in Nat /\ m \in Nat
      <3>1. s.blk \in Nat /\ s.sent \in Nat /\ Ob.blocks[s.blk + 1] \in Nat
        BY <1>5 DEF Size
      <3> QED BY <3>1
    <2>2. s' = [s EXCEPT !.pc = "loop", !.blk = n, !.sent = m, !.mem = Bytes(0, 0, BUFSZ)]
      BY <1>3
    <2> HIDE DEF n, m
    <2>3. "loop" \in SPcs
      BY DEF SPcs
    <2> QED BY <2>1, <2>2, <2>3, <1>4, <1>6 DEF SType
  <1>9. SQuiet'
    BY <1>1, <1>2, <1>7, SenderPolls DEF SQuiet, SSends
  <1>10. AllWhole => AllWhole'
    BY <1>1, <1>7 DEF AllWhole, Whole, Ob
  <1>11. Stage'
    BY <1>1, <1>2, <1>7, <1>9, <1>10, SenderPolls, SMove DEF SKeeps, AtBlock
  <1>12. Ob.want = 0 \/ s.sent + Size = Upto[s.o][s.blk + 1]
    BY <1>4, <1>5, TotalNext DEF Size
  <1>13. Ob' = Ob
    BY <1>7 DEF Ob
  <1>14. SenderFits'
    BY <1>1, <1>2, <1>4, <1>5, <1>7, <1>12, <1>13, SenderPolls DEF SenderFits, Unconnected
  <1>15. link # "req"
    BY <1>1 DEF Inv, Connection
  <1> QED BY <1>1, <1>2, <1>7, <1>8, <1>11, <1>14, <1>15, SenderPolls, SStays DEF Unconnected

\* dada_client_io_loop_block: the end, a block without bytes, or the next block.
LEMMA LoopInv == ASSUME Inv, Fits, AllAgreed, SLoop PROVE Inv'
  <1>1. s.pc = "loop" /\ qs' = qs /\ SKeeps
    BY DEF SLoop
  <1>2. /\ s.o > 0 /\ s.blk <= Len(Ob.blocks) /\ s \in SType
        /\ (Ob.want = 0 \/ s.sent = Upto[s.o][s.blk])
        /\ qs.max = BUFSZ \div CHUNK + 1 /\ s.o \in 0..Len(Obs) /\ qs \in QP
    BY <1>1 DEF Inv, SenderFits, Unconnected, IbType
  <1>3. /\ s.blk \in Nat /\ s.sent \in Nat /\ Len(Ob.blocks) \in Nat /\ BUFSZ \in Nat \ {0}
        /\ \A k \in 1..Len(Ob.blocks) : Ob.blocks[k] \in 0..BUFSZ
    BY <1>2, ObIs
  <1>4. ~Answering /\ s.pc \notin Unconnected /\ s.pc \notin SSends
    BY <1>1, AnsweringWaits DEF SSends, Unconnected
  <1>5. SQuiet /\ qs.sc = <<>>
    BY <1>4, QuietUnlessAnswering DEF SQuiet
  <1>6. link # "req"
    BY <1>1 DEF Inv, Connection
  <1>7. s' \in SType /\ s'.pc \in {"close", "loop", "ready"} /\ s'.o = s.o
    <2>1. CASE s' = At("close")
      BY <2>1, AtIs DEF SPcs
    <2>2. CASE s' = [s EXCEPT !.blk = @ + 1]
      <3> DEFINE n == s.blk + 1
      <3>1. n \in Nat /\ s' = [s EXCEPT !.blk = n]
        BY <2>2, <1>3
      <3> HIDE DEF n
      <3> QED BY <3>1, <1>1, <1>2 DEF SType
    <2>3. CASE s' = [s EXCEPT !.pc = "ready",
                              !.mem = [k \in 1..BUFSZ |-> <<s.o, s.sent + k>>]]
      <3>1. [k \in 1..BUFSZ |-> <<s.o, s.sent + k>>] \in [1..BUFSZ -> Nat \X Nat]
        BY <1>2, <1>3
      <3> QED BY <2>3, <3>1, <1>2 DEF SType, SPcs
    <2> QED BY <2>1, <2>2, <2>3 DEF SLoop
  <1>8. SQuiet'
    BY <1>1, <1>5, <1>7 DEF SQuiet, SSends
  <1>9. /\ s'.sent = s.sent
        /\ \/ s'.blk = s.blk /\ s'.pc = "close" /\ s.blk = Len(Ob.blocks)
           \/ /\ s'.blk = s.blk + 1 /\ s'.pc = "loop" /\ s.blk < Len(Ob.blocks)
              /\ Ob.blocks[s.blk + 1] = 0
           \/ /\ s'.blk = s.blk /\ s'.pc = "ready" /\ s.blk < Len(Ob.blocks)
              /\ Ob.blocks[s.blk + 1] # 0
    <2>1. CASE (Limit # 0 /\ s.sent >= Limit) \/ Eod
      <3>1. Eod
        BY <2>1, <1>1, <1>2, <1>3, NeverEnough, ObIs DEF Unconnected, Limit
      <3>2. s' = At("close")
        BY <2>1 DEF SLoop
      <3> QED BY <3>1, <3>2, AtIs DEF Eod, SPcs
    <2>2. CASE ~((Limit # 0 /\ s.sent >= Limit) \/ Eod)
      <3>1. s.blk < Len(Ob.blocks)
        BY <2>2, <1>2, <1>3 DEF Eod
      <3>2. CASE Ob.blocks[s.blk + 1] = 0
        <4>1. s' = [s EXCEPT !.blk = @ + 1]
          BY <2>2, <3>2 DEF SLoop
        <4> QED BY <4>1, <3>1, <3>2, <1>1, <1>2 DEF SType
      <3>3. CASE Ob.blocks[s.blk + 1] # 0
        <4>1. s' = [s EXCEPT !.pc = "ready",
                             !.mem = [k \in 1..BUFSZ |-> <<s.o, s.sent + k>>]]
          BY <2>2, <3>3 DEF SLoop
        <4> QED BY <4>1, <3>1, <3>3, <1>1, <1>2 DEF SType
      <3> QED BY <3>2, <3>3
    <2> QED BY <2>1, <2>2
  <1>10. Ob' = Ob
    BY <1>7 DEF Ob
  <1>11. AllWhole => AllWhole'
    BY <1>1, <1>3, <1>9, <1>10 DEF AllWhole, Whole
  <1>12. Stage'
    BY <1>1, <1>5, <1>7, <1>8, <1>11, SMove DEF SKeeps, AtBlock
  <1>13. \/ Ob.want = 0 \/ s.blk >= Len(Ob.blocks)
         \/ s.sent + Ob.blocks[s.blk + 1] = Upto[s.o][s.blk + 1]
    BY <1>2, <1>3, TotalNext
  <1>14. SenderFits'
    <2>1. /\ s'.o > 0 /\ s'.blk <= Len(Ob'.blocks)
          /\ Ob'.want = 0 \/ s'.sent = Upto[s'.o][s'.blk]
      BY <1>2, <1>3, <1>7, <1>9, <1>10, <1>13, SMTT(30)
    <2>2. s'.pc = "ready" => s'.blk < Len(Ob'.blocks) /\ Size' > 0
      BY <1>3, <1>9, <1>10, SMTT(30) DEF Size
    <2> QED BY <2>1, <2>2, <1>1, <1>2, <1>7, <1>9, <1>10 DEF SenderFits
  <1> QED BY <1>1, <1>2, <1>4, <1>6, <1>7, <1>12, <1>14, SStays DEF Unconnected

-----------------------------------------------------------------------------
(* dada_dbib between its observations, and its connection.                 *)

LEMMA DoneStage ==
  ASSUME Inv, s.pc = "done"
  PROVE  /\ SQuiet /\ Neither(qs) /\ link = "est" /\ qr.sq = <<>> /\ qr.rq = <<>>
         /\ (RQuiet /\ Holds(qr, Box) /\ GotEnd) \/ (Over /\ Gone)
  <1>1. ~Answering /\ s.pc \notin Unconnected
    BY AnsweringWaits DEF SSends, Unconnected
  <1>2. link = "est"
    BY <1>1 DEF Inv, Connection
  <1>3. (RQuiet /\ Holds(qr, Box) /\ GotEnd) \/ (Over /\ Gone)
    BY <1>1, <1>2 DEF Inv, Stage, Apart, Between, Asking, Asked, Before, Answered, GotHeader,
         GotSize, GotBlock, Over, AtHeader, AtBlock, AtAddress
  <1>4. SQuiet
    BY <1>1, QuietUnlessAnswering
  <1> QED BY <1>1, <1>2, <1>3, <1>4 DEF GotEnd, Gone, Over, RQuiet, Holds, Neither

LEMMA DoneInv == ASSUME Inv, SDone PROVE Inv'
  <1>1. s.pc = "done" /\ qs' = qs /\ r' = r /\ ring' = ring
    BY DEF SDone, Inv, Sound, Memory
  <1>2. /\ SQuiet /\ Neither(qs) /\ link = "est" /\ qr.sq = <<>> /\ qr.rq = <<>>
        /\ (RQuiet /\ Holds(qr, Box) /\ GotEnd) \/ (Over /\ Gone)
    BY <1>1, DoneStage
  <1>3. /\ qs \in QP /\ qr \in QP /\ r \in RType /\ ring \in RingType
        /\ s.o \in 0..Len(Obs) /\ qs.max = BUFSZ \div CHUNK + 1
    BY DEF Inv, IbType, SenderFits
  <1>4. CASE s' \in {At("header"), At("read")} /\ link' = link /\ qr' = qr
    <2>1. /\ s' \in SType /\ s'.pc \in {"header", "read"} /\ s'.o = s.o /\ s'.blk = s.blk
          /\ s'.sent = s.sent
      BY <1>4, AtIs DEF SPcs
    <2>2. SQuiet'
      BY <1>1, <1>2, <2>1 DEF SQuiet, SSends
    <2>3. Stage'
      BY <1>1, <1>2, <1>4, <2>1, <2>2, SMove
    <2>4. Neither(qs)' /\ Ob' = Ob
      BY <1>1, <1>2, <2>1 DEF Neither, Ob
    <2>5. SenderFits'
      BY <1>1, <2>1, <2>4 DEF Inv, SenderFits, Unconnected
    <2>6. SKeeps
      BY <1>1, <1>4 DEF SKeeps, SDone, Memory
    <2> QED BY <1>1, <1>2, <1>3, <2>1, <2>3, <2>5, <2>6, SStays DEF Unconnected
  <1>5. CASE s' = At("off") /\ Disconnect
    <2>1. s' \in SType /\ s'.pc = "off" /\ s'.o = s.o
      BY <1>5, AtIs DEF SPcs
    <2>2. /\ link' = "down" /\ qr' \in QP /\ qr'.sq = <<>> /\ qr'.rq = <<>>
          /\ qr'.rc = qr.rc /\ qr'.sc = qr.sc /\ qr'.key = qr.key /\ qr'.val = qr.val
      BY <1>2, <1>3, <1>5, FlushIs DEF Disconnect
    <2>3. Gone'
      BY <2>1 DEF Gone, AtEnd, Unconnected
    <2>4. RQuiet => RQuiet'
      BY <1>1, <2>2 DEF RQuiet
    <2>5. Stage'
      <3>1. CASE RQuiet /\ Holds(qr, Box) /\ GotEnd
        BY <3>1, <1>1, <2>2, <2>3, <2>4 DEF Stage, Answered, GotEnd, Holds, Box, InLoop
      <3>2. CASE Over
        BY <3>2, <1>1, <2>2, <2>3, <2>4 DEF Stage, Over, Neither
      <3> QED BY <3>1, <3>2, <1>2
    <2>6. Connection'
      BY <2>1, <2>2 DEF Connection, Unconnected
    <2>7. SenderFits'
      BY <1>1, <1>3, <2>1 DEF SenderFits, Unconnected
    <2>8. Sound'
      BY <1>1, <2>1 DEF Inv, Sound
    <2>9. IbType'
      BY <1>1, <1>3, <2>1, <2>2 DEF IbType
    <2> QED BY <2>5, <2>6, <2>7, <2>8, <2>9 DEF Inv
  <1> QED BY <1>1, <1>4, <1>5 DEF SDone

\* Steps without a connection.
LEMMA UnconnectedStage ==
  ASSUME Inv, s.pc \in Unconnected, s'.pc \in Unconnected, r' = r, qr' = qr, link' = link
  PROVE  Stage'
  <1>1. link \in {"none", "down"}
    BY DEF Inv, Connection
  <1>2. Gone'
    BY DEF Gone, AtEnd
  <1>3. RQuiet' = RQuiet /\ Box' = Box /\ InLoop' = InLoop /\ Holds(qr, Box)' = Holds(qr, Box)
    BY DEF RQuiet, Box, InLoop, Holds
  <1>4. CASE Apart
    <2>1. Apart'
      BY <1>1, <1>3, <1>4 DEF Apart, Neither, Awaits, Unconnected
    <2> QED BY <2>1 DEF Stage
  <1>5. CASE Answered
    <2>1. GotEnd'
      BY <1>1, <1>2, <1>3, <1>5 DEF Answered, GotEnd
    <2>2. Answered'
      BY <1>3, <1>5, <2>1 DEF Answered
    <2> QED BY <2>2 DEF Stage
  <1>6. CASE Over
    <2>1. Over'
      BY <1>2, <1>3, <1>6 DEF Over, Neither
    <2> QED BY <2>1 DEF Stage
  <1> QED BY <1>1, <1>4, <1>5, <1>6 DEF Inv, Stage, Between, Asking, Asked, Answering

LEMMA ResolveInv == ASSUME Inv, SResolve PROVE Inv'
  <1>1. /\ s.pc = "off" /\ s' = At("init") /\ qs' = qs /\ r' = r /\ qr' = qr /\ link' = link
        /\ ring' = ring
    BY DEF SResolve, SKeeps, Memory
  <1>2. s' \in SType /\ s'.pc = "init" /\ s'.o = s.o
    BY <1>1, AtIs DEF SPcs
  <1>3. Stage'
    BY <1>1, <1>2, UnconnectedStage DEF Unconnected
  <1>4. Connection' /\ SenderFits' /\ Sound'
    BY <1>1, <1>2 DEF Inv, Connection, SenderFits, Sound, Unconnected
  <1> QED BY <1>1, <1>2, <1>3, <1>4 DEF Inv, IbType

LEMMA DepthIs == ASSUME Fits PROVE BUFSZ \div CHUNK \in Int
  BY BufferAssumption DEF Fits

LEMMA InitInv == ASSUME Inv, Fits, AllAgreed, SInit PROVE Inv'
  <1> DEFINE q == NewQP(BUFSZ \div CHUNK)
  <1>1. /\ s.pc = "init" /\ s' = At("connect") /\ qs' = PostRecv(q, "sync") /\ r' = r
        /\ qr' = qr /\ link' = link /\ ring' = ring
    BY DEF SInit, SKeeps, Memory
  <1>2. s' \in SType /\ s'.pc = "connect" /\ s'.o = s.o
    BY <1>1, AtIs DEF SPcs
  <1>3. Stage'
    BY <1>1, <1>2, UnconnectedStage DEF Unconnected
  <1>4. /\ q \in QP /\ Neither(q) /\ q.sq = <<>> /\ q.sc = <<>>
        /\ q.max = BUFSZ \div CHUNK + 1 /\ q.used = 0 /\ ~q.err
    BY DepthIs, NewQPIs
  <1> HIDE DEF q
  <1>5. /\ qs' \in QP /\ Awaits(qs', "sync") /\ qs'.sq = <<>> /\ qs'.sc = <<>>
        /\ qs'.max = BUFSZ \div CHUNK + 1 /\ ~qs'.err
    BY <1>1, <1>4, PostRecvIs
  <1>6. Connection'
    BY <1>1, <1>2, <1>5 DEF Inv, Connection, Unconnected, Awaits
  <1>7. SenderFits' /\ Sound'
    BY <1>1, <1>2, <1>5 DEF Inv, SenderFits, Sound, Unconnected
  <1> QED BY <1>1, <1>2, <1>3, <1>5, <1>6, <1>7 DEF Inv, IbType

LEMMA ConnectInv == ASSUME Inv, SConnect PROVE Inv'
  <1>1. s.pc = "connect" /\ qs' = qs /\ r' = r /\ qr' = qr /\ ring' = ring
    BY DEF SConnect, Memory
  <1>2. CASE s' = At("off") /\ link' = link
    <2>1. s' \in SType /\ s'.pc = "off" /\ s'.o = s.o
      BY <1>2, AtIs DEF SPcs
    <2>2. Stage'
      BY <1>1, <1>2, <2>1, UnconnectedStage DEF Unconnected
    <2>3. Connection' /\ SenderFits' /\ Sound'
      BY <1>1, <1>2, <2>1 DEF Inv, Connection, SenderFits, Sound, Unconnected
    <2> QED BY <1>1, <2>1, <2>2, <2>3 DEF Inv, IbType
  <1>3. CASE r.pc = "listen" /\ link = "none" /\ link' = "req" /\ s' = At("request")
    <2>1. s' \in SType /\ s'.pc = "request" /\ s'.o = s.o
      BY <1>3, AtIs DEF SPcs
    <2>2. Awaits(qs, "sync") /\ qs.sq = <<>> /\ qs.sc = <<>>
      BY <1>1 DEF Inv, Connection
    <2>3. Apart'
      BY <1>1, <1>3, <2>1, <2>2 DEF Apart, Awaits, SQuiet, SSends
    <2>4. Connection' /\ SenderFits' /\ Sound'
      BY <1>1, <1>3, <2>1 DEF Inv, Connection, SenderFits, Sound, Unconnected
    <2> QED BY <1>1, <2>1, <2>3, <2>4 DEF Inv, IbType, Stage
  <1> QED BY <1>1, <1>2, <1>3 DEF SConnect

\* dada_client_read takes the next header from the ring.
LEMMA ReadInv == ASSUME Inv, Fits, AllAgreed', SRead PROVE Inv'
  <1>1. /\ s.pc = "read" /\ s.o < Len(Obs) /\ qs' = qs /\ SKeeps
        /\ s' = [s EXCEPT !.pc = "header", !.o = @ + 1, !.blk = 0, !.sent = 0]
    BY DEF SRead
  <1>2. r' = r /\ qr' = qr /\ link' = link /\ ring' = ring
    BY <1>1 DEF SKeeps, Memory
  <1>3. s \in SType /\ s.o \in 0..Len(Obs) /\ Len(Obs) \in Nat /\ qs \in QP
    BY DEF Inv, IbType, SenderFits, Fits
  <1>4. /\ s'.pc = "header" /\ s'.o = s.o + 1 /\ s'.blk = 0 /\ s'.sent = 0
    BY <1>1, <1>3 DEF SType
  <1>5. s' \in SType
    <2> DEFINE n == s.o + 1
    <2>1. n \in Nat /\ "header" \in SPcs
      BY <1>3 DEF SPcs
    <2>2. s' = [s EXCEPT !.pc = "header", !.o = n, !.blk = 0, !.sent = 0]
      BY <1>1
    <2> HIDE DEF n
    <2> QED BY <2>1, <2>2, <1>3 DEF SType
  <1>6. s.pc \notin Unconnected /\ link # "req" /\ ~Answering
    BY <1>1, AnsweringWaits DEF Inv, Connection, Unconnected, SSends
  <1>7. SQuiet /\ SQuiet'
    BY <1>1, <1>4, <1>6, QuietUnlessAnswering DEF SQuiet, SSends
  <1>8. Stage'
    <2> USE DEF AtHeader, AtBlock, AtAddress, AtEnd
    <2>1. RQuiet' = RQuiet /\ Box' = Box /\ InLoop' = InLoop
      BY <1>2 DEF RQuiet, Box, InLoop
    <2>2. \A mb : /\ Awaits(qr, mb)' = Awaits(qr, mb) /\ Holds(qr, mb)' = Holds(qr, mb)
                  /\ Awaits(qs, mb)' = Awaits(qs, mb) /\ Holds(qs, mb)' = Holds(qs, mb)
      BY <1>1, <1>2 DEF Awaits, Holds
    <2>3. Neither(qr)' = Neither(qr) /\ Neither(qs)' = Neither(qs)
      BY <1>1, <1>2 DEF Neither
    <2>4. Gone => Gone'
      BY <1>1, <1>4, <1>6, <1>7, <2>3 DEF Gone
    <2>5. Before => Before'
      BY <1>1, <1>2, <1>4 DEF Before
    <2>6. CASE Between
      BY <2>6, <1>1, <1>2, <1>4, <1>7, <2>1, <2>2 DEF Between, Stage
    <2>7. CASE Asking
      BY <2>7, <1>1, <1>2, <1>7, <2>1, <2>2, <2>5 DEF Asking, Question, Stage
    <2>8. CASE Asked
      BY <2>8, <1>1, <1>2, <1>7, <2>1, <2>2, <2>5 DEF Asked, Stage
    <2>9. CASE Answered
      <3>1. GotEnd
        BY <2>9, <1>1 DEF Answered, GotHeader, GotSize, GotBlock
      <3>2. GotEnd'
        BY <3>1, <1>2, <2>1, <2>4 DEF GotEnd
      <3>3. Answered'
        BY <2>9, <3>2, <2>1, <2>2 DEF Answered
      <3> QED BY <3>3 DEF Stage
    <2>10. CASE Over
      <3>1. Over'
        BY <2>10, <1>1, <1>2, <2>1, <2>3, <2>4 DEF Over
      <3> QED BY <3>1 DEF Stage
    <2>11. ~Apart
      BY <1>1, <1>6 DEF Apart, Inv, Connection
    <2> QED BY <1>6, <2>6, <2>7, <2>8, <2>9, <2>10, <2>11 DEF Inv, Stage
  <1>9. SenderFits'
    <2> DEFINE R == [blocks : Seq(0..BUFSZ), want : Nat, offset : BOOLEAN]
               n == s.o + 1
    <2>1. Obs \in Seq(R) /\ n \in 1..Len(Obs)
      BY <1>1, <1>3, SMTT(30) DEF Fits
    <2> HIDE DEF R, n
    <2>2. Obs[n] \in R
      BY <2>1, ElementOfSeq
    <2>3. Ob' = Obs[n]
      BY <1>4 DEF Ob, n
    <2>4. Ob'.blocks \in Seq(0..BUFSZ)
      BY <2>2, <2>3 DEF R
    <2>8. Agreed(n)
      BY <1>3, <1>4 DEF AllAgreed, n
    <2>5. Len(Ob'.blocks) \in Nat /\ (Ob'.want = 0 \/ Upto[n][0] = 0)
      <3>1. Len(Ob'.blocks) \in Nat
        BY <2>4
      <3>2. Ob'.want = 0 \/ Upto[n][0] = 0
        BY <2>1, <2>3, <2>8, UptoIs DEF Totals
      <3> QED BY <3>1, <3>2
    <2>6. n > 0 /\ n = s'.o
      BY <2>1, <1>4 DEF n
    <2>7. qs.max = BUFSZ \div CHUNK + 1
      BY DEF Inv, SenderFits
    <2> QED BY <1>1, <1>4, <2>1, <2>5, <2>6, <2>7 DEF SenderFits
  <1> QED BY <1>1, <1>3, <1>4, <1>5, <1>6, <1>8, <1>9, SStays DEF Unconnected

-----------------------------------------------------------------------------
(* dada_dbib answers.                                                      *)

\* What there is to hear is a question, and it is heard.
LEMMA SenderHears ==
  ASSUME Inv, s.pc \notin Unconnected \cup SSends, Returns(qs, "sync")
  PROVE  /\ Asked /\ Received(qs, "sync")
         /\ LET z == Polled(qs, "sync") IN
            /\ z \in QP /\ Neither(z) /\ z.sq = <<>> /\ z.sc = <<>>
            /\ z.max = qs.max /\ z.used = qs.used /\ ~z.err
         /\ LET z == PostRecv(Polled(qs, "sync"), "sync") IN
            /\ z \in QP /\ Awaits(z, "sync") /\ z.sq = <<>> /\ z.sc = <<>>
            /\ z.max = qs.max /\ z.used = qs.used /\ ~z.err
  <1>1. qs.rc # <<>>
    BY DEF Returns
  <1>2. Asked
    BY <1>1 DEF Inv, Stage, Connection, Apart, Between, Asking, Answering, AnswerHeader,
         AnswerSize, AnswerEnd, AnswerBlock, Answered, GotEnd, Over, Gone, Awaits, Neither
  <1>3. Holds(qs, "sync") /\ SQuiet /\ qs \in QP /\ ~qs.err
    BY <1>2 DEF Asked, Inv, IbType, Sound
  <1>4. Received(qs, "sync")
    BY <1>3 DEF Received, Holds
  <1> DEFINE q == Polled(qs, "sync")
  <1>5. /\ q \in QP /\ Neither(q) /\ q.sq = <<>> /\ q.sc = <<>>
        /\ q.max = qs.max /\ q.used = qs.used /\ ~q.err
    BY <1>3, PolledIs DEF SQuiet
  <1> HIDE DEF q
  <1>6. LET z == PostRecv(q, "sync") IN
        /\ z \in QP /\ Awaits(z, "sync") /\ z.sq = <<>> /\ z.sc = <<>>
        /\ z.max = qs.max /\ z.used = qs.used /\ ~z.err
    BY <1>5, PostRecvIs
  <1> QED BY <1>2, <1>4, <1>5, <1>6 DEF q

\* The question is still in dada_ibdb's hands as it was.
LEMMA QuestionStays ==
  ASSUME Asked, r' = r, qr' = qr, link' = link
  PROVE  /\ link' = "est" /\ ~qr'.err /\ RQuiet' /\ Awaits(qr, Box)' /\ InLoop' = InLoop
  BY DEF Asked, RQuiet, Awaits, Box, InLoop

LEMMA MessageIs ==
  ASSUME NEW key \in Keys, NEW val \in Int
  PROVE  /\ Message(key, val) \in Request
         /\ <<Message(key, val)>> \in Sq /\ Len(<<Message(key, val)>>) = 1
  <1>1. Message(key, val) \in Request
    BY DEF Message, Request
  <1> QED BY <1>1, OneRequest

LEMMA HeaderInv == ASSUME Inv, Fits, AllAgreed, SHeader PROVE Inv'
  <1> DEFINE q == PostRecv(Polled(qs, "sync"), "sync")
             w == Message("HEADER", s.o)
  <1>1. s.pc = "header" /\ Returns(qs, "sync") /\ SKeeps
    BY DEF SHeader
  <1>2. r' = r /\ qr' = qr /\ link' = link /\ ring' = ring
    BY <1>1 DEF SKeeps, Memory
  <1>3. /\ Asked /\ Received(qs, "sync") /\ q \in QP /\ Awaits(q, "sync") /\ q.sq = <<>>
        /\ q.sc = <<>> /\ q.max = qs.max /\ ~q.err
    BY <1>1, SenderHears DEF Unconnected, SSends
  <1> HIDE DEF q
  <1>4. r.pc \in HeaderPcs /\ qs.key = "READY"
    BY <1>1, <1>3 DEF Asked, Before, AtBlock, AtAddress, HeaderPcs, AddressPcs
  <1>5. GotMessage(qs, "READY")
    BY <1>3, <1>4 DEF GotMessage
  <1>6. s' = At("headerSent") /\ qs' = Post(q, <<w>>)
    BY <1>5 DEF SHeader, STo, q
  <1>7. /\ s' \in SType /\ s'.pc = "headerSent" /\ s'.o = s.o /\ s'.blk = s.blk
        /\ s'.sent = s.sent
    BY <1>6, AtIs DEF SPcs
  <1>8. <<w>> \in Sq
    <2>1. "HEADER" \in Keys
      BY DEF Keys
    <2>2. s \in SType
      BY DEF Inv, IbType
    <2>3. s.o \in Int
      BY <2>2 DEF SType
    <2> QED BY <2>1, <2>3, MessageIs
  <1> HIDE DEF w
  <1>9. /\ qs' \in QP /\ qs'.sq = <<w>> /\ qs'.sc = <<>> /\ Awaits(qs', "sync")
        /\ qs'.max = qs.max /\ ~qs'.err
    BY <1>3, <1>6, <1>8, PostIs DEF Awaits
  <1>10. s.blk = 0
    BY <1>1, <1>3 DEF Inv, SenderFits, Asked, Holds, Neither
  <1>11. AnswerHeader'
    BY <1>2, <1>4, <1>7, <1>9, <1>10 DEF AnswerHeader, w, Awaits, HeaderPcs, Message
  <1>12. Stage'
    BY <1>2, <1>3, <1>9, <1>11, QuestionStays DEF Stage, Answering
  <1>13. SenderFits'
    BY <1>1, <1>7, <1>9 DEF Inv, SenderFits, Unconnected, Ob
  <1>14. link # "req" /\ ~qs.err
    BY <1>1 DEF Inv, Connection, Sound
  <1> QED BY <1>1, <1>7, <1>9, <1>12, <1>13, <1>14, SStays DEF Unconnected

LEMMA ReadyInv == ASSUME Inv, Fits, AllAgreed, SReady PROVE Inv'
  <1> DEFINE q == PostRecv(Polled(qs, "sync"), "sync")
             w == Message("TO_XFER", Ob.blocks[s.blk + 1])
  <1>1. s.pc = "ready" /\ Returns(qs, "sync") /\ SKeeps
    BY DEF SReady
  <1>2. r' = r /\ qr' = qr /\ link' = link /\ ring' = ring
    BY <1>1 DEF SKeeps, Memory
  <1>3. /\ Asked /\ Received(qs, "sync") /\ q \in QP /\ Awaits(q, "sync") /\ q.sq = <<>>
        /\ q.sc = <<>> /\ q.max = qs.max /\ ~q.err
    BY <1>1, SenderHears DEF Unconnected, SSends
  <1> HIDE DEF q
  <1>4. /\ r.pc \in SizePcs /\ qs.key = "READY" /\ qs.val = 0 /\ r.want = Ob.want
        /\ InLoop => AllWhole
    BY <1>1, <1>3 DEF Asked, Before, AtHeader, AtAddress, SizePcs, AddressPcs
  <1>5. GotMessage(qs, "READY")
    BY <1>3, <1>4 DEF GotMessage
  <1>6. s' = At("sizeSent") /\ qs' = Post(q, <<w>>)
    BY <1>4, <1>5 DEF SReady, STo, q
  <1>7. /\ s' \in SType /\ s'.pc = "sizeSent" /\ s'.o = s.o /\ s'.blk = s.blk
        /\ s'.sent = s.sent
    BY <1>6, AtIs DEF SPcs
  <1>8. /\ s.o > 0 /\ s.blk < Len(Ob.blocks) /\ Size > 0 /\ s.blk <= Len(Ob.blocks)
        /\ (Ob.want = 0 \/ s.sent = Upto[s.o][s.blk]) /\ s.o \in 0..Len(Obs)
        /\ qs.max = BUFSZ \div CHUNK + 1
    BY <1>1 DEF Inv, SenderFits, Unconnected
  <1>9. Size \in Int
    BY <1>8, ObIs DEF Size
  <1>10. <<w>> \in Sq /\ w = Message("TO_XFER", Size)
    BY <1>9, MessageIs DEF Keys, Size
  <1> HIDE DEF w
  <1>11. /\ qs' \in QP /\ qs'.sq = <<w>> /\ qs'.sc = <<>> /\ Awaits(qs', "sync")
         /\ qs'.max = qs.max /\ ~qs'.err
    BY <1>3, <1>6, <1>10, PostIs DEF Awaits
  <1>12. Ob' = Ob /\ Size' = Size /\ Whole(s.blk)' = Whole(s.blk) /\ AllWhole = Whole(s.blk)
    BY <1>1, <1>7 DEF Ob, Size, Whole, AllWhole
  <1>13. InLoop' = InLoop
    BY <1>2, <1>3, QuestionStays
  <1>14. AnswerSize'
    BY <1>2, <1>4, <1>7, <1>10, <1>11, <1>12, <1>13 DEF AnswerSize, Awaits, SizePcs, Message
  <1>15. Stage'
    BY <1>2, <1>3, <1>11, <1>14, QuestionStays DEF Stage, Answering
  <1>16. SenderFits'
    BY <1>7, <1>8, <1>11, <1>12 DEF SenderFits, Unconnected
  <1>17. link # "req" /\ ~qs.err
    BY <1>1 DEF Inv, Connection, Sound
  <1> QED BY <1>1, <1>7, <1>11, <1>15, <1>16, <1>17, SStays DEF Unconnected

\* A block has no more chunks than the send queue has places beside the message.
LEMMA ChunksFit ==
  ASSUME Fits, NEW n \in 0..BUFSZ
  PROVE  /\ (n + CHUNK - 1) \div CHUNK \in Nat
         /\ (n + CHUNK - 1) \div CHUNK <= BUFSZ \div CHUNK
  <1>1. CHUNK \in Nat \ {0} /\ BUFSZ \in Nat /\ BUFSZ % CHUNK = 0
    BY BufferAssumption DEF Fits
  <1> DEFINE d == BUFSZ \div CHUNK
             e == (n + CHUNK - 1) \div CHUNK
  <1>2. d \in Nat /\ BUFSZ = CHUNK * d
    BY <1>1
  <1>3. e \in Int /\ CHUNK * e <= n + CHUNK - 1 /\ n + CHUNK - 1 < CHUNK * (e + 1)
    BY <1>1
  <1> HIDE DEF d, e
  <1>4. e >= 0
    <2>1. CHUNK * (e + 1) > 0
      BY <1>1, <1>3
    <2>2. \A a \in Nat, b \in Int : a * b > 0 => b > 0
      OBVIOUS
    <2> QED BY <2>1, <2>2, <1>1, <1>3
  <1>5. e <= d
    <2>1. CHUNK * (e - d) < CHUNK
      <3>1. CHUNK * (e - d) = CHUNK * e - CHUNK * d
        BY <1>1, <1>2, <1>3
      <3>2. CHUNK * e \in Int /\ CHUNK * d \in Int
        BY <1>1, <1>2, <1>3
      <3> QED BY <3>1, <3>2, <1>1, <1>2, <1>3
    <2>2. \A a \in Nat \ {0}, b \in Int : a * b < a => b < 1
      OBVIOUS
    <2>3. e - d \in Int
      BY <1>2, <1>3
    <2> QED BY <2>1, <2>2, <2>3, <1>1, <1>2, <1>3
  <1> QED BY <1>3, <1>4, <1>5 DEF d, e

\* What is posted for a block fits, and ends in the message.
LEMMA BlockRequestsIs ==
  ASSUME Fits, NEW n \in 0..BUFSZ, NEW b \in Int
  PROVE  LET wrs == BlockRequests(n, b) IN
         /\ wrs \in Sq /\ Len(wrs) \in Nat /\ Len(wrs) <= BUFSZ \div CHUNK + 1
         /\ Closes(wrs, Message("XFERRED", n))
  <1> DEFINE m == (n + CHUNK - 1) \div CHUNK
             ws == Writes(n, b)
             w == Message("XFERRED", n)
  <1>1. m \in Nat /\ m <= BUFSZ \div CHUNK
    BY ChunksFit
  <1>2. ws = [i \in 1..m |-> [op |-> "write", key |-> i, val |-> b]]
    BY DEF Writes
  <1>3. \A i \in 1..m : [op |-> "write", key |-> i, val |-> b] \in Request
    <2>1. \A i \in Nat : i \in Keys
      BY DEF Keys
    <2>2. \A i \in 1..m : i \in Keys
      BY <1>1, <2>1
    <2> QED BY <2>2 DEF Request
  <1> HIDE DEF m, ws
  <1>4. /\ ws \in Seq(Request) /\ Len(ws) = m
        /\ \A i \in 1..m : ws[i] = [op |-> "write", key |-> i, val |-> b]
    BY <1>1, <1>2, <1>3
  <1>5. w \in Request
    <2>1. "XFERRED" \in Keys
      BY DEF Keys
    <2>2. n \in Int
      BY DEF Fits
    <2> QED BY <2>1, <2>2, MessageIs
  <1> HIDE DEF w
  <1>6. /\ Append(ws, w) \in Seq(Request) /\ Len(Append(ws, w)) = m + 1
        /\ Append(ws, w)[m + 1] = w /\ \A i \in 1..m : Append(ws, w)[i] = ws[i]
    BY <1>1, <1>4, <1>5
  <1>7. BUFSZ \div CHUNK \in Int
    BY DepthIs
  <1>8. Closes(Append(ws, w), w)
    BY <1>1, <1>4, <1>6 DEF Closes
  <1> QED BY <1>1, <1>6, <1>7, <1>8 DEF BlockRequests, Sq, ws, w

LEMMA AddressInv == ASSUME Inv, Fits, AllAgreed, SAddress PROVE Inv'
  <1> DEFINE q == PostRecv(Polled(qs, "sync"), "sync")
             wrs == BlockRequests(Ob.blocks[s.blk + 1], qs.val)
  <1>1. s.pc = "address" /\ Returns(qs, "sync") /\ SKeeps
    BY DEF SAddress
  <1>2. r' = r /\ qr' = qr /\ link' = link /\ ring' = ring
    BY <1>1 DEF SKeeps, Memory
  <1>3. /\ Asked /\ Received(qs, "sync") /\ q \in QP /\ Awaits(q, "sync") /\ q.sq = <<>>
        /\ q.sc = <<>> /\ q.max = qs.max /\ ~q.err
    BY <1>1, SenderHears DEF Unconnected, SSends
  <1> HIDE DEF q
  <1>4. r.pc \in AddressPcs /\ r.want = Ob.want /\ Whole(s.blk)
    BY <1>1, <1>3 DEF Asked, Before, AtHeader, AtBlock
  <1>5. GotMessage(qs, "")
    BY <1>3 DEF GotMessage
  <1>6. /\ s.o > 0 /\ s.blk < Len(Ob.blocks) /\ Size > 0 /\ s.blk <= Len(Ob.blocks)
        /\ (Ob.want = 0 \/ s.sent = Upto[s.o][s.blk]) /\ s.o \in 0..Len(Obs)
        /\ qs.max = BUFSZ \div CHUNK + 1
        /\ qs.used = 0
    BY <1>1 DEF Inv, SenderFits, Unconnected
  <1>7. Size \in 0..BUFSZ /\ qs.val \in Int
    <2>1. qs \in QP
      BY DEF Inv, IbType
    <2>2. qs.val \in Int
      BY <2>1 DEF QP
    <2>3. s.blk \in Nat /\ Len(Ob.blocks) \in Nat
          /\ \A k \in 1..Len(Ob.blocks) : Ob.blocks[k] \in 0..BUFSZ
      BY <1>6, ObIs
    <2>4. s.blk + 1 \in 1..Len(Ob.blocks)
      BY <1>6, <2>3
    <2> QED BY <2>2, <2>3, <2>4 DEF Size
  <1>8. /\ wrs \in Sq /\ Len(wrs) \in Nat /\ Len(wrs) <= BUFSZ \div CHUNK + 1
        /\ Closes(wrs, Message("XFERRED", Size))
    BY <1>7, BlockRequestsIs DEF Size
  <1> HIDE DEF wrs
  <1>9. ~Full(qs, Len(wrs))
    BY <1>6, <1>8, DepthIs DEF Full
  <1>10. s' = At("blockSent") /\ qs' = Post(q, wrs)
    BY <1>5, <1>9 DEF SAddress, STo, q, wrs
  <1>11. /\ s' \in SType /\ s'.pc = "blockSent" /\ s'.o = s.o /\ s'.blk = s.blk
         /\ s'.sent = s.sent
    BY <1>10, AtIs DEF SPcs
  <1>12. /\ qs' \in QP /\ qs'.sq = wrs /\ qs'.sc = <<>> /\ Awaits(qs', "sync")
         /\ qs'.max = qs.max /\ ~qs'.err
    BY <1>3, <1>8, <1>10, PostIs DEF Awaits
  <1>13. Ob' = Ob /\ Size' = Size /\ Whole(s.blk)' = Whole(s.blk)
    BY <1>11 DEF Ob, Size, Whole
  <1>15. AnswerBlock'
    BY <1>2, <1>4, <1>8, <1>11, <1>12, <1>13 DEF AnswerBlock, Awaits, Closes, AddressPcs, Message
  <1>16. Stage'
    BY <1>2, <1>3, <1>12, <1>15, QuestionStays DEF Stage, Answering
  <1>17. SenderFits'
    BY <1>6, <1>11, <1>12, <1>13 DEF SenderFits, Unconnected
  <1>18. link # "req" /\ ~qs.err
    BY <1>1 DEF Inv, Connection, Sound
  <1> QED BY <1>1, <1>11, <1>12, <1>16, <1>17, <1>18, SStays DEF Unconnected

\* dbib_close always has to answer once more.
LEMMA CloseInv == ASSUME Inv, Fits, AllAgreed, SClose PROVE Inv'
  <1> DEFINE q == Polled(qs, "sync")
             w == Message("TO_XFER", 0)
  <1>1. s.pc = "close" /\ SKeeps
    BY DEF SClose
  <1>2. r' = r /\ qr' = qr /\ link' = link /\ ring' = ring
    BY <1>1 DEF SKeeps, Memory
  <1>3. /\ s.o > 0 /\ s.blk = Len(Ob.blocks) /\ s.blk <= Len(Ob.blocks)
        /\ (Ob.want = 0 \/ s.sent = Upto[s.o][s.blk]) /\ s.o \in 0..Len(Obs)
        /\ qs.max = BUFSZ \div CHUNK + 1
    BY <1>1 DEF Inv, SenderFits, Unconnected
  <1>4. Limit = 0 \/ s.sent # Limit
    BY <1>1, <1>3, NeverEnough, ObIs DEF Unconnected, Limit
  <1>5. Returns(qs, "sync")
    BY <1>4 DEF SClose
  <1>6. /\ Asked /\ Received(qs, "sync") /\ q \in QP /\ Neither(q) /\ q.sq = <<>>
        /\ q.sc = <<>> /\ q.max = qs.max /\ ~q.err
    BY <1>1, <1>5, SenderHears DEF Unconnected, SSends
  <1> HIDE DEF q
  <1>7. /\ r.pc \in SizePcs /\ qs.key = "READY" /\ r.want = Ob.want
        /\ InLoop => AllWhole
    BY <1>1, <1>6 DEF Asked, Before, AtHeader, AtAddress, SizePcs, AddressPcs
  <1>8. GotMessage(qs, "READY")
    BY <1>6, <1>7 DEF GotMessage
  <1>9. s' = At("endSent") /\ qs' = Post(q, <<w>>)
    BY <1>4, <1>8 DEF SClose, STo, q
  <1>10. /\ s' \in SType /\ s'.pc = "endSent" /\ s'.o = s.o /\ s'.blk = s.blk
         /\ s'.sent = s.sent
    BY <1>9, AtIs DEF SPcs
  <1>11. <<w>> \in Sq
    <2>1. "TO_XFER" \in Keys
      BY DEF Keys
    <2> QED BY <2>1, MessageIs
  <1> HIDE DEF w
  <1>12. /\ qs' \in QP /\ qs'.sq = <<w>> /\ qs'.sc = <<>> /\ Neither(qs')
         /\ qs'.max = qs.max /\ ~qs'.err
    BY <1>6, <1>9, <1>11, PostIs DEF Neither
  <1>13. InLoop => r.want = 0
    <2>1. SUFFICES ASSUME InLoop, Ob.want # 0 PROVE FALSE
      BY <1>7
    <2>2. PICK k \in 1..Len(Ob.blocks) : Ob.blocks[k] \notin {0, BUFSZ}
      BY <2>1, <1>1, NeverEnough DEF Unconnected
    <2>3. Whole(s.blk)
      BY <2>1, <1>1, <1>7 DEF AllWhole
    <2> QED BY <2>2, <2>3, <1>3 DEF Whole
  <1>14. InLoop' = InLoop
    BY <1>2, <1>6, QuestionStays
  <1>15. AnswerEnd'
    BY <1>2, <1>7, <1>10, <1>12, <1>13, <1>14 DEF AnswerEnd, Neither, SizePcs, w, Message
  <1>16. Stage'
    BY <1>2, <1>6, <1>12, <1>15, QuestionStays DEF Stage, Answering
  <1>17. SenderFits'
    BY <1>3, <1>10, <1>12 DEF SenderFits, Unconnected, Ob
  <1>18. link # "req" /\ ~qs.err
    BY <1>1 DEF Inv, Connection, Sound
  <1> QED BY <1>1, <1>10, <1>12, <1>16, <1>17, <1>18, SStays DEF Unconnected

-----------------------------------------------------------------------------
(* The adapters.                                                           *)

LEMMA SendNicInv == ASSUME Inv, Fits, AllAgreed, SendNic PROVE Inv'
  <1> DEFINE w == Head(qs.sq)
  <1>1. /\ link = "est" /\ qs.sq # <<>> /\ s' = s /\ r' = r /\ link' = link /\ ring' = ring
    BY DEF SendNic
  <1>2. Answering
    BY <1>1 DEF Inv, Stage, Connection, Apart, Between, Asking, Asked, Answered, GotEnd, Over,
       Gone, SQuiet
  <1>3. /\ ~qr.err /\ RQuiet /\ Awaits(qr, Box) /\ qs.sc = <<>>
        /\ AnswerHeader \/ AnswerSize \/ AnswerEnd \/ AnswerBlock
    BY <1>2 DEF Answering
  <1>4. /\ qs \in QP /\ qr \in QP /\ s \in SType /\ r \in RType /\ ring \in RingType
        /\ ~qs.err /\ qs.sq \in Seq(Request)
    BY DEF Inv, IbType, Sound, QP, Sq
  <1>5. w \in Request /\ w = qs.sq[1] /\ Len(qs.sq) \in Nat \ {0}
    <2> DEFINE sq == qs.sq
    <2>1. sq \in Seq(Request) /\ sq # <<>>
      BY <1>1, <1>4
    <2> HIDE DEF sq
    <2>2. Head(sq) \in Request /\ Head(sq) = sq[1] /\ Len(sq) \in Nat \ {0}
      BY <2>1, EmptySeq, HeadTailProperties
    <2> QED BY <2>2 DEF sq
  <1>6. /\ Ob' = Ob /\ Size' = Size /\ Whole(s.blk)' = Whole(s.blk) /\ AllWhole' = AllWhole
        /\ InLoop' = InLoop /\ Box' = Box
    BY <1>1 DEF Ob, Size, Whole, AllWhole, InLoop, Box
  <1>7. Box \in {"sync", "header"}
    BY DEF Box
  <1>8. ASSUME qs' \in QP, ~qs'.err, qs'.max = qs.max, qs'.used = qs.used, qr' \in QP,
               Stage', s.pc \in SSends
        PROVE  Inv'
    <2>1. IbType' /\ Connection' /\ Sound'
      BY <1>1, <1>4, <1>8 DEF IbType, Inv, Connection, Sound, SSends
    <2>2. SenderFits'
      BY <1>1, <1>6, <1>8 DEF Inv, SenderFits, SSends
    <2> QED BY <1>8, <2>1, <2>2 DEF Inv
  <1>9. ASSUME Len(qs.sq) = 1, w.op = "send", Box = "sync" => w.key # "HEADER"
        PROVE  /\ qs' \in QP /\ ~qs'.err /\ qs'.max = qs.max /\ qs'.used = qs.used
               /\ qs'.sq = <<>> /\ qs'.sc = <<"ok">> /\ qs'.rq = qs.rq /\ qs'.rc = qs.rc
               /\ qr' \in QP /\ Holds(qr, Box)' /\ ~qr'.err /\ RQuiet'
               /\ Box = "sync" => qr'.key = w.key /\ qr'.val = w.val
               /\ Box = "header" => qr'.hdr = w.val
    <2>1. qr.rq[1] = Box /\ qr.rq # <<>>
      BY <1>3 DEF Awaits
    <2>2. ~Misfit(qr, w)
      BY <1>9, <2>1 DEF Misfit
    <2>3. qs' = Done(qs) /\ qr' = Delivered(qr, w)
      BY <1>3, <1>9, <2>1, <2>2 DEF SendNic
    <2>4. /\ qs' \in QP /\ qs'.max = qs.max /\ qs'.used = qs.used /\ qs'.err = qs.err
          /\ qs'.sq = <<>> /\ qs'.sc = <<"ok">> /\ qs'.rq = qs.rq /\ qs'.rc = qs.rc
      BY <1>3, <1>4, <1>9, <2>3, DoneIs
    <2> HIDE DEF w
    <2>5. /\ qr' \in QP /\ Holds(qr', Box) /\ qr'.err = qr.err /\ qr'.sq = qr.sq
          /\ qr'.sc = qr.sc
          /\ Box = "sync" => qr'.key = w.key /\ qr'.val = w.val
          /\ Box = "header" => qr'.hdr = w.val
      BY <1>3, <1>4, <1>5, <1>7, <2>3, DeliveredIs
    <2> QED BY <1>1, <1>3, <1>4, <1>6, <2>4, <2>5 DEF RQuiet, Holds
  <1>10. CASE AnswerHeader
    <2>1. Len(qs.sq) = 1 /\ w = Message("HEADER", s.o) /\ Box = "header"
      BY <1>10, <1>5 DEF AnswerHeader, Box
    <2>2. w.op = "send" /\ w.val = s.o
      BY <2>1 DEF Message
    <2> HIDE DEF w
    <2>3. SQuiet' /\ Awaits(qs, "sync")'
      BY <1>1, <1>9, <1>10, <2>1, <2>2 DEF SQuiet, AnswerHeader, SSends, Awaits
    <2>4. AllWhole
      BY <1>10 DEF AnswerHeader, AllWhole, Whole
    <2>5. GotHeader'
      BY <1>1, <1>6, <1>9, <1>10, <2>1, <2>2, <2>4 DEF GotHeader, AnswerHeader, AtBlock
    <2>6. Stage'
      BY <1>1, <1>9, <2>1, <2>2, <2>3, <2>5 DEF Stage, Answered
    <2> QED BY <1>8, <1>9, <1>10, <2>1, <2>2, <2>6 DEF AnswerHeader, SSends
  <1>11. CASE AnswerSize
    <2>1. Len(qs.sq) = 1 /\ w = Message("TO_XFER", Size) /\ Box = "sync"
      BY <1>11, <1>5 DEF AnswerSize, Box, SizePcs, HeaderPcs
    <2>2. w.op = "send" /\ w.key = "TO_XFER" /\ w.val = Size
      BY <2>1 DEF Message
    <2> HIDE DEF w
    <2>3. SQuiet' /\ Awaits(qs, "sync")'
      BY <1>1, <1>9, <1>11, <2>1, <2>2 DEF SQuiet, AnswerSize, SSends, Awaits
    <2>4. GotSize'
      BY <1>1, <1>6, <1>9, <1>11, <2>1, <2>2 DEF GotSize, AnswerSize, AtAddress
    <2>5. Stage'
      BY <1>1, <1>9, <2>1, <2>2, <2>3, <2>4 DEF Stage, Answered
    <2> QED BY <1>8, <1>9, <1>11, <2>1, <2>2, <2>5 DEF AnswerSize, SSends
  <1>12. CASE AnswerEnd
    <2>1. Len(qs.sq) = 1 /\ w = Message("TO_XFER", 0) /\ Box = "sync"
      BY <1>12, <1>5 DEF AnswerEnd, Box, SizePcs, HeaderPcs
    <2>2. w.op = "send" /\ w.key = "TO_XFER" /\ w.val = 0
      BY <2>1 DEF Message
    <2> HIDE DEF w
    <2>3. SQuiet' /\ Neither(qs)'
      BY <1>1, <1>9, <1>12, <2>1, <2>2 DEF SQuiet, AnswerEnd, SSends, Neither
    <2>4. Gone'
      BY <1>1, <1>12, <2>3 DEF Gone, AnswerEnd, AtEnd
    <2>5. GotEnd'
      BY <1>1, <1>6, <1>9, <1>12, <2>1, <2>2, <2>4 DEF GotEnd, AnswerEnd
    <2>6. Stage'
      BY <1>1, <1>9, <2>1, <2>2, <2>5 DEF Stage, Answered
    <2> QED BY <1>8, <1>9, <1>12, <2>1, <2>2, <2>6 DEF AnswerEnd, SSends
  <1>13. CASE AnswerBlock
    <2>1. /\ Closes(qs.sq, Message("XFERRED", Size)) /\ Box = "sync" /\ s.pc = "blockSent"
          /\ Awaits(qs, "sync")
      BY <1>13 DEF AnswerBlock, Box, AddressPcs, HeaderPcs
    <2>2. CASE Len(qs.sq) = 1
      <3>1. w = Message("XFERRED", Size)
        BY <1>5, <2>1, <2>2 DEF Closes
      <3>2. w.op = "send" /\ w.key = "XFERRED" /\ w.val = Size
        BY <3>1 DEF Message
      <3> HIDE DEF w
      <3>3. SQuiet' /\ Awaits(qs, "sync")'
        BY <1>1, <1>9, <2>1, <2>2, <3>2 DEF SQuiet, SSends, Awaits
      <3>4. AllWhole \/ Size < BUFSZ
        <4>1. /\ s.o > 0 /\ s.blk < Len(Ob.blocks)
          BY <2>1 DEF Inv, SenderFits, Unconnected
        <4>2. Size \in 0..BUFSZ /\ s.blk \in Nat /\ BUFSZ \in Nat
          BY <4>1, ObIs DEF Size
        <4>3. Whole(s.blk)
          BY <1>13 DEF AnswerBlock
        <4> QED BY <2>1, <4>2, <4>3 DEF AllWhole, Whole, Size
      <3>5. GotBlock'
        BY <1>1, <1>6, <1>9, <1>13, <2>1, <2>2, <3>2, <3>4 DEF GotBlock, AnswerBlock, AtBlock
      <3>6. Stage'
        BY <1>1, <1>9, <2>1, <2>2, <3>2, <3>3, <3>5 DEF Stage, Answered
      <3> QED BY <1>8, <1>9, <2>1, <2>2, <3>2, <3>6 DEF SSends
    <2>3. CASE Len(qs.sq) # 1
      <3>1. w.op = "write"
        <4> DEFINE sq == qs.sq
        <4>1. /\ Len(sq) \in Nat \ {0} /\ Len(sq) # 1 /\ w = sq[1]
              /\ \A k \in 1..(Len(sq) - 1) : sq[k].op = "write"
          BY <1>5, <2>1, <2>3 DEF Closes
        <4> HIDE DEF sq, w
        <4>2. \A n \in Nat \ {0} : n # 1 => 1 \in 1..(n - 1)
          OBVIOUS
        <4> QED BY <4>1, <4>2
      <3>2. qs' = [qs EXCEPT !.sq = Tail(@)] /\ qr' = qr
        BY <3>1 DEF SendNic
      <3>3. /\ Tail(qs.sq) \in Seq(Request) /\ Len(Tail(qs.sq)) = Len(qs.sq) - 1
            /\ \A k \in 1..Len(Tail(qs.sq)) : Tail(qs.sq)[k] = qs.sq[k + 1]
        <4> DEFINE sq == qs.sq
        <4>1. sq \in Seq(Request) /\ sq # <<>>
          BY <1>1, <1>4
        <4> HIDE DEF sq
        <4>2. /\ Tail(sq) \in Seq(Request) /\ Len(Tail(sq)) = Len(sq) - 1
              /\ \A k \in 1..Len(Tail(sq)) : Tail(sq)[k] = sq[k + 1]
          BY <4>1, HeadTailProperties
        <4> QED BY <4>2 DEF sq
      <3>4. Tail(qs.sq) \in Sq
        BY <3>3 DEF Sq
      <3>5. /\ qs' \in QP /\ qs'.err = qs.err /\ qs'.max = qs.max /\ qs'.used = qs.used
            /\ qs'.sq = Tail(qs.sq) /\ qs'.sc = qs.sc /\ Awaits(qs', "sync")
        BY <1>4, <2>1, <3>2, <3>4 DEF QP, Awaits
      <3>6. Closes(Tail(qs.sq), Message("XFERRED", Size))
        <4> DEFINE u == Tail(qs.sq)
                   sq == qs.sq
                   m == Message("XFERRED", Size)
        <4>0. /\ Len(sq) \in Nat \ {0} /\ Len(sq) # 1 /\ Len(u) = Len(sq) - 1
              /\ \A k \in 1..Len(u) : u[k] = sq[k + 1]
          BY <1>5, <2>3, <3>3
        <4>2. sq[Len(sq)] = m /\ \A k \in 1..(Len(sq) - 1) : sq[k].op = "write"
          BY <2>1 DEF Closes
        <4> HIDE DEF u, sq, m
        <4>1. /\ Len(sq) \in Nat /\ Len(sq) > 1 /\ Len(u) = Len(sq) - 1
              /\ \A k \in 1..Len(u) : u[k] = sq[k + 1]
          BY <4>0
        <4>3. Len(u) > 0 /\ u[Len(u)] = m
          BY <4>1, <4>2
        <4>4. \A k \in 1..(Len(u) - 1) : u[k].op = "write"
          BY <4>1, <4>2
        <4> QED BY <4>3, <4>4 DEF Closes, u, m
      <3>7. AnswerBlock'
        BY <1>1, <1>6, <1>13, <3>5, <3>6 DEF AnswerBlock, Closes, Message, Awaits
      <3>8. RQuiet' /\ Awaits(qr, Box)' /\ ~qr'.err
        BY <1>1, <1>3, <1>6, <3>2 DEF RQuiet, Awaits
      <3>9. Stage'
        BY <1>1, <1>3, <3>5, <3>7, <3>8 DEF Stage, Answering
      <3> QED BY <1>4, <1>8, <2>1, <3>2, <3>5, <3>9 DEF SSends
    <2> QED BY <2>2, <2>3
  <1> QED BY <1>3, <1>10, <1>11, <1>12, <1>13

LEMMA RecvNicInv == ASSUME Inv, RecvNic PROVE Inv'
  <1> DEFINE w == Head(qr.sq)
  <1>1. /\ link = "est" /\ qr.sq # <<>> /\ s' = s /\ r' = r /\ link' = link /\ ring' = ring
    BY DEF RecvNic, Memory
  <1>2. Asking
    BY <1>1 DEF Inv, Stage, Apart, Between, Asked, Answering, Answered, Over, RQuiet
  <1>3. /\ qs \in QP /\ qr \in QP /\ s \in SType /\ r \in RType /\ ring \in RingType
        /\ ~qs.err /\ qr.sq \in Seq(Request)
    BY DEF Inv, IbType, Sound, QP, Sq
  <1>4. w \in Request /\ w = qr.sq[1]
    <2> DEFINE sq == qr.sq
    <2>1. sq \in Seq(Request) /\ sq # <<>>
      BY <1>1, <1>3
    <2> HIDE DEF sq
    <2>2. Head(sq) \in Request /\ Head(sq) = sq[1]
      BY <2>1, HeadTailProperties
    <2> QED BY <2>2 DEF sq
  <1>5. /\ Len(qr.sq) = 1 /\ Question(w) /\ qr.sc = <<>> /\ ~qr.err /\ Awaits(qr, Box)
        /\ SQuiet /\ Awaits(qs, "sync") /\ Before /\ r.pc \in RSends
    BY <1>2, <1>4 DEF Asking
  <1>6. qr' = Done(qr) /\ qs' = Delivered(qs, w)
    BY <1>3, <1>5 DEF RecvNic, Awaits
  <1>7. /\ qr' \in QP /\ qr'.sq = <<>> /\ qr'.sc = <<"ok">> /\ qr'.rq = qr.rq
        /\ qr'.rc = qr.rc /\ qr'.err = qr.err
    BY <1>3, <1>5, <1>6, DoneIs
  <1> HIDE DEF w
  <1>8. /\ qs' \in QP /\ Holds(qs', "sync") /\ qs'.sq = qs.sq /\ qs'.sc = qs.sc
        /\ qs'.max = qs.max /\ qs'.used = qs.used /\ qs'.err = qs.err
        /\ qs'.key = w.key /\ qs'.val = w.val
    BY <1>3, <1>4, <1>5, <1>6, DeliveredIs
  <1>9. Ob' = Ob /\ InLoop' = InLoop /\ AllWhole' = AllWhole /\ Whole(s.blk)' = Whole(s.blk)
        /\ Box' = Box /\ Size' = Size
    BY <1>1 DEF Ob, InLoop, AllWhole, Whole, Box, Size
  <1>10. Before'
    BY <1>1, <1>5, <1>9 DEF Before
  <1>11. RQuiet' /\ Awaits(qr, Box)' /\ SQuiet' /\ Holds(qs, "sync")'
    BY <1>1, <1>5, <1>7, <1>8, <1>9 DEF RQuiet, Awaits, SQuiet, Holds
  <1>12. Asked'
    BY <1>1, <1>5, <1>7, <1>8, <1>10, <1>11 DEF Asked, Question
  <1>13. IbType' /\ Sound'
    BY <1>1, <1>3, <1>7, <1>8 DEF IbType, Inv, Sound
  <1>14. Connection'
    BY <1>1 DEF Inv, Connection, Unconnected
  <1>15. ~Neither(qs)
    BY <1>5 DEF Awaits, Neither
  <1>16. SenderFits'
    BY <1>1, <1>8, <1>9, <1>15 DEF Inv, SenderFits
  <1> QED BY <1>12, <1>13, <1>14, <1>16 DEF Inv, Stage

-----------------------------------------------------------------------------
(* The steps of dada_ibdb.                                                 *)

LEMMA RAtIs ==
  ASSUME Inv, NEW p \in RPcs
  PROVE  /\ RAt(p) \in RType /\ RAt(p).pc = p /\ RAt(p).want = r.want /\ RAt(p).got = r.got
         /\ RAt(p).ending = r.ending /\ RAt(p).open = r.open /\ RAt(p).err = r.err
  BY DEF Inv, IbType, RType, RAt

\* What is left to show for such a step.
LEMMA RStays ==
  ASSUME Inv, s' = s, qs' = qs, link' = link, r' \in RType, qr' \in QP, ring' \in RingType,
         Stage', ~r'.err,
         r'.pc \in HeaderPcs \cup SizePcs \cup AddressPcs \cup {"loop"} => ~r'.ending
  PROVE  Inv'
  <1>1. IbType' /\ Sound'
    BY DEF Inv, IbType, Sound
  <1>2. Connection'
    BY DEF Inv, Connection, Awaits
  <1>3. SenderFits'
    BY DEF Inv, SenderFits, Ob, Size, Neither
  <1> QED BY <1>1, <1>2, <1>3 DEF Inv

\* What depends on dada_dbib alone.
LEMMA SenderStays ==
  ASSUME s' = s, qs' = qs
  PROVE  /\ SQuiet' = SQuiet /\ AllWhole' = AllWhole /\ Whole(s.blk)' = Whole(s.blk)
         /\ Ob' = Ob /\ Size' = Size /\ Gone' = Gone /\ Awaits(qs, "sync")' = Awaits(qs, "sync")
  BY DEF SQuiet, AllWhole, Whole, Ob, Size, Gone, Neither, Awaits

\* A completion has come: it is the only one, and it is good.
LEMMA ReceiverPolls ==
  ASSUME Inv, r.pc \in RSends, SendReturns(qr)
  PROVE  /\ RQuiet /\ Sent(qr) /\ SendPolled(qr) \in QP
         /\ LET z == SendPolled(qr) IN
            /\ z.sc = <<>> /\ z.sq = <<>> /\ z.rq = qr.rq /\ z.rc = qr.rc
            /\ z.err = qr.err /\ z.key = qr.key /\ z.val = qr.val /\ z.hdr = qr.hdr
  <1>1. ~Asking
    BY DEF Asking, SendReturns
  <1>2. RQuiet
    BY <1>1 DEF Inv, Stage, Apart, Between, Asked, Answering, Answered, Over, RSends
  <1>3. qr.sc = <<"ok">> /\ qr.sq = <<>>
    BY <1>2 DEF RQuiet
  <1>4. Sent(qr)
    BY <1>3 DEF Sent
  <1>5. qr \in QP
    BY DEF Inv, IbType
  <1> QED BY <1>2, <1>3, <1>4, <1>5, SendPolledIs

LEMMA SentInv ==
  ASSUME Inv, NEW p, NEW n, RSent(p, n),
         <<p, n>> \in {<<"headerReady", "headerWait">>, <<"ready", "size">>,
                       <<"addressSent", "data">>, <<"closeReady", "closeSize">>}
  PROVE  Inv'
  <1>1. /\ r.pc = p /\ SendReturns(qr) /\ qr' = SendPolled(qr) /\ ring' = ring /\ s' = s
        /\ qs' = qs /\ link' = link /\ RTo(Sent(qr), RAt(n))
    BY DEF RSent, RKeeps
  <1>2. p \in RSends /\ n \in RPcs /\ n \notin RSends
    BY DEF RSends, RPcs
  <1>3. r' = RAt(n)
    BY <1>1, <1>2, ReceiverPolls DEF RTo
  <1>4. /\ r' \in RType /\ r'.pc = n /\ r'.want = r.want /\ r'.ending = r.ending
        /\ r'.err = r.err
    BY <1>2, <1>3, RAtIs
  <1>5. RQuiet'
    BY <1>1, <1>2, <1>4, ReceiverPolls DEF RQuiet
  <1>6. Stage'
    BY <1>1, <1>2, <1>4, <1>5, ReceiverPolls, RMove
  <1>7. ~r'.err /\ ~r'.ending /\ ring \in RingType
    BY <1>1, <1>4 DEF Inv, Sound, IbType, HeaderPcs, SizePcs, AddressPcs
  <1> QED BY <1>1, <1>2, <1>4, <1>6, <1>7, ReceiverPolls, RStays

\* A message has come: it is the answer.
LEMMA ReceiverHears ==
  ASSUME Inv, r.pc \in {"headerWait", "size", "data", "closeSize"}, Returns(qr, Box)
  PROVE  /\ Answered /\ Received(qr, Box)
         /\ LET z == Polled(qr, Box) IN
            /\ z \in QP /\ Neither(z) /\ z.sq = <<>> /\ z.sc = <<>> /\ z.err = qr.err
            /\ z.key = qr.key /\ z.val = qr.val /\ z.hdr = qr.hdr
  <1>1. ~(qr.rc = <<>>)
    BY DEF Returns
  <1>2. Answered
    BY <1>1 DEF Inv, Stage, Apart, Between, Asking, Asked, Answering, Over, Awaits, RSends
  <1>3. Holds(qr, Box) /\ qr.sq = <<>> /\ qr.sc = <<>>
    BY <1>2 DEF Answered, RQuiet, RSends
  <1>4. Received(qr, Box)
    BY <1>3 DEF Holds, Received
  <1>5. qr \in QP
    BY DEF Inv, IbType
  <1> QED BY <1>2, <1>3, <1>4, <1>5, PolledIs

LEMMA ListenInv == ASSUME Inv, RListen PROVE Inv'
  <1>1. /\ r.pc = "off" /\ r' = RAt("listen") /\ qr' = qr /\ ring' = ring /\ s' = s
        /\ qs' = qs /\ link' = link
    BY DEF RListen, RKeeps
  <1>2. /\ r' \in RType /\ r'.pc = "listen" /\ r'.err = r.err
    BY <1>1, RAtIs DEF RPcs
  <1>3. Apart
    BY <1>1 DEF Inv, Stage, Between, Asking, Asked, Before, Answering, AnswerHeader, AnswerSize,
       AnswerEnd, AnswerBlock, Answered, GotHeader, GotSize, GotBlock, GotEnd, Over, RSends,
       HeaderPcs, SizePcs, AddressPcs
  <1>4. Apart'
    BY <1>1, <1>2, <1>3, SenderStays DEF Apart
  <1>5. /\ qr \in QP /\ ring \in RingType /\ ~r'.err
        /\ r'.pc \notin HeaderPcs \cup SizePcs \cup AddressPcs \cup {"loop"}
    BY <1>2 DEF Inv, IbType, Sound, HeaderPcs, SizePcs, AddressPcs
  <1> QED BY <1>1, <1>2, <1>4, <1>5, RStays DEF Stage

LEMMA RequestInv == ASSUME Inv, RRequest PROVE Inv'
  <1>1. /\ r.pc = "listen" /\ link = "req" /\ r' = RAt("open") /\ qr' = NewQP(1)
        /\ ring' = ring /\ s' = s /\ qs' = qs /\ link' = link
    BY DEF RRequest, RKeeps
  <1>2. /\ r' \in RType /\ r'.pc = "open" /\ r'.err = r.err
    BY <1>1, RAtIs DEF RPcs
  <1>3. Apart
    BY <1>1 DEF Inv, Stage, Between, Asking, Asked, Answering, Answered, GotEnd, Over
  <1>4. qr' \in QP /\ Neither(qr') /\ qr'.sq = <<>> /\ qr'.sc = <<>> /\ ~qr'.err
    BY <1>1, NewQPIs
  <1>5. Apart'
    BY <1>1, <1>2, <1>3, <1>4, SenderStays DEF Apart, RQuiet, Neither, RSends
  <1>6. /\ ring \in RingType /\ ~r'.err
        /\ r'.pc \notin HeaderPcs \cup SizePcs \cup AddressPcs \cup {"loop"}
    BY <1>2 DEF Inv, IbType, Sound, HeaderPcs, SizePcs, AddressPcs
  <1> QED BY <1>1, <1>2, <1>4, <1>5, <1>6, RStays DEF Stage

LEMMA OpenInv == ASSUME Inv, ROpen PROVE Inv'
  <1>1. /\ r.pc = "open" /\ r' = [r EXCEPT !.pc = "accept", !.want = 0, !.got = 0]
        /\ qr' = PostRecv(qr, "header") /\ ring' = ring /\ s' = s /\ qs' = qs /\ link' = link
    BY DEF ROpen, RKeeps
  <1>2. /\ r' \in RType /\ r'.pc = "accept" /\ r'.err = r.err
    <2> DEFINE r1 == [r EXCEPT !.pc = "accept"]
               r2 == [r1 EXCEPT !.want = 0]
    <2>1. r1 \in RType /\ r1.pc = "accept" /\ r1.err = r.err
      BY DEF Inv, IbType, RType, RPcs
    <2> HIDE DEF r1
    <2>2. r2 \in RType /\ r2.pc = "accept" /\ r2.err = r.err
      BY <2>1 DEF RType
    <2> HIDE DEF r2
    <2>3. LET r3 == [r2 EXCEPT !.got = 0] IN
          r3 \in RType /\ r3.pc = "accept" /\ r3.err = r.err
      BY <2>2 DEF RType
    <2> QED BY <1>1, <2>3 DEF r1, r2
  <1>3. Apart
    BY <1>1 DEF Inv, Stage, Between, Asking, Asked, Before, Answering, AnswerHeader, AnswerSize,
       AnswerEnd, AnswerBlock, Answered, GotHeader, GotSize, GotBlock, GotEnd, Over, RSends,
       HeaderPcs, SizePcs, AddressPcs
  <1>4. Neither(qr) /\ qr.sq = <<>> /\ qr.sc = <<>> /\ ~qr.err /\ qr \in QP /\ link = "req"
    BY <1>1, <1>3 DEF Apart, RQuiet, RSends, Inv, IbType
  <1>5. /\ qr' \in QP /\ Awaits(qr', "header") /\ qr'.sq = <<>> /\ qr'.sc = <<>>
        /\ ~qr'.err
    BY <1>1, <1>4, PostRecvIs
  <1>6. Apart'
    BY <1>1, <1>2, <1>3, <1>4, <1>5, SenderStays DEF Apart, RQuiet, Awaits, RSends
  <1>7. /\ ring \in RingType /\ ~r'.err
        /\ r'.pc \notin HeaderPcs \cup SizePcs \cup AddressPcs \cup {"loop"}
    BY <1>2 DEF Inv, IbType, Sound, HeaderPcs, SizePcs, AddressPcs
  <1> QED BY <1>1, <1>2, <1>5, <1>6, <1>7, RStays DEF Stage

\* The connection stands: both receives are posted.
LEMMA AcceptInv == ASSUME Inv, RAccept PROVE Inv'
  <1>1. /\ r.pc = "accept" /\ r' = RAt("header") /\ qr' = qr /\ ring' = ring /\ s' = s
        /\ qs' = qs /\ link' = "est"
    BY DEF RAccept, Memory
  <1>2. /\ r' \in RType /\ r'.pc = "header" /\ r'.err = r.err
    BY <1>1, RAtIs DEF RPcs
  <1>3. Apart
    BY <1>1 DEF Inv, Stage, Between, Asking, Asked, Before, Answering, AnswerHeader, AnswerSize,
       AnswerEnd, AnswerBlock, Answered, GotHeader, GotSize, GotBlock, GotEnd, Over, RSends,
       HeaderPcs, SizePcs, AddressPcs
  <1>4. link = "req" /\ s.pc = "request" /\ Awaits(qr, "header") /\ RQuiet /\ ~qr.err
    BY <1>1, <1>3 DEF Apart, Inv, Connection
  <1>5. Awaits(qs, "sync") /\ SQuiet
    BY <1>3, <1>4 DEF Apart
  <1>6. Box' = "header"
    BY <1>2 DEF Box
  <1>7. RQuiet' /\ Awaits(qr, Box)'
    BY <1>1, <1>2, <1>4, <1>6 DEF RQuiet, Awaits, RSends
  <1>8. Between'
    BY <1>1, <1>2, <1>4, <1>5, <1>7, SenderStays DEF Between, AtHeader
  <1>9. IbType' /\ Sound'
    BY <1>1, <1>2 DEF Inv, IbType, Sound, HeaderPcs, SizePcs, AddressPcs
  <1>10. Connection'
    BY <1>1, <1>4 DEF Connection, Unconnected
  <1>11. SenderFits'
    BY <1>1 DEF Inv, SenderFits, Ob, Size, Neither
  <1> QED BY <1>8, <1>9, <1>10, <1>11 DEF Inv, Stage

\* A question is posted.
LEMMA AskingNext ==
  ASSUME Between, qr \in QP, NEW w \in Request, qr' = Post(qr, <<w>>), s' = s, qs' = qs,
         link' = link, r'.pc \in RSends, Box' = Box,
         w.op = "send", r'.pc \notin AddressPcs => w.key = "READY" /\ w.val = 0,
         r.pc \notin RSends, Before'
  PROVE  Asking' /\ qr' \in QP
  <1>1. qr.sq = <<>> /\ qr.sc = <<>> /\ ~qr.err /\ Awaits(qr, Box) /\ SQuiet
        /\ Awaits(qs, "sync") /\ link = "est"
    BY DEF Between, RQuiet
  <1>2. <<w>> \in Sq /\ Len(<<w>>) = 1 /\ <<w>>[1] = w
    BY OneRequest
  <1>3. /\ qr' \in QP /\ qr'.sq = <<w>> /\ qr'.sc = <<>> /\ qr'.rq = qr.rq
        /\ qr'.rc = qr.rc /\ ~qr'.err
    BY <1>1, <1>2, PostIs
  <1>4. Awaits(qr, Box)'
    BY <1>1, <1>3 DEF Awaits
  <1>5. Question(qr.sq[1])' /\ Len(qr'.sq) = 1
    BY <1>2, <1>3 DEF Question
  <1> QED BY <1>1, <1>3, <1>4, <1>5, SenderStays DEF Asking

LEMMA HeaderReadyInv == ASSUME Inv, RHeaderReady PROVE Inv'
  <1> DEFINE w == Message("READY", 0)
  <1>1. /\ r.pc = "header" /\ r' = [r EXCEPT !.pc = "headerReady", !.ending = FALSE]
        /\ qr' = Post(qr, <<w>>) /\ ring' = ring /\ s' = s /\ qs' = qs /\ link' = link
    BY DEF RHeaderReady, RKeeps
  <1>2. /\ r' \in RType /\ r'.pc = "headerReady" /\ r'.err = r.err /\ ~r'.ending
    BY <1>1 DEF Inv, IbType, RType, RPcs
  <1>3. Between /\ s.pc \in AtHeader
    BY <1>1 DEF Inv, Stage, Apart, Between, Asking, Asked, Before, Answering, AnswerHeader,
       AnswerSize, AnswerEnd, AnswerBlock, Answered, GotHeader, GotSize, GotBlock, GotEnd, Over,
       RSends, HeaderPcs, SizePcs, AddressPcs
  <1>4. Box' = Box /\ Before' /\ r'.pc \in RSends /\ r.pc \notin RSends
    BY <1>1, <1>2, <1>3 DEF Box, Before, HeaderPcs, RSends
  <1>5. w \in Request /\ w.op = "send" /\ w.key = "READY" /\ w.val = 0
    BY DEF Message, Request, Keys
  <1> HIDE DEF w
  <1>6. qr \in QP /\ ring \in RingType /\ ~r'.err
    BY <1>2 DEF Inv, IbType, Sound
  <1>7. Asking' /\ qr' \in QP
    BY <1>1, <1>3, <1>4, <1>5, <1>6, AskingNext
  <1> QED BY <1>1, <1>2, <1>6, <1>7, RStays DEF Stage

\* dada_ibdb is ready to ask again.
LEMMA BetweenNext ==
  ASSUME link = "est", SQuiet, Awaits(qs, "sync"), s' = s, qs' = qs, link' = link,
         NEW q \in QP, ~q.err, Neither(q), q.sq = <<>>, q.sc = <<>>, qr' = PostRecv(q, "sync"),
         \/ r'.pc = "loop" /\ s.pc \in AtBlock /\ r'.want = Ob.want /\ AllWhole
         \/ r'.pc = "close" /\ ~r'.ending /\ s.pc \in AtBlock /\ r'.want = Ob.want
  PROVE  Between' /\ qr' \in QP
  <1>1. /\ qr' \in QP /\ Awaits(qr', "sync") /\ qr'.sq = <<>> /\ qr'.sc = <<>> /\ ~qr'.err
    BY PostRecvIs
  <1>2. Box' = "sync" /\ r'.pc \notin RSends
    BY DEF Box, HeaderPcs, RSends
  <1>3. RQuiet' /\ Awaits(qr, Box)'
    BY <1>1, <1>2 DEF RQuiet, Awaits
  <1> QED BY <1>1, <1>3, SenderStays DEF Between

LEMMA GotHeaderInv == ASSUME Inv, Fits, AllAgreed, RHeader PROVE Inv'
  <1> DEFINE q == Polled(qr, "header")
  <1>1. /\ r.pc = "headerWait" /\ Returns(qr, "header") /\ ring' = ring /\ s' = s
        /\ qs' = qs /\ link' = link /\ Box = "header"
    BY DEF RHeader, RKeeps, Box, HeaderPcs
  <1>2. /\ Answered /\ Received(qr, "header") /\ q \in QP /\ Neither(q) /\ q.sq = <<>>
        /\ q.sc = <<>> /\ q.err = qr.err
    BY <1>1, ReceiverHears
  <1> HIDE DEF q
  <1>3. /\ link = "est" /\ ~qr.err /\ SQuiet /\ Awaits(qs, "sync") /\ GotHeader
    BY <1>1, <1>2 DEF Answered, GotSize, GotBlock, GotEnd, SizePcs, AddressPcs
  <1>4. /\ s.pc \in AtBlock /\ qr.hdr = s.o /\ AllWhole /\ ~r.ending /\ ~r.err
    BY <1>1, <1>3 DEF GotHeader, Inv, Sound, HeaderPcs
  <1>5. s.o > 0
    BY <1>4 DEF Inv, SenderFits, AtBlock, Unconnected
  <1>6. Ob.want \in Nat
    BY <1>5, ObIs
  <1>7. r' = [r EXCEPT !.pc = "loop", !.want = Ob.want] /\ qr' = PostRecv(q, "sync")
    BY <1>2, <1>4 DEF RHeader, RTo, Ob, q
  <1>8. /\ r' \in RType /\ r'.pc = "loop" /\ r'.want = Ob.want /\ r'.ending = r.ending
        /\ r'.err = r.err
    BY <1>6, <1>7 DEF Inv, IbType, RType, RPcs
  <1>9. Between' /\ qr' \in QP
    BY <1>1, <1>2, <1>3, <1>4, <1>7, <1>8, BetweenNext
  <1>10. ring \in RingType
    BY DEF Inv, IbType
  <1> QED BY <1>1, <1>4, <1>8, <1>9, <1>10, RStays DEF Stage

LEMMA LoopsInv == ASSUME Inv, RLoop PROVE Inv'
  <1> DEFINE w == Message("READY", 0)
  <1>1. /\ r.pc = "loop" /\ ring' = ring /\ s' = s /\ qs' = qs /\ link' = link
    BY DEF RLoop, RKeeps
  <1>2. Between /\ s.pc \in AtBlock /\ r.want = Ob.want /\ AllWhole
    BY <1>1 DEF Inv, Stage, Apart, Between, Asking, Asked, Before, Answering, AnswerHeader,
       AnswerSize, AnswerEnd, AnswerBlock, Answered, GotHeader, GotSize, GotBlock, GotEnd, Over,
       RSends, HeaderPcs, SizePcs, AddressPcs
  <1>3. ~r.ending /\ ~r.err /\ qr \in QP /\ ring \in RingType
    BY <1>1 DEF Inv, Sound, IbType
  <1>4. CASE r' = RAt("close") /\ qr' = qr
    <2>1. /\ r' \in RType /\ r'.pc = "close" /\ r'.want = r.want /\ r'.ending = r.ending
          /\ r'.err = r.err
      BY <1>4, RAtIs DEF RPcs
    <2>2. Box' = Box
      BY <1>1, <2>1 DEF Box, HeaderPcs
    <2>3. RQuiet' /\ Awaits(qr, Box)'
      BY <1>1, <1>2, <1>4, <2>1, <2>2 DEF Between, RQuiet, Awaits, RSends
    <2>4. Between'
      BY <1>1, <1>2, <1>3, <1>4, <2>1, <2>3, SenderStays DEF Between
    <2> QED BY <1>1, <1>3, <1>4, <2>1, <2>4, RStays DEF Stage
  <1>5. CASE r' = [r EXCEPT !.pc = "ready", !.open = TRUE] /\ qr' = Post(qr, <<w>>)
    <2>1. /\ r' \in RType /\ r'.pc = "ready" /\ r'.want = r.want /\ r'.ending = r.ending
          /\ r'.err = r.err
      BY <1>5 DEF Inv, IbType, RType, RPcs
    <2>2. Box' = Box /\ r'.pc \in RSends /\ r.pc \notin RSends /\ r'.pc \in SizePcs
      BY <1>1, <2>1 DEF Box, HeaderPcs, RSends, SizePcs
    <2>3. Before'
      BY <1>1, <1>2, <2>1, <2>2, SenderStays DEF Before
    <2>4. w \in Request /\ w.op = "send" /\ w.key = "READY" /\ w.val = 0
      BY DEF Message, Request, Keys
    <2> HIDE DEF w
    <2>5. Asking' /\ qr' \in QP
      BY <1>1, <1>2, <1>3, <1>5, <2>2, <2>3, <2>4, AskingNext
    <2> QED BY <1>1, <1>3, <2>1, <2>5, RStays DEF Stage
  <1> QED BY <1>4, <1>5 DEF RLoop

\* A count is put at the end of the counts.
LEMMA RingIs ==
  ASSUME Inv, NEW n \in Int
  PROVE  /\ [ring EXCEPT !.n = Append(@, n)] \in RingType
         /\ [ring EXCEPT !.n = Append(@, n), !.got = @ + n] \in RingType
  <1>1. ring \in RingType /\ Append(ring.n, n) \in Seq(Int) /\ ring.got + n \in Int
    BY DEF Inv, IbType, RingType
  <1> DEFINE t == Append(ring.n, n)
  <1>2. [ring EXCEPT !.n = Append(@, n)] = [ring EXCEPT !.n = t]
    OBVIOUS
  <1>3. [ring EXCEPT !.n = Append(@, n), !.got = @ + n]
          = [ring EXCEPT !.n = t, !.got = ring.got + n]
    OBVIOUS
  <1> HIDE DEF t
  <1> DEFINE Counts == Seq(Int)
  <1>4. t \in Counts /\ ring \in [n : Counts, read : Int, got : Int]
    BY <1>1 DEF t, RingType
  <1> HIDE DEF Counts
  <1>5. [ring EXCEPT !.n = t] \in [n : Counts, read : Int, got : Int]
    BY <1>4
  <1>6. [ring EXCEPT !.n = t, !.got = ring.got + n] \in [n : Counts, read : Int, got : Int]
    BY <1>1, <1>4
  <1> QED BY <1>2, <1>3, <1>5, <1>6 DEF RingType, Counts

LEMMA SizeInv == ASSUME Inv, Fits, AllAgreed, RSize PROVE Inv'
  <1> DEFINE q == Polled(qr, "sync")
  <1>1. /\ r.pc = "size" /\ Returns(qr, "sync") /\ s' = s /\ qs' = qs /\ link' = link
        /\ Box = "sync"
    BY DEF RSize, RKeeps, Box, HeaderPcs
  <1>2. /\ Answered /\ Received(qr, "sync") /\ q \in QP /\ Neither(q) /\ q.sq = <<>>
        /\ q.sc = <<>> /\ q.err = qr.err
    BY <1>1, ReceiverHears
  <1> HIDE DEF q
  <1>3. GotSize \/ GotEnd
    BY <1>1, <1>2 DEF Answered, GotHeader, GotBlock, HeaderPcs, AddressPcs
  <1>4. GotMessage(qr, "TO_XFER")
    BY <1>2, <1>3 DEF GotMessage, GotSize, GotEnd
  <1>5. ~r.ending /\ ~r.err /\ ring \in RingType /\ InLoop
    BY <1>1 DEF Inv, Sound, IbType, SizePcs, InLoop
  <1>6. CASE GotSize
    <2> DEFINE w == Message("ADDRESS", Len(ring.n) % NBUFS)
               p == PostRecv(q, "sync")
    <2>1. /\ s.pc \in AtAddress /\ r.want = Ob.want /\ Whole(s.blk) /\ qr.val = Size
      BY <1>5, <1>6 DEF GotSize
    <2>2. s.o > 0 /\ s.blk < Len(Ob.blocks) /\ Size > 0
      BY <2>1 DEF Inv, SenderFits, AtAddress, Unconnected
    <2>3. Size \in Nat
      BY <2>2, ObIs, SMTT(30) DEF Size
    <2>4. /\ link = "est" /\ ~qr.err /\ SQuiet /\ Awaits(qs, "sync")
      BY <1>2, <2>1 DEF Answered, GotEnd, Gone, AtEnd, AtAddress, Unconnected
    <2>5. r' = RAt("addressSent") /\ qr' = Post(p, <<w>>) /\ ring' = ring
      BY <1>4, <2>1, <2>2, <2>3 DEF RSize, RTo, Answer, q
    <2>6. /\ r' \in RType /\ r'.pc = "addressSent" /\ r'.want = r.want
          /\ r'.ending = r.ending /\ r'.err = r.err
      BY <2>5, RAtIs DEF RPcs
    <2>7. /\ p \in QP /\ Awaits(p, "sync") /\ p.sq = <<>> /\ p.sc = <<>> /\ ~p.err
      BY <1>2, <2>4, PostRecvIs
    <2> HIDE DEF p
    <2>8. w \in Request /\ w.op = "send"
      <3>1. Len(ring.n) \in Nat /\ NBUFS \in Nat \ {0}
        BY <1>5 DEF RingType, Fits
      <3>2. Len(ring.n) % NBUFS \in Int
        BY <3>1
      <3>3. "ADDRESS" \in Keys
        BY DEF Keys
      <3> QED BY <3>2, <3>3, MessageIs DEF Message
    <2> HIDE DEF w
    <2>9. <<w>> \in Sq /\ Len(<<w>>) = 1 /\ <<w>>[1] = w
      BY <2>8, OneRequest
    <2>10. /\ qr' \in QP /\ qr'.sq = <<w>> /\ qr'.sc = <<>> /\ qr'.rq = p.rq
           /\ qr'.rc = p.rc /\ ~qr'.err
      BY <2>5, <2>7, <2>9, PostIs
    <2>11. Box' = "sync" /\ r'.pc \in RSends /\ r'.pc \in AddressPcs
      BY <2>6 DEF Box, HeaderPcs, RSends, AddressPcs
    <2>12. Awaits(qr, Box)' /\ Question(qr.sq[1])' /\ Len(qr'.sq) = 1
      BY <2>7, <2>8, <2>9, <2>10, <2>11 DEF Awaits, Question
    <2>13. Before'
      BY <1>1, <2>1, <2>6, <2>11, SenderStays DEF Before
    <2>14. Asking'
      BY <1>1, <2>4, <2>10, <2>11, <2>12, <2>13, SenderStays DEF Asking
    <2> QED BY <1>1, <1>5, <2>5, <2>6, <2>10, <2>14, RStays DEF Stage
  <1>7. CASE GotEnd
    <2>1. qr.val = 0 /\ r.want = 0 /\ Gone /\ link \in {"est", "down"}
      BY <1>5, <1>7 DEF GotEnd
    <2>2. /\ r' = [r EXCEPT !.pc = "close", !.ending = TRUE, !.open = FALSE] /\ qr' = q
          /\ ring' = [ring EXCEPT !.n = Append(@, 0)]
      BY <1>4, <2>1 DEF RSize, RTo, q
    <2>3. /\ r' \in RType /\ r'.pc = "close" /\ r'.want = r.want /\ r'.ending
          /\ r'.err = r.err
      BY <2>2 DEF Inv, IbType, RType, RPcs
    <2>4. ring' \in RingType
      <3>1. 0 \in Int
        OBVIOUS
      <3>2. [ring EXCEPT !.n = Append(@, 0)] \in RingType
        BY <3>1, RingIs, Zenon
      <3> QED BY <2>2, <3>2
    <2>5. Neither(qr)' /\ RQuiet'
      BY <1>2, <2>2, <2>3 DEF Neither, RQuiet, RSends
    <2>6. Over'
      BY <1>1, <2>1, <2>3, <2>5, SenderStays DEF Over
    <2>7. r'.pc \notin HeaderPcs \cup SizePcs \cup AddressPcs \cup {"loop"}
      BY <2>3 DEF HeaderPcs, SizePcs, AddressPcs
    <2> QED BY <1>1, <1>2, <1>5, <2>2, <2>3, <2>4, <2>6, <2>7, RStays DEF Stage
  <1> QED BY <1>3, <1>6, <1>7

LEMMA DataInv == ASSUME Inv, Fits, AllAgreed, RData PROVE Inv'
  <1> DEFINE q == Polled(qr, "sync")
             next == IF qr.val < BUFSZ THEN "close" ELSE "loop"
  <1>1. /\ r.pc = "data" /\ Returns(qr, "sync") /\ s' = s /\ qs' = qs /\ link' = link
        /\ Box = "sync"
    BY DEF RData, RKeeps, Box, HeaderPcs
  <1>2. /\ Answered /\ Received(qr, "sync") /\ q \in QP /\ Neither(q) /\ q.sq = <<>>
        /\ q.sc = <<>> /\ q.err = qr.err
    BY <1>1, ReceiverHears
  <1> HIDE DEF q
  <1>3. /\ link = "est" /\ ~qr.err /\ SQuiet /\ Awaits(qs, "sync") /\ GotBlock
    BY <1>1, <1>2 DEF Answered, GotHeader, GotSize, GotEnd, SizePcs, HeaderPcs
  <1>4. /\ s.pc \in AtBlock /\ r.want = Ob.want
        /\ AllWhole \/ qr.val < BUFSZ
        /\ GotMessage(qr, "XFERRED")
    BY <1>2, <1>3 DEF GotBlock, GotMessage
  <1>5. ~r.ending /\ ~r.err /\ ring \in RingType /\ r.got \in Int /\ qr.val \in Int
    BY <1>1 DEF Inv, Sound, IbType, AddressPcs, RType, QP
  <1>6. /\ r' = [r EXCEPT !.pc = next, !.got = @ + qr.val, !.open = FALSE]
        /\ qr' = PostRecv(q, "sync")
        /\ ring' = [ring EXCEPT !.n = Append(@, qr.val), !.got = @ + qr.val]
    BY <1>4 DEF RData, RTo, q
  <1>7. next \in RPcs /\ (next = "loop" => AllWhole) /\ next \in {"loop", "close"}
    BY <1>4 DEF RPcs
  <1> HIDE DEF next
  <1>8. /\ r' \in RType /\ r'.pc = next /\ r'.want = r.want /\ r'.ending = r.ending
        /\ r'.err = r.err
    <2> DEFINE v == r.got + qr.val
               r1 == [r EXCEPT !.pc = next]
               r2 == [r1 EXCEPT !.got = v]
    <2>1. r1 \in RType /\ r1.pc = next /\ r1.want = r.want /\ r1.ending = r.ending
          /\ r1.err = r.err /\ r1.got = r.got
      BY <1>7 DEF Inv, IbType, RType
    <2> HIDE DEF r1
    <2>2. v \in Int
      BY <1>5
    <2> HIDE DEF v
    <2>3. r2 \in RType /\ r2.pc = next /\ r2.want = r.want /\ r2.ending = r.ending
          /\ r2.err = r.err
      BY <2>1, <2>2 DEF RType
    <2> HIDE DEF r2
    <2>4. LET r3 == [r2 EXCEPT !.open = FALSE] IN
          r3 \in RType /\ r3.pc = next /\ r3.want = r.want /\ r3.ending = r.ending
          /\ r3.err = r.err
      BY <2>3 DEF RType
    <2>5. r' = [r2 EXCEPT !.open = FALSE]
      BY <1>6 DEF r1, r2, v
    <2> QED BY <2>4, <2>5
  <1>9. Between' /\ qr' \in QP
    <2>1. \/ r'.pc = "loop" /\ s.pc \in AtBlock /\ r'.want = Ob.want /\ AllWhole
          \/ r'.pc = "close" /\ ~r'.ending /\ s.pc \in AtBlock /\ r'.want = Ob.want
      <3>1. ~r'.ending
        BY <1>5, <1>8
      <3>2. (r'.pc = "loop" /\ AllWhole) \/ r'.pc = "close"
        BY <1>7, <1>8
      <3>3. s.pc \in AtBlock /\ r'.want = Ob.want
        BY <1>4, <1>8
      <3> QED BY <3>1, <3>2, <3>3
    <2> QED BY <1>1, <1>2, <1>3, <1>6, <2>1, BetweenNext
  <1>10. ring' \in RingType
    <2>1. [ring EXCEPT !.n = Append(@, qr.val), !.got = @ + qr.val] \in RingType
      BY <1>5, RingIs, Zenon
    <2> QED BY <1>6, <2>1
  <1> QED BY <1>1, <1>5, <1>8, <1>9, <1>10, RStays DEF Stage

LEMMA ReceiverCloseInv == ASSUME Inv, RClose PROVE Inv'
  <1> DEFINE w == Message("READY", 0)
  <1>1. /\ r.pc = "close" /\ ring' = ring /\ s' = s /\ qs' = qs /\ link' = link
    BY DEF RClose, RKeeps
  <1>2. /\ Between \/ (Over /\ r.ending /\ r.want = 0)
        /\ Between => ~r.ending /\ s.pc \in AtBlock /\ r.want = Ob.want
    BY <1>1 DEF Inv, Stage, Apart, Between, Asking, Asked, Before, Answering, AnswerHeader,
       AnswerSize, AnswerEnd, AnswerBlock, Answered, GotHeader, GotSize, GotBlock, GotEnd, Over,
       RSends, HeaderPcs, SizePcs, AddressPcs
  <1>3. ~r.err /\ qr \in QP /\ ring \in RingType
    BY <1>1 DEF Inv, Sound, IbType
  <1>4. CASE Between
    <2>1. r' = RAt("closeReady") /\ qr' = Post(qr, <<w>>)
      BY <1>2, <1>4 DEF RClose
    <2>2. /\ r' \in RType /\ r'.pc = "closeReady" /\ r'.want = r.want
          /\ r'.ending = r.ending /\ r'.err = r.err
      BY <2>1, RAtIs DEF RPcs
    <2>3. Box' = Box /\ r'.pc \in RSends /\ r.pc \notin RSends /\ r'.pc \in SizePcs /\ ~InLoop'
      BY <1>1, <2>2 DEF Box, HeaderPcs, RSends, SizePcs, InLoop
    <2>4. Before'
      BY <1>1, <1>2, <1>4, <2>2, <2>3, SenderStays DEF Before
    <2>5. w \in Request /\ w.op = "send" /\ w.key = "READY" /\ w.val = 0
      BY DEF Message, Request, Keys
    <2> HIDE DEF w
    <2>6. Asking' /\ qr' \in QP
      BY <1>1, <1>3, <1>4, <2>1, <2>3, <2>4, <2>5, AskingNext
    <2> QED BY <1>1, <1>2, <1>3, <1>4, <2>2, <2>6, RStays DEF Stage
  <1>5. CASE Over /\ r.ending /\ r.want = 0
    <2>1. r' = RAt("disconnect") /\ qr' = qr
      BY <1>5 DEF RClose
    <2>2. /\ r' \in RType /\ r'.pc = "disconnect" /\ r'.want = r.want
          /\ r'.ending = r.ending /\ r'.err = r.err
      BY <2>1, RAtIs DEF RPcs
    <2>3. Neither(qr)' /\ RQuiet'
      BY <1>1, <1>5, <2>1, <2>2 DEF Over, Neither, RQuiet, RSends
    <2>4. Over'
      BY <1>1, <1>5, <2>2, <2>3, SenderStays DEF Over
    <2>5. r'.pc \notin HeaderPcs \cup SizePcs \cup AddressPcs \cup {"loop"}
      BY <2>2 DEF HeaderPcs, SizePcs, AddressPcs
    <2> QED BY <1>1, <1>3, <2>1, <2>2, <2>4, <2>5, RStays DEF Stage
  <1> QED BY <1>2, <1>4, <1>5

LEMMA CloseSizeInv == ASSUME Inv, RCloseSize PROVE Inv'
  <1> DEFINE q == Polled(qr, "sync")
  <1>1. /\ r.pc = "closeSize" /\ Returns(qr, "sync") /\ ring' = ring /\ s' = s /\ qs' = qs
        /\ link' = link /\ Box = "sync" /\ qr' = q
        /\ RTo(GotMessage(qr, "TO_XFER"), RAt("disconnect"))
    BY DEF RCloseSize, RKeeps, Box, HeaderPcs
  <1>2. /\ Answered /\ Received(qr, "sync") /\ q \in QP /\ Neither(q) /\ q.sq = <<>>
        /\ q.sc = <<>>
    BY <1>1, ReceiverHears
  <1> HIDE DEF q
  <1>3. GotSize \/ GotEnd
    BY <1>1, <1>2 DEF Answered, GotHeader, GotBlock, HeaderPcs, AddressPcs
  <1>4. r' = RAt("disconnect")
    BY <1>1, <1>2, <1>3 DEF GotMessage, GotSize, GotEnd, RTo
  <1>5. /\ r' \in RType /\ r'.pc = "disconnect" /\ r'.err = r.err
    BY <1>4, RAtIs DEF RPcs
  <1>6. Neither(qr)' /\ RQuiet'
    BY <1>1, <1>2, <1>5 DEF Neither, RQuiet, RSends
  <1>7. /\ link \in {"est", "down"}
        /\ Gone \/ (s.pc \in AtAddress /\ SQuiet /\ Awaits(qs, "sync"))
    BY <1>2, <1>3 DEF Answered, GotSize, GotEnd
  <1>8. Over'
    BY <1>1, <1>5, <1>6, <1>7, SenderStays DEF Over
  <1>9. /\ ring \in RingType /\ ~r'.err
        /\ r'.pc \notin HeaderPcs \cup SizePcs \cup AddressPcs \cup {"loop"}
    BY <1>5 DEF Inv, IbType, Sound, HeaderPcs, SizePcs, AddressPcs
  <1> QED BY <1>1, <1>2, <1>5, <1>8, <1>9, RStays DEF Stage

LEMMA DisconnectInv == ASSUME Inv, RDisconnect PROVE Inv'
  <1>1. /\ r.pc = "disconnect" /\ link = "down" /\ link' = "none" /\ r' = RAt("unlock")
        /\ s' = s /\ qs' = qs /\ qr' = qr /\ ring' = ring
    BY DEF RDisconnect, Memory
  <1>2. /\ r' \in RType /\ r'.pc = "unlock" /\ r'.err = r.err
    BY <1>1, RAtIs DEF RPcs
  <1>3. s.pc \in Unconnected
    BY <1>1 DEF Inv, Connection
  <1>4. Apart'
    BY <1>1, <1>2, <1>3 DEF Apart, Unconnected
  <1>5. IbType' /\ Sound'
    BY <1>1, <1>2 DEF Inv, IbType, Sound, HeaderPcs, SizePcs, AddressPcs
  <1>6. Connection'
    BY <1>1, <1>3 DEF Inv, Connection, Awaits, Unconnected
  <1>7. SenderFits'
    BY <1>1 DEF Inv, SenderFits, Ob, Size, Neither
  <1> QED BY <1>4, <1>5, <1>6, <1>7 DEF Inv, Stage

LEMMA UnlockInv == ASSUME Inv, Fits, AllAgreed, RUnlock PROVE Inv'
  <1>1. /\ r.pc = "unlock" /\ s' = s /\ qs' = qs /\ qr' = qr /\ link' = link
    BY DEF RUnlock
  <1>2. ~r.err /\ qr \in QP
    BY DEF Inv, Sound, IbType
  <1>3. /\ r' \in RType /\ r'.pc = "off" /\ r'.err = r.err
    <2> DEFINE t == RAt("off")
    <2>1. /\ t \in RType /\ t.pc = "off" /\ t.err = r.err
      BY RAtIs DEF RPcs
    <2>2. r' = [t EXCEPT !.open = FALSE]
      BY <1>2 DEF RUnlock
    <2> HIDE DEF t
    <2> QED BY <2>1, <2>2 DEF RType
  <1>4. ring' \in RingType
    <2>1. BUFSZ \in Int /\ ring \in RingType
      BY DEF Fits, Inv, IbType
    <2>2. [ring EXCEPT !.n = Append(@, BUFSZ)] \in RingType
      BY <2>1, RingIs, Zenon
    <2> QED BY <2>1, <2>2 DEF RUnlock
  <1>5. Apart
    BY <1>1 DEF Inv, Stage, Between, Asking, Asked, Before, Answering, AnswerHeader, AnswerSize,
       AnswerEnd, AnswerBlock, Answered, GotHeader, GotSize, GotBlock, GotEnd, Over, RSends,
       HeaderPcs, SizePcs, AddressPcs
  <1>6. Apart'
    BY <1>1, <1>3, <1>5, SenderStays DEF Apart
  <1>7. r'.pc \notin HeaderPcs \cup SizePcs \cup AddressPcs \cup {"loop"}
    BY <1>3 DEF HeaderPcs, SizePcs, AddressPcs
  <1> QED BY <1>1, <1>2, <1>3, <1>4, <1>6, <1>7, RStays DEF Stage

\* A step that leaves both programs and their queue pairs alone.
LEMMA AsideInv ==
  ASSUME Inv, s' = s, r' = r, qs' = qs, qr' = qr, link' = link, ring' \in RingType
  PROVE  Inv'
  <1>1. IbType' /\ Sound' /\ Connection'
    BY DEF Inv, IbType, Sound, Connection, Awaits
  <1>2. SenderFits'
    BY DEF Inv, SenderFits, Ob, Size, Neither
  <1>3. Box' = Box /\ InLoop' = InLoop /\ RQuiet' = RQuiet
    BY DEF Box, InLoop, RQuiet
  <1>4. \A mb : Awaits(qr, mb)' = Awaits(qr, mb) /\ Holds(qr, mb)' = Holds(qr, mb)
                /\ Awaits(qs, mb)' = Awaits(qs, mb) /\ Holds(qs, mb)' = Holds(qs, mb)
    BY DEF Awaits, Holds
  <1>5. Neither(qr)' = Neither(qr) /\ Neither(qs)' = Neither(qs)
    BY DEF Neither
  <1>6. Before' = Before
    BY <1>3, SenderStays DEF Before
  <1>7. Apart' = Apart /\ Between' = Between
    BY <1>3, <1>4, <1>5, SenderStays DEF Apart, Between
  <1>8. Asking' = Asking /\ Asked' = Asked
    BY <1>3, <1>4, <1>6, SenderStays DEF Asking, Asked, Question
  <1>9. Answering' = Answering
    <2>1. AnswerHeader' = AnswerHeader
      BY <1>4 DEF AnswerHeader
    <2>2. AnswerSize' = AnswerSize
      BY <1>3, <1>4, SenderStays DEF AnswerSize
    <2>3. AnswerEnd' = AnswerEnd
      BY <1>3, <1>5 DEF AnswerEnd
    <2>4. AnswerBlock' = AnswerBlock
      BY <1>4, SenderStays DEF AnswerBlock, Closes
    <2> QED BY <1>3, <1>4, <2>1, <2>2, <2>3, <2>4 DEF Answering
  <1>10. Answered' = Answered /\ Over' = Over
    BY <1>3, <1>4, <1>5, SenderStays DEF Answered, GotHeader, GotSize, GotBlock, GotEnd, Over
  <1>11. Stage'
    BY <1>7, <1>8, <1>9, <1>10 DEF Inv, Stage
  <1> QED BY <1>1, <1>2, <1>11 DEF Inv

\* The reader of dada_ibdb's ring.
LEMMA TakeInv == ASSUME Inv, RTake PROVE Inv'
  <1>1. /\ s' = s /\ r' = r /\ qs' = qs /\ qr' = qr /\ link' = link
        /\ ring' = [ring EXCEPT !.read = @ + 1]
    BY DEF RTake
  <1>2. ring' \in RingType
    <2> DEFINE Counts == Seq(Int)
    <2>1. ring \in [n : Counts, read : Int, got : Int]
      BY DEF Inv, IbType, RingType
    <2> HIDE DEF Counts
    <2>2. [ring EXCEPT !.read = @ + 1] \in [n : Counts, read : Int, got : Int]
      BY <2>1
    <2> QED BY <1>1, <2>2 DEF RingType, Counts
  <1> QED BY <1>1, <1>2, AsideInv

LEMMA InvInit == ASSUME Fits, Init PROVE Inv
  <1>1. /\ s = [pc |-> "off", o |-> 0, blk |-> 0, sent |-> 0, mem |-> Bytes(0, 0, BUFSZ)]
        /\ r = [pc |-> "off", want |-> 0, got |-> 0, ending |-> FALSE, open |-> FALSE,
                err |-> FALSE]
        /\ qs = NewQP(BUFSZ \div CHUNK) /\ qr = NewQP(1) /\ link = "none"
        /\ ring = [n |-> <<>>, read |-> 0, got |-> 0]
    BY DEF Init
  <1>2. /\ qs \in QP /\ qr \in QP /\ qs.max = BUFSZ \div CHUNK + 1 /\ ~qs.err
        /\ qr.sq = <<>> /\ qr.sc = <<>>
    BY <1>1, DepthIs, NewQPIs
  <1>3. Bytes(0, 0, BUFSZ) \in [1..BUFSZ -> Nat \X Nat]
    <2>1. \A i \in 1..BUFSZ : <<0, 0 + i>> \in Nat \X Nat
      BY DEF Fits
    <2> QED BY <2>1 DEF Bytes
  <1>4. s \in SType
    BY <1>1, <1>3 DEF SType, SPcs
  <1>5. r \in RType /\ ring \in RingType
    BY <1>1 DEF RType, RPcs, RingType
  <1>6. Apart
    BY <1>1 DEF Apart
  <1>7. Connection
    BY <1>1 DEF Connection, Unconnected
  <1>8. SenderFits
    <2>1. Len(Obs) \in Nat
      BY DEF Fits
    <2> QED BY <1>1, <1>2, <2>1 DEF SenderFits, Unconnected
  <1>9. Sound
    BY <1>1, <1>2 DEF Sound, HeaderPcs, SizePcs, AddressPcs
  <1> QED BY <1>2, <1>4, <1>5, <1>6, <1>7, <1>8, <1>9 DEF Inv, IbType, Stage

-----------------------------------------------------------------------------
(* The theorem.                                                            *)

Counted == "o" \in DOMAIN s /\ s.o \in Nat

\* As long as the link holds, and the programs agree on the observations taken.
LinkInv == fails \in Nat /\ Counted /\ (fails = 0 /\ AllAgreed => Inv)

LEMMA SenderInv == ASSUME Inv, Fits, AllAgreed, AllAgreed', SenderNext PROVE Inv'
  BY ResolveInv, InitInv, ConnectInv, EstablishedInv, ReadInv, HeaderInv, HeaderSentInv, LoopInv,
     ReadyInv, SizeSentInv, AddressInv, BlockSentInv, CloseInv, EndSentInv, DoneInv
  DEF SenderNext

LEMMA ReceiverInv == ASSUME Inv, Fits, AllAgreed, RecvNext PROVE Inv'
  <1>1. CASE RSent("headerReady", "headerWait") \/ RSent("ready", "size")
             \/ RSent("addressSent", "data") \/ RSent("closeReady", "closeSize")
    BY <1>1, SentInv
  <1> QED BY <1>1, ListenInv, RequestInv, OpenInv, AcceptInv, HeaderReadyInv, GotHeaderInv,
             LoopsInv, SizeInv, DataInv, ReceiverCloseInv, CloseSizeInv, DisconnectInv, UnlockInv
          DEF RecvNext

LEMMA StutterInv == ASSUME Inv, UNCHANGED vars PROVE Inv'
  <1>1. s' = s /\ r' = r /\ qs' = qs /\ qr' = qr /\ link' = link /\ ring' \in RingType
    BY DEF vars, Inv, IbType
  <1> QED BY <1>1, AsideInv

LEMMA FailsStay ==
  ASSUME fails \in Nat, [Next]_vars
  PROVE  /\ fails' \in Nat /\ (fails' = 0 => fails = 0)
         /\ Fail \/ Lose => fails' # 0
  <1>1. CASE Fail \/ Lose
    BY <1>1 DEF Fail, Lose
  <1>2. CASE ~(Fail \/ Lose)
    <2>1. fails' = fails
      BY <1>2 DEF Next, vars, SenderNext, SResolve, SInit, SConnect, SEstablished, SRead, SHeader,
         SHeaderSent, SLoop, SReady, SSizeSent, SAddress, SBlockSent, SClose, SEndSent, SDone,
         SKeeps, RecvNext, RListen, RRequest, ROpen, RAccept, RHeaderReady, RSent, RHeader, RLoop,
         RSize, RData, RClose, RCloseSize, RDisconnect, RUnlock, RKeeps, SendNic, RecvNic, RTake,
         GiveUp
    <2> QED BY <1>2, <2>1
  <1> QED BY <1>1, <1>2

\* dada_dbib takes the observations one after the other, and gives none back.
LEMMA TakenStay == ASSUME Counted, [Next]_vars PROVE Counted' /\ s'.o >= s.o
  <1>1. CASE s' = s
    BY <1>1 DEF Counted
  <1>2. CASE \E p : s' = At(p)
    BY <1>2 DEF Counted, At
  <1>3. CASE SRead
    BY <1>3 DEF SRead, Counted
  <1>4. CASE SLoop
    BY <1>4 DEF SLoop, Counted, At
  <1>5. CASE SBlockSent
    BY <1>5 DEF SBlockSent, STo, Counted, At
  <1>6. CASE SenderNext /\ ~SRead /\ ~SLoop /\ ~SBlockSent
    <2>1. s' = s \/ \E p : s' = At(p)
      BY <1>6 DEF SenderNext, SResolve, SInit, SConnect, SEstablished, SHeader, SHeaderSent,
         SReady, SSizeSent, SAddress, SClose, SEndSent, SDone, STo
    <2> QED BY <2>1, <1>1, <1>2
  <1>7. CASE ~SenderNext
    <2>1. s' = s
      BY <1>7 DEF Next, vars, RecvNext, RListen, RRequest, ROpen, RAccept, RHeaderReady, RSent,
         RHeader, RLoop, RSize, RData, RClose, RCloseSize, RDisconnect, RUnlock, RKeeps, SendNic,
         RecvNic, RTake, Fail, Lose, GiveUp
    <2> QED BY <2>1, <1>1
  <1> QED BY <1>3, <1>4, <1>5, <1>6, <1>7

\* NoError of the runs: as long as the link holds and the programs agree on where
\* each observation taken so far ends, no message of dada_ibdb meets an empty
\* receive queue and neither program leaves a transfer with an error, for all
\* observations, sizes of blocks and of chunks, rings and modes of dada_dbib.
THEOREM IbNoError == ASSUME Fits PROVE Spec => []NoError
  <1>1. Init => LinkInv
    BY InvInit DEF Init, LinkInv, Counted
  <1>2. LinkInv /\ [Next]_vars => LinkInv'
    <2> SUFFICES ASSUME LinkInv, [Next]_vars PROVE LinkInv'
      OBVIOUS
    <2>1. fails' \in Nat /\ (fails' = 0 => fails = 0 /\ ~Fail /\ ~Lose)
      BY FailsStay DEF LinkInv
    <2>2. Counted' /\ s'.o >= s.o /\ s.o \in Nat /\ s'.o \in Nat
      BY TakenStay DEF LinkInv, Counted
    <2>3. ASSUME fails' = 0, AllAgreed' PROVE Inv'
      <3>1. AllAgreed
        BY <2>2, <2>3 DEF AllAgreed
      <3>2. Inv /\ ~Fail /\ ~Lose
        BY <2>1, <2>3, <3>1 DEF LinkInv
      <3>3. ~GiveUp
        BY <3>2 DEF Inv, Connection, GiveUp
      <3> QED BY <2>3, <3>1, <3>2, <3>3, SenderInv, ReceiverInv, SendNicInv, RecvNicInv, TakeInv,
                 StutterInv DEF Next
    <2> QED BY <2>1, <2>2, <2>3 DEF LinkInv
  <1>3. LinkInv => NoError
    BY DEF LinkInv, NoError, Inv, Sound
  <1> QED BY <1>1, <1>2, <1>3, PTL DEF Spec

=============================================================================
