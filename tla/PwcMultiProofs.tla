--------------------------- MODULE PwcMultiProofs ---------------------------
(***************************************************************************)
(* Theorems about the main loop over several Header and Data Blocks, for   *)
(* any number of HDUs, connections and commands and any faults: whatever   *)
(* fails for one HDU, the loop goes on with all of them in step, and each  *)
(* hands over the same headers.                                            *)
(***************************************************************************)
EXTENDS PwcMulti, PwcProofs

Waits == {"get", "getting", "prepared"}
DataLabels == {"loop", "buffer", "transit", "rest"}
Labels == {"prepare", "unprepared", "start", "started", "failed", "stop", "unstopped",
           "round", "exit"} \cup Waits \cup DataLabels

PwcmRec == [pc : Labels, command : Commands, header_valid : BOOLEAN,
            transit_byte : Int, bytes_to_write : Int, total : Int, buf_bytes : Int,
            buffer_size : Int, utc_buffer : Nat, stored : BOOLEAN, tidy : BOOLEAN,
            lost : BOOLEAN, rval : Int]
HduRec == [rdwrt : {"0", "w", "W"}, pos : Int, open : Seq(Nat), sent : Seq(Nat)]

MultiTypes ==
    PwcType /\ pwcm \in PwcmRec /\ hdu \in [Hdus -> HduRec]

\* Whatever fails for one of the HDUs, all have as many header blocks open, and
\* have handed over as many.
HeadersEqual ==
    \A i, j \in Hdus : /\ Len(hdu[i].open) = Len(hdu[j].open)
                       /\ Len(hdu[i].sent) = Len(hdu[j].sent)

\* Every Data Block is closed until a command opens it, and from then on open as
\* the state says to the end of the transfer.
OpenAsStated ==
    /\ pwcm.pc \in Waits => \A i \in Hdus : hdu[i].rdwrt = "0" /\ hdu[i].pos = 0
    /\ pwcm.pc \in {"start", "started"} =>
         /\ pwcm.command.code \in {"clock", "start"}
         /\ \A i \in Hdus :
              /\ hdu[i].rdwrt = IF pwcm.command.code = "start" THEN "W" ELSE "w"
              /\ hdu[i].pos = 0
    /\ pwcm.pc \in DataLabels =>
         /\ \/ state = "recording" /\ \A i \in Hdus : hdu[i].rdwrt = "W"
            \/ state = "clocking" /\ \A i \in Hdus : hdu[i].rdwrt = "w"
         /\ pwcm.lost \/ \A i, j \in Hdus : hdu[i].pos = hdu[j].pos

\* What the Header Block of one HDU holds, once the header is valid or not: the
\* block to complete is open, or a header was handed over; and if the headers are
\* tidy, it is the only one.
Kept(h, valid, utc, tidy) ==
    /\ valid => h.sent # <<>>
    /\ utc = 0 \/ ~valid => h.open # <<>>
    /\ tidy => utc # 0 \/ ~valid
    /\ tidy => IF valid THEN h.sent = <<utc>> ELSE h.sent = <<>> /\ h.open = <<utc>>

HeadersKept ==
    /\ pwcm.pc \in Waits \cup {"start"} =>
         \A i \in Hdus : Kept(hdu[i], FALSE, 0, pwcm.tidy)
    /\ pwcm.pc \in DataLabels \cup {"started"} =>
         \A i \in Hdus : Kept(hdu[i], pwcm.header_valid, pwcm.utc_buffer, pwcm.tidy)

\* The inductive invariant.
IInv == MultiTypes /\ CommandsKept /\ HeadersEqual /\ OpenAsStated /\ HeadersKept

-----------------------------------------------------------------------------
(* The records of the main loop and of the HDUs.                           *)

LEMMA FieldValues ==
    /\ "prepare" \in Labels /\ "get" \in Labels /\ "getting" \in Labels
    /\ "prepared" \in Labels /\ "unprepared" \in Labels /\ "start" \in Labels
    /\ "started" \in Labels /\ "failed" \in Labels /\ "stop" \in Labels
    /\ "unstopped" \in Labels /\ "round" \in Labels /\ "exit" \in Labels
    /\ "loop" \in Labels /\ "buffer" \in Labels /\ "transit" \in Labels
    /\ "rest" \in Labels
    /\ -3 \in Int /\ -2 \in Int /\ -1 \in Int /\ 0 \in Int /\ 0 \in Nat
  BY DEF Labels, Waits, DataLabels

LEMMA PwcmFields ==
    ASSUME NEW r \in PwcmRec
    PROVE  /\ r.command \in Commands /\ r.transit_byte \in Int /\ r.bytes_to_write \in Int
           /\ r.total \in Int /\ r.buf_bytes \in Int /\ r.buffer_size \in Int
           /\ r.rval \in Int /\ r.header_valid \in BOOLEAN /\ r.utc_buffer \in Nat
           /\ r.tidy \in BOOLEAN /\ r.lost \in BOOLEAN /\ r.stored \in BOOLEAN
  BY DEF PwcmRec

LEMMA InvTypes ==
    ASSUME IInv
    PROVE  /\ pwcm \in PwcmRec /\ pwcm.command \in Commands /\ hdu \in [Hdus -> HduRec]
           /\ command \in Commands /\ state \in States /\ 1 \in Hdus
           /\ PwcType /\ CommandsKept
  BY MultiAssumption, PwcmFields DEF IInv, MultiTypes, PwcType, SlotType, Hdus

\* Lengths of the sequences of header blocks.
LEMMA Appended ==
    ASSUME NEW s \in Seq(Nat), NEW n \in Nat
    PROVE  /\ Append(s, n) \in Seq(Nat) /\ Append(s, n) # <<>>
           /\ Len(Append(s, n)) = Len(s) + 1 /\ Len(s) \in Nat
           /\ Head(Append(s, n)) = IF s = <<>> THEN n ELSE Head(s)
           /\ s = <<>> => Append(s, n) = <<n>>
  <1>1. /\ Append(s, n) \in Seq(Nat) /\ Len(Append(s, n)) = Len(s) + 1 /\ Len(s) \in Nat
        /\ Append(s, n)[1] = IF Len(s) = 0 THEN n ELSE s[1]
    OBVIOUS
  <1>2. Len(<<>>) = 0 /\ (Len(s) = 0 => s = <<>>)
    OBVIOUS
  <1>3. s = <<>> => Append(s, n) = <<n>>
    OBVIOUS
  <1> QED BY <1>1, <1>2, <1>3

\* What the calls for one HDU do to it.
LEMMA ModeHdu ==
    ASSUME NEW h \in HduRec, NEW c \in {"0", "w", "W"}
    PROVE  /\ Mode(h, c) \in HduRec /\ Mode(h, c).rdwrt = c /\ Mode(h, c).pos = h.pos
           /\ Mode(h, c).open = h.open /\ Mode(h, c).sent = h.sent
  BY DEF Mode, HduRec

LEMMA ShutHdu ==
    ASSUME NEW h \in HduRec
    PROVE  /\ Shut(h) \in HduRec /\ Shut(h).rdwrt = "0" /\ Shut(h).pos = 0
           /\ Shut(h).open = h.open /\ Shut(h).sent = h.sent
  <1>1. 0 \in Int /\ Mode(h, "0") \in HduRec
    BY ModeHdu
  <1>2. Shut(h) = [Mode(h, "0") EXCEPT !.pos = 0]
    BY DEF Shut, Mode, HduRec
  <1>3. /\ Mode(h, "0").rdwrt = "0" /\ Mode(h, "0").open = h.open
        /\ Mode(h, "0").sent = h.sent
    BY ModeHdu
  <1> QED BY <1>1, <1>2, <1>3 DEF HduRec

LEMMA WroteHdu ==
    ASSUME NEW h \in HduRec, NEW n \in Int
    PROVE  /\ Wrote(h, n) \in HduRec /\ Wrote(h, n).rdwrt = h.rdwrt
           /\ Wrote(h, n).pos = h.pos + n
           /\ Wrote(h, n).open = h.open /\ Wrote(h, n).sent = h.sent
  BY DEF Wrote, HduRec

LEMMA OpensHdu ==
    ASSUME NEW h \in HduRec, NEW utc \in Nat
    PROVE  /\ Opens(h, utc) \in HduRec /\ Opens(h, utc).rdwrt = h.rdwrt
           /\ Opens(h, utc).pos = h.pos /\ Opens(h, utc).sent = h.sent
           /\ Opens(h, utc).open = Append(h.open, utc)
  <1>1. h.open \in Seq(Nat) /\ Append(h.open, utc) \in Seq(Nat)
    BY Appended DEF HduRec
  <1> QED BY <1>1 DEF HduRec, Opens

LEMMA DatesHdu ==
    ASSUME NEW h \in HduRec, h.open # <<>>, NEW utc \in Nat
    PROVE  /\ Dates(h, utc) \in HduRec /\ Dates(h, utc).rdwrt = h.rdwrt
           /\ Dates(h, utc).pos = h.pos /\ Dates(h, utc).sent = h.sent
           /\ Len(Dates(h, utc).open) = Len(h.open) /\ Dates(h, utc).open # <<>>
           /\ Len(h.open) > 1 => Head(Dates(h, utc).open) = Head(h.open)
           /\ Len(h.open) = 1 => Dates(h, utc).open = <<utc>>
  <1>1. h.open \in Seq(Nat) /\ h.rdwrt \in {"0", "w", "W"} /\ h.pos \in Int /\ h.sent \in Seq(Nat)
    BY DEF HduRec
  <1> DEFINE s == [h.open EXCEPT ![Len(h.open)] = utc]
  <1>a. h.open \in Seq(Nat) /\ Len(h.open) \in Nat \ {0}
    BY <1>1
  <1>b. s \in Seq(Nat) /\ Len(s) = Len(h.open)
    BY <1>a
  <1>c. s # <<>>
    BY <1>a, <1>b
  <1>d. ASSUME NEW o \in Seq(Nat), Len(o) > 1
        PROVE  [o EXCEPT ![Len(o)] = utc][1] = o[1]
    <2>1. Len(o) \in Nat /\ DOMAIN o = 1..Len(o)
      OBVIOUS
    <2>2. 1 \in 1..Len(o) /\ 1 # Len(o)
      <3> DEFINE n == Len(o)
      <3>1. n \in Nat /\ n > 1
        BY <1>d, <2>1
      <3> HIDE DEF n
      <3>2. 1 \in 1..n /\ 1 # n
        BY <3>1
      <3> QED BY <3>2 DEF n
    <2> QED BY Zenon, <2>1, <2>2
  <1>2. /\ s \in Seq(Nat) /\ s # <<>> /\ Len(s) = Len(h.open)
        /\ Len(h.open) > 1 => s[1] = h.open[1]
    BY <1>a, <1>b, <1>c, <1>d
  <1>3. Len(h.open) = 1 => s = <<utc>>
    BY <1>1, <1>2
  <1>4. Dates(h, utc) = [h EXCEPT !.open = s]
    BY DEF Dates
  <1> HIDE DEF s
  <1>5. /\ Dates(h, utc).open = s /\ Dates(h, utc) \in HduRec /\ Dates(h, utc).rdwrt = h.rdwrt
        /\ Dates(h, utc).pos = h.pos /\ Dates(h, utc).sent = h.sent
    BY <1>1, <1>2, <1>4 DEF HduRec
  <1>6. Head(s) = s[1] /\ Head(h.open) = h.open[1]
    OBVIOUS
  <1> QED BY <1>2, <1>3, <1>5, <1>6

LEMMA SendsHdu ==
    ASSUME NEW h \in HduRec, h.open # <<>>
    PROVE  /\ Sends(h) \in HduRec /\ Sends(h).rdwrt = h.rdwrt /\ Sends(h).pos = h.pos
           /\ Len(Sends(h).open) = Len(h.open) - 1
           /\ Sends(h).sent = Append(h.sent, Head(h.open)) /\ Sends(h).sent # <<>>
           /\ Len(Sends(h).sent) = Len(h.sent) + 1
           /\ h.sent = <<>> => Sends(h).sent = <<Head(h.open)>>
  <1>1. h.open \in Seq(Nat) /\ h.sent \in Seq(Nat)
    BY DEF HduRec
  <1>2. Tail(h.open) \in Seq(Nat) /\ Head(h.open) \in Nat /\ Len(Tail(h.open)) = Len(h.open) - 1
    BY <1>1
  <1>3. /\ Append(h.sent, Head(h.open)) \in Seq(Nat) /\ Append(h.sent, Head(h.open)) # <<>>
        /\ Len(Append(h.sent, Head(h.open))) = Len(h.sent) + 1
        /\ h.sent = <<>> => Append(h.sent, Head(h.open)) = <<Head(h.open)>>
    BY <1>1, <1>2, Appended
  <1>4. /\ Sends(h) \in HduRec /\ Sends(h).rdwrt = h.rdwrt /\ Sends(h).pos = h.pos
        /\ Sends(h).open = Tail(h.open) /\ Sends(h).sent = Append(h.sent, Head(h.open))
    BY <1>2, <1>3 DEF HduRec, Sends
  <1> QED BY <1>2, <1>3, <1>4

\* Setting UTC_START in the open block, before or after the header is valid.
LEMMA DatedKept ==
    ASSUME NEW h \in HduRec, NEW valid \in BOOLEAN, NEW tidy \in BOOLEAN, NEW utc \in Nat,
           NEW v \in BOOLEAN, v => valid, Kept(h, valid, 0, tidy)
    PROVE  Kept(Dates(h, utc), v, utc, tidy)
  <1>1. h.open # <<>>
    BY DEF Kept
  <1>2. /\ Dates(h, utc).sent = h.sent /\ Dates(h, utc).open # <<>>
        /\ Len(h.open) = 1 => Dates(h, utc).open = <<utc>>
    BY <1>1, DatesHdu
  <1>3. tidy => ~valid /\ h.sent = <<>> /\ h.open = <<0>>
    BY DEF Kept
  <1>4. h.open = <<0>> => Len(h.open) = 1
    OBVIOUS
  <1> QED BY <1>2, <1>3, <1>4 DEF Kept

\* The first header goes out once it is valid.
LEMMA SentKept ==
    ASSUME NEW h \in HduRec, NEW utc \in Nat \ {0}, NEW tidy \in BOOLEAN,
           Kept(h, FALSE, utc, tidy)
    PROVE  Kept(Sends(h), TRUE, utc, tidy)
  <1>1. h.open # <<>>
    BY DEF Kept
  <1>2. Sends(h).sent # <<>> /\ (h.sent = <<>> => Sends(h).sent = <<Head(h.open)>>)
    BY <1>1, SendsHdu
  <1>3. h.open = <<utc>> => Head(h.open) = utc
    OBVIOUS
  <1> QED BY <1>2, <1>3 DEF Kept

\* An HDU whose header block is opened, dated and handed over.
LEMMA HeaderNat ==
    ASSUME NEW h \in HduRec, NEW valid \in BOOLEAN, NEW utc \in Nat, NEW tidy \in BOOLEAN,
           Kept(h, valid, utc, tidy)
    PROVE  Header(h) \in Nat
  <1>1. h.open \in Seq(Nat) /\ h.sent \in Seq(Nat)
    BY DEF HduRec
  <1>2. h.open # <<>> \/ h.sent # <<>>
    BY DEF Kept
  <1>3. ASSUME NEW s \in Seq(Nat), s # <<>> PROVE s[Len(s)] \in Nat
    BY <1>3
  <1> QED BY <1>1, <1>2, <1>3 DEF Header

-----------------------------------------------------------------------------
(* Steps that leave the HDUs alone, or end the transfer.                   *)

\* The step goes to a label at which nothing is said of the HDUs.
LEMMA Ends ==
    ASSUME IInv, PwcType', CommandsKept', pwcm' \in PwcmRec, hdu' \in [Hdus -> HduRec],
           pwcm'.pc \notin Waits \cup DataLabels \cup {"start", "started"},
           \A i \in Hdus : /\ Len(hdu'[i].open) = Len(hdu[i].open)
                           /\ Len(hdu'[i].sent) = Len(hdu[i].sent)
    PROVE  IInv'
  <1>1. HeadersEqual'
    BY DEF IInv, HeadersEqual
  <1>2. OpenAsStated' /\ HeadersKept'
    BY DEF OpenAsStated, HeadersKept
  <1> QED BY <1>1, <1>2 DEF IInv, MultiTypes

\* The data go on, and the HDUs stay as they are.
LEMMA GoesOn ==
    ASSUME IInv, PwcType', CommandsKept', pwcm' \in PwcmRec, UNCHANGED <<state, hdu>>,
           \/ pwcm.pc \in DataLabels /\ pwcm'.pc \in DataLabels
           \/ pwcm.pc \in Waits /\ pwcm'.pc \in Waits
           \/ pwcm'.pc = pwcm.pc /\ pwcm'.command = pwcm.command,
           pwcm'.header_valid = pwcm.header_valid, pwcm'.utc_buffer = pwcm.utc_buffer,
           pwcm'.tidy = pwcm.tidy, pwcm'.lost = pwcm.lost
    PROVE  IInv'
  <1>1. HeadersEqual' /\ MultiTypes'
    BY DEF IInv, HeadersEqual, MultiTypes
  <1>2. OpenAsStated'
    BY DEF IInv, OpenAsStated, Waits, DataLabels
  <1>3. HeadersKept'
    BY DEF IInv, HeadersKept, Waits, DataLabels
  <1> QED BY <1>1, <1>2, <1>3 DEF IInv

\* The data go on, and what is written to the HDUs leaves them in step.
LEMMA DataStep ==
    ASSUME IInv, PwcType', CommandsKept', pwcm' \in PwcmRec, hdu' \in [Hdus -> HduRec],
           UNCHANGED state, pwcm.pc \in DataLabels, pwcm'.pc \in DataLabels,
           HeadersEqual', \A i \in Hdus : hdu'[i].rdwrt = hdu[i].rdwrt,
           pwcm'.lost \/ \A i, j \in Hdus : hdu'[i].pos = hdu'[j].pos,
           \A i \in Hdus : Kept(hdu'[i], pwcm'.header_valid, pwcm'.utc_buffer, pwcm'.tidy)
    PROVE  IInv'
  <1>1. OpenAsStated'
    BY DEF IInv, OpenAsStated, Waits, DataLabels
  <1>2. HeadersKept'
    BY DEF HeadersKept, Waits, DataLabels
  <1> QED BY <1>1, <1>2 DEF IInv, MultiTypes

\* A header is valid only once UTC_START is known.
LEMMA ValidUtc ==
    ASSUME NEW utc \in Nat, NEW valid \in HeaderValid(utc)
    PROVE  valid \in BOOLEAN /\ (valid => utc # 0)
  BY DEF HeaderValid

-----------------------------------------------------------------------------
(* One lemma for every step of the main loop.                              *)

LEMMA PrepareKeeps ==
    ASSUME IInv, Prepare
    PROVE  IInv'
  <1> DEFINE opens(h) == [Opens(h, 0) EXCEPT !.sent = <<>>]
             both(h)  == Shut(opens(h))
             tidy == \A i \in Hdus : hdu[i].open = <<>>
  <1>0. /\ pwcm \in PwcmRec /\ hdu \in [Hdus -> HduRec] /\ PwcType /\ CommandsKept
    BY InvTypes
  <1>1. PwcType' /\ CommandsKept' /\ UNCHANGED state
    BY <1>0, NoCallKeeps DEF Prepare
  <1>2. pwcm' \in PwcmRec
    <2>1. tidy \in BOOLEAN
      OBVIOUS
    <2> HIDE DEF tidy
    <2>2. \/ pwcm' = [pwcm EXCEPT !.pc = "exit"]
          \/ pwcm' = [pwcm EXCEPT !.pc = "get", !.tidy = tidy]
          \/ pwcm' = [pwcm EXCEPT !.pc = "unprepared", !.rval = -2]
      BY ZenonT(60) DEF Prepare, Goto, Returns, tidy
    <2> QED BY ZenonT(60), <1>0, <2>1, <2>2, FieldValues DEF PwcmRec
  <1>r. ASSUME NEW i \in Hdus
        PROVE  /\ opens(hdu[i]) \in HduRec /\ both(hdu[i]) \in HduRec
               /\ both(hdu[i]).rdwrt = "0" /\ both(hdu[i]).pos = 0
               /\ opens(hdu[i]).sent = <<>> /\ opens(hdu[i]).open = Append(hdu[i].open, 0)
               /\ both(hdu[i]).sent = <<>> /\ both(hdu[i]).open = Append(hdu[i].open, 0)
               /\ Len(both(hdu[i]).open) = Len(hdu[i].open) + 1
               /\ Len(opens(hdu[i]).open) = Len(hdu[i].open) + 1
               /\ Append(hdu[i].open, 0) # <<>>
               /\ hdu[i].open = <<>> => Append(hdu[i].open, 0) = <<0>>
    <2>1. hdu[i] \in HduRec /\ hdu[i].open \in Seq(Nat) /\ 0 \in Nat
      BY <1>0 DEF HduRec
    <2>2. Opens(hdu[i], 0) \in HduRec /\ Opens(hdu[i], 0).open = Append(hdu[i].open, 0)
      BY <2>1, OpensHdu
    <2>3. opens(hdu[i]) \in HduRec /\ opens(hdu[i]).sent = <<>>
          /\ opens(hdu[i]).open = Append(hdu[i].open, 0)
      <3>1. <<>> \in Seq(Nat)
        OBVIOUS
      <3> QED BY <2>2, <3>1 DEF HduRec
    <2> HIDE DEF opens
    <2> QED BY <2>1, <2>3, ShutHdu, Appended
  <1>3. CASE quit /\ Goto("exit") /\ UNCHANGED hdu
    <2>1. pwcm'.pc = "exit"
      BY <1>0, <1>3 DEF Goto, PwcmRec
    <2> QED BY <1>0, <1>1, <1>2, <1>3, <2>1, Ends DEF Waits, DataLabels
  <1>4. CASE /\ hdu' = [i \in Hdus |-> both(hdu[i])]
             /\ pwcm' = [pwcm EXCEPT !.pc = "get", !.tidy = tidy]
    <2>1. pwcm'.pc = "get" /\ pwcm'.tidy = tidy
      BY <1>0, <1>4 DEF PwcmRec
    <2> HIDE DEF both, opens
    <2>2. hdu' \in [Hdus -> HduRec] /\ \A i \in Hdus : hdu'[i] = both(hdu[i])
      BY <1>4, <1>r
    <2>3. HeadersEqual'
      BY <1>r, <2>2 DEF IInv, HeadersEqual
    <2>4. OpenAsStated'
      BY <1>r, <2>1, <2>2 DEF OpenAsStated, Waits, DataLabels
    <2>5. \A i \in Hdus : Kept(both(hdu[i]), FALSE, 0, tidy)
      BY <1>r DEF Kept
    <2>6. HeadersKept'
      BY <2>1, <2>2, <2>5 DEF HeadersKept, Waits, DataLabels
    <2> QED BY <1>1, <1>2, <2>2, <2>3, <2>4, <2>6 DEF IInv, MultiTypes
  <1>5. ASSUME NEW k \in Hdus, Returns("unprepared", -2),
               hdu' = [i \in Hdus |-> IF i < k THEN both(hdu[i]) ELSE opens(hdu[i])]
        PROVE  IInv'
    <2>1. pwcm'.pc = "unprepared"
      BY <1>0, <1>5 DEF Returns, PwcmRec
    <2> HIDE DEF both, opens
    <2>2. hdu' \in [Hdus -> HduRec]
          /\ \A i \in Hdus : hdu'[i] = both(hdu[i]) \/ hdu'[i] = opens(hdu[i])
      BY <1>5, <1>r
    <2>3. HeadersEqual'
      BY <1>r, <2>2 DEF IInv, HeadersEqual
    <2>4. OpenAsStated' /\ HeadersKept'
      BY <2>1 DEF OpenAsStated, HeadersKept, Waits, DataLabels
    <2> QED BY <1>1, <1>2, <2>2, <2>3, <2>4 DEF IInv, MultiTypes
  <1> QED BY <1>3, <1>4, <1>5 DEF Prepare, ForAll

LEMMA PrepareLoopKeeps ==
    ASSUME IInv, PrepareLoop
    PROVE  IInv'
  <1>0. /\ pwcm \in PwcmRec /\ hdu \in [Hdus -> HduRec] /\ PwcType /\ CommandsKept
    BY InvTypes
  <1>1. PwcType' /\ CommandsKept' /\ UNCHANGED <<state, hdu>>
    BY <1>0, NoCallKeeps DEF PrepareLoop
  <1>2. pwcm' \in PwcmRec
    BY ZenonT(60), <1>0, FieldValues DEF PrepareLoop, Goto, PwcmRec
  <1>3. /\ pwcm.pc = "get" /\ pwcm'.pc \in {"exit", "getting"}
        /\ pwcm'.header_valid = pwcm.header_valid /\ pwcm'.utc_buffer = pwcm.utc_buffer
        /\ pwcm'.tidy = pwcm.tidy /\ pwcm'.lost = pwcm.lost
    BY <1>0 DEF PrepareLoop, Goto, At, PwcmRec
  <1> QED BY <1>0, <1>1, <1>2, <1>3, Ends, GoesOn DEF Waits, DataLabels

LEMMA PrepareWaitsKeeps ==
    ASSUME IInv, PrepareWaits
    PROVE  IInv'
  <1>0. /\ pwcm \in PwcmRec /\ hdu \in [Hdus -> HduRec] /\ PwcType /\ CommandsKept
    BY InvTypes
  <1>1. PwcType' /\ CommandsKept' /\ UNCHANGED <<state, hdu, pwcm>>
    BY <1>0, StateKeeps DEF PwcType, GetWait, PrepareWaits, multivars
  <1> QED BY <1>0, <1>1, GoesOn

LEMMA PrepareGetsKeeps ==
    ASSUME IInv, PrepareGets
    PROVE  IInv'
  <1>0. /\ pwcm \in PwcmRec /\ hdu \in [Hdus -> HduRec] /\ PwcType /\ CommandsKept
        /\ command \in Commands
    BY InvTypes
  <1>1. PwcType' /\ CommandsKept' /\ UNCHANGED <<state, hdu>>
    BY <1>0, TakeKeeps DEF PrepareGets
  <1>2. pwcm' \in PwcmRec
    BY ZenonT(60), <1>0, FieldValues DEF PrepareGets, PwcmRec
  <1>3. /\ pwcm.pc = "getting" /\ pwcm'.pc \in {"exit", "prepared"}
        /\ pwcm'.header_valid = pwcm.header_valid /\ pwcm'.utc_buffer = pwcm.utc_buffer
        /\ pwcm'.tidy = pwcm.tidy /\ pwcm'.lost = pwcm.lost
    BY <1>0 DEF PrepareGets, At, PwcmRec
  <1> QED BY <1>0, <1>1, <1>2, <1>3, Ends, GoesOn DEF Waits, DataLabels

LEMMA PrepareDoesKeeps ==
    ASSUME IInv, PrepareDoes
    PROVE  IInv'
  <1> DEFINE mode == IF pwcm.command.code = "clock" THEN "w" ELSE "W"
             opens(h) == Mode(h, mode)
  <1>0. /\ pwcm \in PwcmRec /\ pwcm.command \in Commands /\ hdu \in [Hdus -> HduRec]
        /\ PwcType /\ CommandsKept /\ pwcm.pc = "prepared"
    BY InvTypes DEF PrepareDoes, At
  <1>1. PwcType' /\ CommandsKept'
    BY <1>0, StateKeeps, SetStateKeeps DEF PwcType, States, PrepareDoes, Sets
  <1>2. pwcm' \in PwcmRec
    BY ZenonT(60), <1>0, FieldValues DEF PrepareDoes, Sets, Goto, Returns, PwcmRec
  <1>3. \/ /\ UNCHANGED hdu
           /\ \/ pwcm'.pc = "unprepared"
              \/ /\ pwcm'.pc = "get" /\ pwcm'.header_valid = pwcm.header_valid
                 /\ pwcm'.utc_buffer = pwcm.utc_buffer
                 /\ pwcm'.tidy = pwcm.tidy /\ pwcm'.lost = pwcm.lost
        \/ /\ pwcm'.pc = "start" /\ pwcm'.tidy = pwcm.tidy
           /\ pwcm'.command = pwcm.command /\ pwcm.command.code \in {"clock", "start"}
           /\ hdu' = [i \in Hdus |-> opens(hdu[i])]
        \/ /\ pwcm'.pc = "unprepared"
           /\ \E k \in Hdus :
                hdu' = [i \in Hdus |-> IF i < k THEN opens(hdu[i]) ELSE hdu[i]]
    BY <1>0 DEF PrepareDoes, Sets, Goto, Returns, ForAll, UpTo, PwcmRec
  <1>r. ASSUME NEW i \in Hdus
        PROVE  /\ opens(hdu[i]) \in HduRec /\ opens(hdu[i]).rdwrt = mode
               /\ opens(hdu[i]).pos = hdu[i].pos
               /\ opens(hdu[i]).open = hdu[i].open /\ opens(hdu[i]).sent = hdu[i].sent
    BY <1>0, ModeHdu
  <1> HIDE DEF opens
  <1>4. CASE UNCHANGED hdu /\ pwcm'.pc = "unprepared"
    BY <1>0, <1>1, <1>2, <1>4, Ends DEF Waits, DataLabels
  <1>5. CASE /\ UNCHANGED hdu
             /\ pwcm'.pc = "get" /\ pwcm'.header_valid = pwcm.header_valid
             /\ pwcm'.utc_buffer = pwcm.utc_buffer
             /\ pwcm'.tidy = pwcm.tidy /\ pwcm'.lost = pwcm.lost
    <2>1. HeadersEqual' /\ OpenAsStated' /\ HeadersKept'
      BY <1>0, <1>5 DEF IInv, HeadersEqual, OpenAsStated, HeadersKept, Waits, DataLabels
    <2> QED BY <1>0, <1>1, <1>2, <1>5, <2>1 DEF IInv, MultiTypes
  <1>6. CASE /\ pwcm'.pc = "start" /\ pwcm'.tidy = pwcm.tidy
             /\ pwcm'.command = pwcm.command /\ pwcm.command.code \in {"clock", "start"}
             /\ hdu' = [i \in Hdus |-> opens(hdu[i])]
    <2>1. hdu' \in [Hdus -> HduRec] /\ \A i \in Hdus : hdu'[i] = opens(hdu[i])
      BY <1>6, <1>r
    <2>2. HeadersEqual'
      BY <1>r, <2>1 DEF IInv, HeadersEqual
    <2>3. OpenAsStated'
      BY <1>0, <1>6, <1>r, <2>1 DEF IInv, OpenAsStated, Waits, DataLabels
    <2>4. \A i \in Hdus : Kept(opens(hdu[i]), FALSE, 0, pwcm.tidy)
      BY <1>0, <1>r DEF IInv, HeadersKept, Waits, Kept
    <2>5. HeadersKept'
      BY <1>6, <2>1, <2>4 DEF HeadersKept, Waits, DataLabels
    <2> QED BY <1>1, <1>2, <2>1, <2>2, <2>3, <2>5 DEF IInv, MultiTypes
  <1>7. ASSUME NEW k \in Hdus, pwcm'.pc = "unprepared",
               hdu' = [i \in Hdus |-> IF i < k THEN opens(hdu[i]) ELSE hdu[i]]
        PROVE  IInv'
    <2>1. hdu' \in [Hdus -> HduRec]
          /\ \A i \in Hdus : hdu'[i] = opens(hdu[i]) \/ hdu'[i] = hdu[i]
      BY <1>0, <1>7, <1>r
    <2> QED BY <1>1, <1>2, <1>7, <1>r, <2>1, Ends DEF Waits, DataLabels
  <1> QED BY <1>3, <1>4, <1>5, <1>6, <1>7

LEMMA StoresUtcKeeps ==
    ASSUME IInv, StoresUtc
    PROVE  IInv'
  <1>0. /\ pwcm \in PwcmRec /\ hdu \in [Hdus -> HduRec] /\ PwcType /\ CommandsKept
    BY InvTypes
  <1>1. PwcType' /\ CommandsKept' /\ UNCHANGED <<state, hdu>>
    <2>1. pwcm.utc_buffer \in Nat /\ 0 \in Nat
      BY <1>0, PwcmFields
    <2> QED BY <1>0, <2>1, StoreUtcKeeps DEF StoresUtc
  <1>2. pwcm' \in PwcmRec
    BY ZenonT(60), <1>0, FieldValues DEF StoresUtc, PwcmRec
  <1>3. /\ pwcm'.pc = pwcm.pc /\ pwcm'.command = pwcm.command
        /\ pwcm'.header_valid = pwcm.header_valid /\ pwcm'.utc_buffer = pwcm.utc_buffer
        /\ pwcm'.tidy = pwcm.tidy /\ pwcm'.lost = pwcm.lost
    BY <1>0 DEF StoresUtc, PwcmRec
  <1> QED BY <1>0, <1>1, <1>2, <1>3, GoesOn

LEMMA StartTransferKeeps ==
    ASSUME IInv, StartTransfer
    PROVE  IInv'
  <1>0. /\ pwcm \in PwcmRec /\ pwcm.command \in Commands /\ hdu \in [Hdus -> HduRec]
        /\ PwcType /\ CommandsKept /\ pwcm.pc = "start"
    BY InvTypes DEF StartTransfer, At
  <1>1. UNCHANGED <<state, command, quit, rate, client, accepted, taken>>
    BY DEF StartTransfer
  <1>2. CASE Returns("failed", -2) /\ UNCHANGED <<utc_start, hdu>>
    <2>1. PwcType' /\ CommandsKept'
      BY <1>0, <1>1, <1>2, StateKeeps DEF PwcType
    <2>2. pwcm' \in PwcmRec
      BY ZenonT(60), <1>0, <1>2, FieldValues DEF Returns, PwcmRec
    <2>3. pwcm'.pc = "failed"
      BY <1>0, <1>2 DEF Returns, PwcmRec
    <2> QED BY <1>0, <1>2, <2>1, <2>2, <2>3, Ends DEF Waits, DataLabels
  <1>3. ASSUME NEW utc \in {0, FirstUtc}, NEW valid \in BOOLEAN, valid => utc # 0,
               hdu' = [i \in Hdus |-> IF valid THEN Sends(Dates(hdu[i], utc))
                                      ELSE Dates(hdu[i], utc)],
               utc_start' = IF utc = 0 THEN utc_start ELSE utc,
               pwcm' = [pwcm EXCEPT !.header_valid = valid, !.utc_buffer = utc,
                                    !.pc = "started"]
        PROVE  IInv'
    <2>1. utc \in Nat
      BY MultiAssumption
    <2>2. PwcType' /\ CommandsKept'
      BY <1>0, <1>1, <1>3, <2>1, StateKeeps DEF PwcType
    <2>3. pwcm' \in PwcmRec
      BY ZenonT(60), <1>0, <1>3, <2>1, FieldValues DEF PwcmRec
    <2>4. /\ pwcm'.pc = "started" /\ pwcm'.header_valid = valid /\ pwcm'.utc_buffer = utc
          /\ pwcm'.command = pwcm.command /\ pwcm'.tidy = pwcm.tidy
      BY <1>0, <1>3 DEF PwcmRec
    <2> DEFINE f(h) == IF valid THEN Sends(Dates(h, utc)) ELSE Dates(h, utc)
    <2>5. ASSUME NEW i \in Hdus
          PROVE  /\ f(hdu[i]) \in HduRec /\ f(hdu[i]).rdwrt = hdu[i].rdwrt
                 /\ f(hdu[i]).pos = hdu[i].pos
                 /\ Len(f(hdu[i]).open) = Len(hdu[i].open) - (IF valid THEN 1 ELSE 0)
                 /\ Len(f(hdu[i]).sent) = Len(hdu[i].sent) + (IF valid THEN 1 ELSE 0)
                 /\ Kept(f(hdu[i]), valid, utc, pwcm.tidy)
      <3>1. /\ hdu[i] \in HduRec /\ Kept(hdu[i], FALSE, 0, pwcm.tidy) /\ hdu[i].open # <<>>
            /\ pwcm.tidy \in BOOLEAN
        BY <1>0, PwcmFields DEF IInv, HeadersKept, Kept, Waits
      <3> DEFINE d == Dates(hdu[i], utc)
      <3>2. /\ d \in HduRec /\ d.rdwrt = hdu[i].rdwrt /\ d.pos = hdu[i].pos
            /\ Len(d.open) = Len(hdu[i].open) /\ d.open # <<>> /\ d.sent = hdu[i].sent
            /\ Len(hdu[i].open) \in Nat /\ Len(hdu[i].sent) \in Nat
        BY <2>1, <3>1, DatesHdu DEF HduRec
      <3>3. Kept(d, FALSE, utc, pwcm.tidy)
        BY <2>1, <3>1, DatedKept
      <3> HIDE DEF d
      <3>4. CASE valid
        <4>1. Kept(Sends(d), TRUE, utc, pwcm.tidy)
          BY <1>3, <2>1, <3>1, <3>2, <3>3, <3>4, SentKept
        <4>2. f(hdu[i]) = Sends(d)
          BY <3>4 DEF d
        <4> HIDE DEF f
        <4> QED BY <3>2, <3>4, <4>1, <4>2, SendsHdu
      <3>5. CASE ~valid
        <4>1. f(hdu[i]) = d
          BY <3>5 DEF d
        <4> HIDE DEF f
        <4>2. Kept(d, valid, utc, pwcm.tidy)
          <5>1. valid = FALSE
            BY <3>5
          <5> QED BY Zenon, <3>3, <5>1
        <4> QED BY <3>2, <3>5, <4>1, <4>2
      <3> QED BY <3>4, <3>5
    <2>6. hdu' = [i \in Hdus |-> f(hdu[i])]
      BY Zenon, <1>3
    <2> HIDE DEF f
    <2>7. hdu' \in [Hdus -> HduRec] /\ \A i \in Hdus : hdu'[i] = f(hdu[i])
      BY <2>5, <2>6
    <2>8. HeadersEqual'
      BY <2>5, <2>7 DEF IInv, HeadersEqual
    <2>9. OpenAsStated'
      BY <1>0, <2>4, <2>5, <2>7 DEF IInv, OpenAsStated, Waits, DataLabels
    <2>10. HeadersKept'
      BY <2>4, <2>5, <2>7 DEF HeadersKept, Waits, DataLabels
    <2> QED BY <2>2, <2>3, <2>7, <2>8, <2>9, <2>10 DEF IInv, MultiTypes
  <1>4. ~(Returns("failed", -2) /\ UNCHANGED <<utc_start, hdu>>) =>
          \E utc \in {0, FirstUtc}, valid \in BOOLEAN :
             /\ valid => utc # 0
             /\ hdu' = [i \in Hdus |-> IF valid THEN Sends(Dates(hdu[i], utc))
                                       ELSE Dates(hdu[i], utc)]
             /\ utc_start' = IF utc = 0 THEN utc_start ELSE utc
             /\ pwcm' = [pwcm EXCEPT !.header_valid = valid, !.utc_buffer = utc,
                                     !.pc = "started"]
    BY ZenonT(60) DEF StartTransfer, ForAll, HeaderValid
  <1> QED BY <1>2, <1>3, <1>4

LEMMA StartedKeeps ==
    ASSUME IInv, Started
    PROVE  IInv'
  <1> DEFINE new == IF pwcm.command.code = "start" THEN "recording" ELSE "clocking"
             label == IF MayChange(state, new) THEN "loop" ELSE "failed"
  <1>0. /\ pwcm \in PwcmRec /\ pwcm.command \in Commands /\ hdu \in [Hdus -> HduRec]
        /\ PwcType /\ CommandsKept /\ pwcm.pc = "started" /\ state \in States
    BY InvTypes DEF Started, At
  <1>1. /\ PwcType' /\ CommandsKept' /\ UNCHANGED hdu
        /\ state' = IF MayChange(state, new) THEN new ELSE state
    <2>1. new \in States /\ SetState(new)
      BY DEF Started, States
    <2> HIDE DEF new
    <2>2. /\ state' = IF MayChange(state, new) THEN new ELSE state
          /\ state' \in States /\ utc_start' \in Nat
      BY <1>0, <2>1, SetStateKeeps DEF PwcType
    <2> QED BY <1>0, <2>2, StateKeeps DEF Started, PwcType
  <1>2. label \in {"loop", "failed"} /\ (label = "loop" => state' = new)
    BY <1>1
  <1>3. pwcm' = [pwcm EXCEPT
              !.stored = FALSE, !.total = 0, !.rval = -1, !.pc = label,
              !.transit_byte = pwcm.command.byte_count,
              !.bytes_to_write = pwcm.command.byte_count,
              !.buf_bytes = 0, !.buffer_size = 0]
    BY ZenonT(60) DEF Started
  <1> HIDE DEF label
  <1>4. pwcm' \in PwcmRec
    <2>1. pwcm.command.byte_count \in Int /\ label \in Labels
      BY <1>0, <1>2, FieldValues DEF Commands
    <2> QED BY ZenonT(60), <1>0, <1>3, <2>1, FieldValues DEF PwcmRec
  <1>5. /\ pwcm'.pc = label /\ pwcm'.header_valid = pwcm.header_valid
        /\ pwcm'.utc_buffer = pwcm.utc_buffer /\ pwcm'.tidy = pwcm.tidy
    BY <1>0, <1>3 DEF PwcmRec
  <1>6. HeadersEqual'
    BY <1>1 DEF IInv, HeadersEqual
  <1>7. OpenAsStated'
    BY <1>0, <1>1, <1>2, <1>5 DEF IInv, OpenAsStated, Waits, DataLabels
  <1>8. HeadersKept'
    BY <1>0, <1>1, <1>2, <1>5 DEF IInv, HeadersKept, Waits, DataLabels
  <1> QED BY <1>0, <1>1, <1>4, <1>6, <1>7, <1>8 DEF IInv, MultiTypes

LEMMA TransferQuitsKeeps ==
    ASSUME IInv, TransferQuits
    PROVE  IInv'
  <1>0. /\ pwcm \in PwcmRec /\ pwcm.command \in Commands /\ hdu \in [Hdus -> HduRec]
        /\ command \in Commands /\ PwcType /\ CommandsKept
    BY InvTypes
  <1>1. PwcType' /\ CommandsKept' /\ UNCHANGED <<state, hdu>>
    BY <1>0, NoCallKeeps DEF TransferQuits
  <1>2. pwcm' \in PwcmRec
    BY ZenonT(60), <1>0, FieldValues DEF TransferQuits, Returns, PwcmRec
  <1>3. pwcm'.pc \in {"stop"}
    BY <1>0 DEF TransferQuits, Returns, PwcmRec
  <1> QED BY <1>0, <1>1, <1>2, <1>3, Ends DEF Waits, DataLabels

LEMMA NoCommandKeeps ==
    ASSUME IInv, NoCommand
    PROVE  IInv'
  <1>0. /\ pwcm \in PwcmRec /\ pwcm.command \in Commands /\ hdu \in [Hdus -> HduRec]
        /\ command \in Commands /\ PwcType /\ CommandsKept
    BY InvTypes
  <1>1. PwcType' /\ CommandsKept' /\ UNCHANGED <<state, hdu>>
    BY <1>0, NoCallKeeps DEF NoCommand
  <1>2. pwcm' \in PwcmRec
    BY ZenonT(60), <1>0, FieldValues DEF NoCommand, Goto, PwcmRec
  <1>3. /\ pwcm.pc = "loop" /\ pwcm'.pc = "buffer"
        /\ pwcm'.header_valid = pwcm.header_valid /\ pwcm'.utc_buffer = pwcm.utc_buffer
        /\ pwcm'.tidy = pwcm.tidy /\ pwcm'.lost = pwcm.lost
    BY <1>0 DEF NoCommand, At, Goto, PwcmRec
  <1> QED BY <1>0, <1>1, <1>2, <1>3, GoesOn DEF Waits, DataLabels

LEMMA TakeUtcStartKeeps ==
    ASSUME IInv, TakeUtcStart
    PROVE  IInv'
  <1> DEFINE first == pwcm.utc_buffer = 0
             records == first /\ state = "recording"
             utc == command.utc
             next == IF first THEN utc ELSE pwcm.utc_buffer
  <1>0. /\ pwcm \in PwcmRec /\ pwcm.command \in Commands /\ hdu \in [Hdus -> HduRec]
        /\ PwcType /\ CommandsKept /\ pwcm.pc = "loop" /\ command \in Commands
        /\ utc \in Nat /\ pwcm.utc_buffer \in Nat /\ pwcm.header_valid \in BOOLEAN
        /\ pwcm.tidy \in BOOLEAN
    BY InvTypes, PwcmFields DEF TakeUtcStart, At, Commands
  <1>1. PwcType' /\ CommandsKept' /\ UNCHANGED state
    BY <1>0, TakeKeeps DEF TakeUtcStart
  <1> DEFINE f(h, valid) == IF ~first THEN h
                            ELSE IF records /\ valid THEN Sends(Dates(h, utc))
                            ELSE Dates(h, utc)
  <1>2. PICK valid \in IF records THEN HeaderValid(utc) ELSE {pwcm.header_valid} :
          /\ pwcm' = [pwcm EXCEPT !.command = command, !.header_valid = valid,
                                  !.utc_buffer = next, !.pc = "buffer"]
          /\ hdu' = [i \in Hdus |-> f(hdu[i], valid)]
    BY ZenonT(60) DEF TakeUtcStart, ForAll
  <1>3. /\ valid \in BOOLEAN /\ (records /\ valid => utc # 0)
        /\ ~records => valid = pwcm.header_valid
    BY <1>0, <1>2, ValidUtc
  <1>4. pwcm' \in PwcmRec
    <2>1. next \in Nat
      BY <1>0
    <2> HIDE DEF next
    <2> QED BY ZenonT(60), <1>0, <1>2, <1>3, <2>1, FieldValues DEF PwcmRec
  <1>5. /\ pwcm'.pc = "buffer" /\ pwcm'.header_valid = valid /\ pwcm'.utc_buffer = next
        /\ pwcm'.tidy = pwcm.tidy /\ pwcm'.lost = pwcm.lost
    BY <1>0, <1>2 DEF PwcmRec
  <1> DEFINE n == IF records /\ valid THEN 1 ELSE 0
             g(h) == f(h, valid)
  <1>6. ASSUME NEW i \in Hdus
        PROVE  /\ g(hdu[i]) \in HduRec /\ g(hdu[i]).rdwrt = hdu[i].rdwrt
               /\ g(hdu[i]).pos = hdu[i].pos
               /\ Len(g(hdu[i]).open) = Len(hdu[i].open) - n
               /\ Len(g(hdu[i]).sent) = Len(hdu[i].sent) + n
               /\ Kept(g(hdu[i]), valid, next, pwcm.tidy)
    <2>1. /\ hdu[i] \in HduRec /\ Len(hdu[i].open) \in Nat /\ Len(hdu[i].sent) \in Nat
          /\ Kept(hdu[i], pwcm.header_valid, pwcm.utc_buffer, pwcm.tidy)
      BY <1>0 DEF IInv, HeadersKept, DataLabels, HduRec
    <2>2. CASE ~first
      BY <1>3, <2>1, <2>2
    <2>3. CASE first
      <3>1. Kept(hdu[i], pwcm.header_valid, 0, pwcm.tidy) /\ hdu[i].open # <<>>
        BY <2>1, <2>3 DEF Kept
      <3> DEFINE d == Dates(hdu[i], utc)
      <3>2. /\ d \in HduRec /\ d.rdwrt = hdu[i].rdwrt /\ d.pos = hdu[i].pos
            /\ Len(d.open) = Len(hdu[i].open) /\ d.open # <<>> /\ d.sent = hdu[i].sent
        BY <1>0, <2>1, <3>1, DatesHdu
      <3>3. /\ Kept(d, FALSE, utc, pwcm.tidy)
            /\ Kept(d, pwcm.header_valid, utc, pwcm.tidy)
        BY <1>0, <2>1, <3>1, DatedKept
      <3> HIDE DEF d
      <3>4. CASE records /\ valid
        <4>1. Kept(Sends(d), TRUE, utc, pwcm.tidy)
          BY <1>0, <1>3, <3>2, <3>3, <3>4, SentKept
        <4>2. g(hdu[i]) = Sends(d) /\ n = 1 /\ next = utc /\ valid = TRUE
          BY <1>3, <2>3, <3>4 DEF d
        <4> HIDE DEF g, f, n, next
        <4> QED BY <2>1, <3>2, <4>1, <4>2, SendsHdu
      <3>5. CASE ~(records /\ valid)
        <4>1. g(hdu[i]) = d /\ n = 0 /\ next = utc /\ (valid = FALSE \/ valid = pwcm.header_valid)
          BY <1>3, <2>3, <3>5 DEF d
        <4> HIDE DEF g, f, n, next
        <4>2. Kept(d, valid, next, pwcm.tidy)
          BY Zenon, <3>3, <4>1
        <4> QED BY <2>1, <3>2, <4>1, <4>2
      <3> QED BY <3>4, <3>5
    <2> QED BY <2>2, <2>3
  <1>7. hdu' = [i \in Hdus |-> g(hdu[i])]
    BY <1>2
  <1> HIDE DEF g, f, n, next
  <1>8. hdu' \in [Hdus -> HduRec] /\ \A i \in Hdus : hdu'[i] = g(hdu[i])
    BY <1>6, <1>7
  <1>9. HeadersEqual'
    BY <1>6, <1>8 DEF IInv, HeadersEqual
  <1>10. pwcm'.lost \/ \A i, j \in Hdus : hdu'[i].pos = hdu'[j].pos
    BY <1>0, <1>5, <1>6, <1>8 DEF IInv, OpenAsStated, DataLabels
  <1> QED BY <1>0, <1>1, <1>4, <1>5, <1>6, <1>8, <1>9, <1>10, DataStep DEF DataLabels

LEMMA TakeCommandKeeps ==
    ASSUME IInv, TakeCommand
    PROVE  IInv'
  <1>0. /\ pwcm \in PwcmRec /\ pwcm.command \in Commands /\ hdu \in [Hdus -> HduRec]
        /\ command \in Commands /\ PwcType /\ CommandsKept
    BY InvTypes
  <1>1. PwcType' /\ CommandsKept' /\ UNCHANGED <<state, hdu>>
    BY <1>0, TakeKeeps DEF TakeCommand
  <1>2. pwcm' \in PwcmRec
    <2>1. /\ command.byte_count \in Int /\ pwcm.total \in Int
          /\ command.byte_count - pwcm.total \in Int
      BY <1>0, PwcmFields DEF Commands
    <2> QED BY ZenonT(60), <1>0, <2>1, FieldValues DEF TakeCommand, PwcmRec
  <1>3. /\ pwcm.pc = "loop" /\ pwcm'.pc = "buffer"
        /\ pwcm'.header_valid = pwcm.header_valid /\ pwcm'.utc_buffer = pwcm.utc_buffer
        /\ pwcm'.tidy = pwcm.tidy /\ pwcm'.lost = pwcm.lost
    BY <1>0 DEF TakeCommand, At, PwcmRec
  <1> QED BY <1>0, <1>1, <1>2, <1>3, GoesOn DEF Waits, DataLabels

LEMMA TakeUnexpectedKeeps ==
    ASSUME IInv, TakeUnexpected
    PROVE  IInv'
  <1>0. /\ pwcm \in PwcmRec /\ pwcm.command \in Commands /\ hdu \in [Hdus -> HduRec]
        /\ command \in Commands /\ PwcType /\ CommandsKept
    BY InvTypes
  <1>1. PwcType' /\ CommandsKept' /\ UNCHANGED <<state, hdu>>
    BY <1>0, TakeKeeps DEF TakeUnexpected
  <1>2. pwcm' \in PwcmRec
    BY ZenonT(60), <1>0, FieldValues DEF TakeUnexpected, PwcmRec
  <1>3. pwcm'.pc \in {"failed"}
    BY <1>0 DEF TakeUnexpected, PwcmRec
  <1> QED BY <1>0, <1>1, <1>2, <1>3, Ends DEF Waits, DataLabels

\* After buffer_function the first header goes out if it has become valid.
Goes(valid) == IF valid /\ ~pwcm.header_valid THEN 1 ELSE 0

LEMMA TestedHdu ==
    ASSUME IInv, pwcm.pc = "buffer", NEW valid \in HeaderTest, NEW i \in Hdus
    PROVE  /\ valid \in BOOLEAN /\ Goes(valid) \in Int
           /\ Tested(hdu[i], valid) \in HduRec
           /\ Tested(hdu[i], valid).rdwrt = hdu[i].rdwrt
           /\ Tested(hdu[i], valid).pos = hdu[i].pos
           /\ Len(Tested(hdu[i], valid).open) = Len(hdu[i].open) - Goes(valid)
           /\ Len(Tested(hdu[i], valid).sent) = Len(hdu[i].sent) + Goes(valid)
           /\ Kept(Tested(hdu[i], valid), valid, pwcm.utc_buffer, pwcm.tidy)
  <1>1. /\ hdu[i] \in HduRec /\ Len(hdu[i].open) \in Nat /\ Len(hdu[i].sent) \in Nat
        /\ Kept(hdu[i], pwcm.header_valid, pwcm.utc_buffer, pwcm.tidy)
        /\ pwcm.header_valid \in BOOLEAN /\ pwcm.utc_buffer \in Nat /\ pwcm.tidy \in BOOLEAN
    <2>1. hdu[i] \in HduRec /\ pwcm \in PwcmRec
      BY InvTypes
    <2>2. hdu[i].open \in Seq(Nat) /\ hdu[i].sent \in Seq(Nat)
      BY <2>1 DEF HduRec
    <2>3. Kept(hdu[i], pwcm.header_valid, pwcm.utc_buffer, pwcm.tidy)
      BY DEF IInv, HeadersKept, DataLabels
    <2> QED BY <2>1, <2>2, <2>3, PwcmFields
  <1>2. CASE valid = pwcm.header_valid
    <2>1. Tested(hdu[i], valid) = hdu[i] /\ Goes(valid) = 0
      BY <1>2 DEF Tested, Goes
    <2>2. Kept(hdu[i], valid, pwcm.utc_buffer, pwcm.tidy)
      BY Zenon, <1>1, <1>2
    <2> QED BY <1>1, <1>2, <2>1, <2>2
  <1>3. CASE valid # pwcm.header_valid
    <2>1. valid = TRUE /\ pwcm.header_valid = FALSE /\ pwcm.utc_buffer # 0
      BY <1>1, <1>3, ValidUtc DEF HeaderTest
    <2>2. Tested(hdu[i], valid) = Sends(hdu[i]) /\ Goes(valid) = 1
      BY <2>1 DEF Tested, Goes
    <2>3. Kept(hdu[i], FALSE, pwcm.utc_buffer, pwcm.tidy)
      BY Zenon, <1>1, <2>1
    <2>4. Kept(Sends(hdu[i]), TRUE, pwcm.utc_buffer, pwcm.tidy) /\ hdu[i].open # <<>>
      BY <1>1, <2>1, <2>3, SentKept DEF Kept
    <2>5. Kept(Sends(hdu[i]), valid, pwcm.utc_buffer, pwcm.tidy)
      BY Zenon, <2>1, <2>4
    <2> QED BY <1>1, <2>1, <2>2, <2>4, <2>5, SendsHdu
  <1> QED BY <1>2, <1>3

LEMMA BufBytesInt ==
    ASSUME IInv
    PROVE  /\ BufBytes \in Int /\ BUFFER \in Int /\ pwcm.total + BufBytes \in Int
           /\ pwcm.bytes_to_write \in Int /\ pwcm.bytes_to_write - BufBytes \in Int
  BY InvTypes, PwcmFields, MultiAssumption DEF BufBytes

\* What follows the header is written to all HDUs.
LEMMA WroteAll ==
    ASSUME IInv, pwcm.pc = "buffer", NEW valid \in HeaderTest, NEW n \in Int,
           hdu' = [i \in Hdus |-> Wrote(Tested(hdu[i], valid), n)], PwcType', CommandsKept',
           pwcm' \in PwcmRec, pwcm'.pc = "transit", pwcm'.header_valid = valid,
           pwcm'.utc_buffer = pwcm.utc_buffer, pwcm'.tidy = pwcm.tidy,
           pwcm'.lost = pwcm.lost, UNCHANGED state
    PROVE  IInv'
  <1> DEFINE t(h) == Tested(h, valid)
             g(h) == Wrote(t(h), n)
  <1>0. hdu \in [Hdus -> HduRec]
    BY InvTypes
  <1>1. ASSUME NEW i \in Hdus
        PROVE  /\ g(hdu[i]) \in HduRec /\ g(hdu[i]).rdwrt = hdu[i].rdwrt
               /\ g(hdu[i]).pos = hdu[i].pos + n
               /\ Len(g(hdu[i]).open) = Len(hdu[i].open) - Goes(valid)
               /\ Len(g(hdu[i]).sent) = Len(hdu[i].sent) + Goes(valid)
               /\ Kept(g(hdu[i]), valid, pwcm.utc_buffer, pwcm.tidy)
    <2>1. /\ t(hdu[i]) \in HduRec /\ t(hdu[i]).rdwrt = hdu[i].rdwrt
          /\ t(hdu[i]).pos = hdu[i].pos
          /\ Len(t(hdu[i]).open) = Len(hdu[i].open) - Goes(valid)
          /\ Len(t(hdu[i]).sent) = Len(hdu[i].sent) + Goes(valid)
          /\ Kept(t(hdu[i]), valid, pwcm.utc_buffer, pwcm.tidy)
      BY Zenon, TestedHdu
    <2> HIDE DEF t
    <2>2. /\ g(hdu[i]) \in HduRec /\ g(hdu[i]).rdwrt = t(hdu[i]).rdwrt
          /\ g(hdu[i]).pos = t(hdu[i]).pos + n
          /\ g(hdu[i]).open = t(hdu[i]).open /\ g(hdu[i]).sent = t(hdu[i]).sent
      BY <2>1, WroteHdu
    <2>3. Kept(g(hdu[i]), valid, pwcm.utc_buffer, pwcm.tidy)
      BY Zenon, <2>1, <2>2 DEF Kept
    <2> HIDE DEF g
    <2> QED BY <2>1, <2>2, <2>3
  <1>2. hdu' = [i \in Hdus |-> g(hdu[i])]
    OBVIOUS
  <1> HIDE DEF g
  <1>3. hdu' \in [Hdus -> HduRec] /\ \A i \in Hdus : hdu'[i] = g(hdu[i])
    BY <1>1, <1>2
  <1>4. HeadersEqual'
    BY <1>1, <1>3 DEF IInv, HeadersEqual
  <1>5. pwcm'.lost \/ \A i, j \in Hdus : hdu'[i].pos = hdu'[j].pos
    BY <1>1, <1>3 DEF IInv, OpenAsStated, DataLabels
  <1>6. \A i \in Hdus : Kept(hdu'[i], pwcm'.header_valid, pwcm'.utc_buffer, pwcm'.tidy)
    BY Zenon, <1>1, <1>3
  <1> QED BY <1>1, <1>3, <1>4, <1>5, <1>6, DataStep DEF DataLabels

LEMMA BufferKeeps ==
    ASSUME IInv, Buffer
    PROVE  IInv'
  <1>0. /\ pwcm \in PwcmRec /\ PwcType /\ CommandsKept /\ pwcm.pc = "buffer"
        /\ 1 \in Hdus
    BY InvTypes DEF Buffer, At
  <1>1. PwcType' /\ CommandsKept' /\ UNCHANGED state
    BY <1>0, NoCallKeeps DEF Buffer
  <1>2. PICK valid \in HeaderTest :
          /\ hdu' = [i \in Hdus |-> Wrote(Tested(hdu[i], valid), BufBytes)]
          /\ pwcm' = [pwcm EXCEPT !.header_valid = valid,
                !.buffer_size = BUFFER, !.buf_bytes = BufBytes, !.total = @ + BufBytes,
                !.bytes_to_write = IF @ > BufBytes THEN @ - BufBytes ELSE 0,
                !.pc = "transit"]
    BY ZenonT(60) DEF Buffer, ForAll
  <1>3. valid \in BOOLEAN
    BY <1>0, TestedHdu
  <1>4. pwcm' \in PwcmRec
    BY ZenonT(60), <1>0, <1>2, <1>3, BufBytesInt, FieldValues DEF PwcmRec
  <1>5. /\ pwcm'.pc = "transit" /\ pwcm'.header_valid = valid
        /\ pwcm'.utc_buffer = pwcm.utc_buffer /\ pwcm'.tidy = pwcm.tidy
        /\ pwcm'.lost = pwcm.lost
    BY <1>0, <1>2 DEF PwcmRec
  <1> QED BY <1>0, <1>1, <1>2, <1>4, <1>5, BufBytesInt, WroteAll

LEMMA BufferNotDueKeeps ==
    ASSUME IInv, BufferNotDue
    PROVE  IInv'
  <1>0. /\ pwcm \in PwcmRec /\ pwcm.command \in Commands /\ hdu \in [Hdus -> HduRec]
        /\ command \in Commands /\ PwcType /\ CommandsKept
    BY InvTypes
  <1>1. PwcType' /\ CommandsKept' /\ UNCHANGED <<state, hdu>>
    BY <1>0, NoCallKeeps DEF BufferNotDue
  <1>2. pwcm' \in PwcmRec
    BY ZenonT(60), <1>0, FieldValues DEF BufferNotDue, Goto, PwcmRec
  <1>3. /\ pwcm.pc = "buffer" /\ pwcm'.pc = "transit"
        /\ pwcm'.header_valid = pwcm.header_valid /\ pwcm'.utc_buffer = pwcm.utc_buffer
        /\ pwcm'.tidy = pwcm.tidy /\ pwcm'.lost = pwcm.lost
    BY <1>0 DEF BufferNotDue, At, Goto, PwcmRec
  <1> QED BY <1>0, <1>1, <1>2, <1>3, GoesOn DEF Waits, DataLabels

LEMMA BufferEmptyKeeps ==
    ASSUME IInv, BufferEmpty
    PROVE  IInv'
  <1>0. /\ pwcm \in PwcmRec /\ PwcType /\ CommandsKept /\ pwcm.pc = "buffer"
        /\ 1 \in Hdus /\ hdu \in [Hdus -> HduRec]
    BY InvTypes DEF BufferEmpty, At
  <1>1. PwcType' /\ CommandsKept' /\ UNCHANGED state
    BY <1>0, NoCallKeeps DEF BufferEmpty
  <1>2. PICK valid \in HeaderTest :
          /\ hdu' = [i \in Hdus |-> Tested(hdu[i], valid)]
          /\ pwcm' = [pwcm EXCEPT !.header_valid = valid, !.buffer_size = 0,
                                  !.buf_bytes = 0, !.pc = "transit"]
    BY ZenonT(60) DEF BufferEmpty, ForAll
  <1>3. valid \in BOOLEAN
    BY <1>0, TestedHdu
  <1>4. pwcm' \in PwcmRec
    BY ZenonT(60), <1>0, <1>2, <1>3, FieldValues DEF PwcmRec
  <1>5. /\ pwcm'.pc = "transit" /\ pwcm'.header_valid = valid
        /\ pwcm'.utc_buffer = pwcm.utc_buffer /\ pwcm'.tidy = pwcm.tidy
        /\ pwcm'.lost = pwcm.lost
    BY <1>0, <1>2 DEF PwcmRec
  <1> DEFINE g(h) == Tested(h, valid)
  <1>6. ASSUME NEW i \in Hdus
        PROVE  /\ g(hdu[i]) \in HduRec /\ g(hdu[i]).rdwrt = hdu[i].rdwrt
               /\ g(hdu[i]).pos = hdu[i].pos
               /\ Len(g(hdu[i]).open) = Len(hdu[i].open) - Goes(valid)
               /\ Len(g(hdu[i]).sent) = Len(hdu[i].sent) + Goes(valid)
               /\ Kept(g(hdu[i]), valid, pwcm.utc_buffer, pwcm.tidy)
    BY Zenon, <1>0, TestedHdu
  <1>7. hdu' = [i \in Hdus |-> g(hdu[i])]
    BY <1>2
  <1> HIDE DEF g
  <1>8. hdu' \in [Hdus -> HduRec] /\ \A i \in Hdus : hdu'[i] = g(hdu[i])
    BY <1>6, <1>7
  <1>9. HeadersEqual'
    BY <1>6, <1>8 DEF IInv, HeadersEqual
  <1>10. pwcm'.lost \/ \A i, j \in Hdus : hdu'[i].pos = hdu'[j].pos
    BY <1>0, <1>5, <1>6, <1>8 DEF IInv, OpenAsStated, DataLabels
  <1>11. \A i \in Hdus : Kept(hdu'[i], pwcm'.header_valid, pwcm'.utc_buffer, pwcm'.tidy)
    BY Zenon, <1>5, <1>6, <1>8
  <1> QED BY <1>0, <1>1, <1>4, <1>5, <1>6, <1>8, <1>9, <1>10, <1>11, DataStep
     DEF DataLabels

LEMMA BufferFailsKeeps ==
    ASSUME IInv, BufferFails
    PROVE  IInv'
  <1>0. /\ pwcm \in PwcmRec /\ PwcType /\ CommandsKept /\ pwcm.pc = "buffer"
        /\ hdu \in [Hdus -> HduRec] /\ 1 \in Int
    BY InvTypes DEF BufferFails, At
  <1>1. PwcType' /\ CommandsKept' /\ UNCHANGED state
    BY <1>0, NoCallKeeps DEF BufferFails
  <1>2. pwcm' \in PwcmRec
    BY ZenonT(60), <1>0, FieldValues DEF BufferFails, Returns, PwcmRec
  <1>3. pwcm'.pc = "failed"
    BY <1>0 DEF BufferFails, Returns, PwcmRec
  <1>4. CASE hdu' = [i \in Hdus |-> Wrote(hdu[i], 1)]
    <2>1. \A i \in Hdus : /\ Wrote(hdu[i], 1) \in HduRec
                          /\ Wrote(hdu[i], 1).open = hdu[i].open
                          /\ Wrote(hdu[i], 1).sent = hdu[i].sent
      BY <1>0, WroteHdu
    <2>2. hdu' \in [Hdus -> HduRec] /\ \A i \in Hdus : hdu'[i] = Wrote(hdu[i], 1)
      BY <1>4, <2>1
    <2> QED BY <1>1, <1>2, <1>3, <2>1, <2>2, Ends DEF Waits, DataLabels
  <1>5. CASE hdu' = hdu
    BY <1>0, <1>1, <1>2, <1>3, <1>5, Ends DEF Waits, DataLabels
  <1>6. ASSUME NEW k \in Hdus, NEW valid \in HeaderTest,
               hdu' = [i \in Hdus |-> IF i < k THEN Wrote(Tested(hdu[i], valid), BufBytes)
                                      ELSE Tested(hdu[i], valid)]
        PROVE  IInv'
    <2> DEFINE t(h) == Tested(h, valid)
    <2>1. ASSUME NEW i \in Hdus
          PROVE  /\ t(hdu[i]) \in HduRec
                 /\ Len(t(hdu[i]).open) = Len(hdu[i].open) - Goes(valid)
                 /\ Len(t(hdu[i]).sent) = Len(hdu[i].sent) + Goes(valid)
      BY Zenon, <1>0, TestedHdu
    <2>2. hdu' = [i \in Hdus |-> IF i < k THEN Wrote(t(hdu[i]), BufBytes) ELSE t(hdu[i])]
      BY <1>6
    <2> HIDE DEF t
    <2>3. ASSUME NEW i \in Hdus
          PROVE  /\ Wrote(t(hdu[i]), BufBytes) \in HduRec
                 /\ Wrote(t(hdu[i]), BufBytes).open = t(hdu[i]).open
                 /\ Wrote(t(hdu[i]), BufBytes).sent = t(hdu[i]).sent
      BY <2>1, WroteHdu, BufBytesInt
    <2>4. /\ hdu' \in [Hdus -> HduRec]
          /\ \A i \in Hdus : hdu'[i].open = t(hdu[i]).open /\ hdu'[i].sent = t(hdu[i]).sent
      BY <2>1, <2>2, <2>3
    <2>5. HeadersEqual'
      BY <2>1, <2>4 DEF IInv, HeadersEqual
    <2>6. OpenAsStated' /\ HeadersKept'
      BY <1>3 DEF OpenAsStated, HeadersKept, Waits, DataLabels
    <2> QED BY <1>1, <1>2, <2>4, <2>5, <2>6 DEF IInv, MultiTypes
  <1>7. \/ hdu' = [i \in Hdus |-> Wrote(hdu[i], 1)] \/ hdu' = hdu
        \/ \E k \in Hdus, valid \in HeaderTest :
             hdu' = [i \in Hdus |-> IF i < k THEN Wrote(Tested(hdu[i], valid), BufBytes)
                                    ELSE Tested(hdu[i], valid)]
    BY DEF BufferFails, ForAll
  <1> QED BY <1>4, <1>5, <1>6, <1>7

LEMMA NotReachedKeeps ==
    ASSUME IInv, NotReached
    PROVE  IInv'
  <1>0. /\ pwcm \in PwcmRec /\ pwcm.command \in Commands /\ hdu \in [Hdus -> HduRec]
        /\ command \in Commands /\ PwcType /\ CommandsKept
    BY InvTypes
  <1>1. PwcType' /\ CommandsKept' /\ UNCHANGED <<state, hdu>>
    BY <1>0, NoCallKeeps DEF NotReached
  <1>2. pwcm' \in PwcmRec
    BY ZenonT(60), <1>0, FieldValues DEF NotReached, Goto, PwcmRec
  <1>3. /\ pwcm.pc = "transit" /\ pwcm'.pc = "loop"
        /\ pwcm'.header_valid = pwcm.header_valid /\ pwcm'.utc_buffer = pwcm.utc_buffer
        /\ pwcm'.tidy = pwcm.tidy /\ pwcm'.lost = pwcm.lost
    BY <1>0 DEF NotReached, At, Goto, PwcmRec
  <1> QED BY <1>0, <1>1, <1>2, <1>3, GoesOn DEF Waits, DataLabels

LEMMA RecordStartKeeps ==
    ASSUME IInv, RecordStart
    PROVE  IInv'
  <1> DEFINE utc == pwcm.command.utc
             opened(h) == Opens(h, Header(h))
             dated(h)  == Dates(opened(h), utc)
             starts(h) == Mode(dated(h), "W")
             sends(h)  == IF pwcm.header_valid THEN starts(h) ELSE Sends(starts(h))
             tidy == pwcm.tidy /\ pwcm.utc_buffer # 0
             n == IF pwcm.header_valid THEN 0 ELSE 1
  <1>0. /\ pwcm \in PwcmRec /\ pwcm.command \in Commands /\ hdu \in [Hdus -> HduRec]
        /\ PwcType /\ CommandsKept /\ pwcm.pc = "transit" /\ 1 \in Hdus
        /\ utc \in Nat /\ pwcm.utc_buffer \in Nat /\ pwcm.header_valid \in BOOLEAN
        /\ pwcm.tidy \in BOOLEAN /\ pwcm.lost \in BOOLEAN
    BY InvTypes, PwcmFields DEF RecordStart, At, Commands
  <1>1. PwcType' /\ CommandsKept'
    BY <1>0, StateKeeps, SetStateKeeps DEF PwcType, States, RecordStart
  <1>2. ASSUME NEW i \in Hdus
        PROVE  /\ opened(hdu[i]) \in HduRec /\ dated(hdu[i]) \in HduRec
               /\ starts(hdu[i]) \in HduRec
               /\ Len(opened(hdu[i]).open) = Len(hdu[i].open) + 1
               /\ Len(dated(hdu[i]).open) = Len(hdu[i].open) + 1
               /\ Len(starts(hdu[i]).open) = Len(hdu[i].open) + 1
               /\ opened(hdu[i]).sent = hdu[i].sent /\ dated(hdu[i]).sent = hdu[i].sent
               /\ starts(hdu[i]).sent = hdu[i].sent /\ starts(hdu[i]).open # <<>>
               /\ starts(hdu[i]).rdwrt = "W" /\ starts(hdu[i]).pos = hdu[i].pos
               /\ hdu[i].open # <<>> => Head(starts(hdu[i]).open) = Head(hdu[i].open)
    <2>1. /\ hdu[i] \in HduRec
          /\ Kept(hdu[i], pwcm.header_valid, pwcm.utc_buffer, pwcm.tidy)
      BY <1>0 DEF IInv, HeadersKept, DataLabels
    <2>2. Header(hdu[i]) \in Nat /\ hdu[i].open \in Seq(Nat) /\ Len(hdu[i].open) \in Nat
      BY <1>0, <2>1, HeaderNat DEF HduRec
    <2> DEFINE o == opened(hdu[i])
    <2>3. /\ o \in HduRec /\ o.pos = hdu[i].pos /\ o.sent = hdu[i].sent
          /\ Len(o.open) = Len(hdu[i].open) + 1 /\ o.open # <<>>
          /\ hdu[i].open # <<>> => Head(o.open) = Head(hdu[i].open)
      <3> DEFINE a == Append(hdu[i].open, Header(hdu[i]))
      <3>1. o \in HduRec /\ o.pos = hdu[i].pos /\ o.sent = hdu[i].sent /\ o.open = a
        BY <2>1, <2>2, OpensHdu
      <3>2. /\ Len(a) = Len(hdu[i].open) + 1 /\ a # <<>>
            /\ hdu[i].open # <<>> => Head(a) = Head(hdu[i].open)
        BY <2>2, Appended
      <3> HIDE DEF a, o
      <3> QED BY <3>1, <3>2
    <2> HIDE DEF opened
    <2> DEFINE d == Dates(o, utc)
    <2>4. /\ d \in HduRec /\ d.pos = o.pos /\ d.sent = o.sent
          /\ Len(d.open) = Len(o.open) /\ d.open # <<>>
          /\ Len(o.open) > 1 => Head(d.open) = Head(o.open)
      BY <1>0, <2>3, DatesHdu
    <2> HIDE DEF o, d
    <2>5. /\ Mode(d, "W") \in HduRec /\ Mode(d, "W").rdwrt = "W" /\ Mode(d, "W").pos = d.pos
          /\ Mode(d, "W").open = d.open /\ Mode(d, "W").sent = d.sent
      BY <2>4, ModeHdu
    <2>6. hdu[i].open # <<>> => Len(hdu[i].open) > 0
      BY <2>2
    <2>7. starts(hdu[i]) = Mode(d, "W") /\ dated(hdu[i]) = d /\ opened(hdu[i]) = o
      BY DEF o, d
    <2> HIDE DEF starts, dated
    <2> QED BY <2>2, <2>3, <2>4, <2>5, <2>6, <2>7
  <1>3. CASE /\ \A i \in Hdus : hdu[i].rdwrt = "w"
             /\ hdu' = [i \in Hdus |-> sends(hdu[i])]
             /\ SetState("recording")
             /\ pwcm' = [pwcm EXCEPT !.header_valid = TRUE, !.pc = "rest",
                                     !.transit_byte = 0, !.tidy = tidy]
    <2>1. tidy \in BOOLEAN
      BY <1>0
    <2>2. state' = "recording"
      <3>1. state = "clocking"
        BY <1>0, <1>3 DEF IInv, OpenAsStated, DataLabels
      <3> QED BY <1>3, <3>1, StateChanges DEF SetState
    <2> HIDE DEF tidy
    <2>3. pwcm' \in PwcmRec
      BY ZenonT(60), <1>0, <1>3, <2>1, FieldValues DEF PwcmRec
    <2>4. /\ pwcm'.pc = "rest" /\ pwcm'.header_valid = TRUE /\ pwcm'.tidy = tidy
          /\ pwcm'.utc_buffer = pwcm.utc_buffer /\ pwcm'.lost = pwcm.lost
      BY <1>0, <1>3 DEF PwcmRec
    <2>5. ASSUME NEW i \in Hdus
          PROVE  /\ sends(hdu[i]) \in HduRec /\ sends(hdu[i]).rdwrt = "W"
                 /\ sends(hdu[i]).pos = hdu[i].pos
                 /\ Len(sends(hdu[i]).open) = Len(hdu[i].open) + 1 - n
                 /\ Len(sends(hdu[i]).sent) = Len(hdu[i].sent) + n
                 /\ Kept(sends(hdu[i]), TRUE, pwcm.utc_buffer, tidy)
      <3> DEFINE s == starts(hdu[i])
      <3>1. /\ s \in HduRec /\ Len(s.open) = Len(hdu[i].open) + 1 /\ s.sent = hdu[i].sent
            /\ s.open # <<>> /\ s.rdwrt = "W" /\ s.pos = hdu[i].pos
            /\ hdu[i].open # <<>> => Head(s.open) = Head(hdu[i].open)
        BY Zenon, <1>2
      <3>2. /\ Kept(hdu[i], pwcm.header_valid, pwcm.utc_buffer, pwcm.tidy)
            /\ hdu[i] \in HduRec
        BY <1>0 DEF IInv, HeadersKept, DataLabels
      <3>3. Len(hdu[i].open) \in Nat /\ Len(hdu[i].sent) \in Nat
        <4>1. hdu[i].open \in Seq(Nat) /\ hdu[i].sent \in Seq(Nat)
          BY <3>2 DEF HduRec
        <4> QED BY <4>1
      <3> HIDE DEF starts, s
      <3>4. CASE pwcm.header_valid
        <4>1. sends(hdu[i]) = s /\ n = 0
          BY <3>4 DEF s
        <4>2. Kept(s, TRUE, pwcm.utc_buffer, tidy)
          BY <1>0, <3>1, <3>2, <3>4 DEF Kept, tidy
        <4> HIDE DEF sends, n, tidy
        <4>3. Kept(sends(hdu[i]), TRUE, pwcm.utc_buffer, tidy)
          BY Zenon, <4>1, <4>2
        <4>4. Len(s.open) = Len(hdu[i].open) + 1 - 0
          BY <3>1, <3>3
        <4>5. Len(s.sent) = Len(hdu[i].sent) + 0
          BY <3>1, <3>3
        <4> QED BY Zenon, <3>1, <4>1, <4>3, <4>4, <4>5
      <3>5. CASE ~pwcm.header_valid
        <4>1. sends(hdu[i]) = Sends(s) /\ n = 1
          BY <3>5 DEF s
        <4>2. /\ Sends(s) \in HduRec /\ Sends(s).rdwrt = s.rdwrt /\ Sends(s).pos = s.pos
              /\ Len(Sends(s).open) = Len(s.open) - 1 /\ Sends(s).sent # <<>>
              /\ Len(Sends(s).sent) = Len(s.sent) + 1
              /\ s.sent = <<>> => Sends(s).sent = <<Head(s.open)>>
          BY <3>1, SendsHdu
        <4>3. Len(hdu[i].open) > 0
          <5>1. hdu[i].open # <<>> /\ hdu[i].open \in Seq(Nat)
            BY <3>2, <3>5 DEF Kept, HduRec
          <5> QED BY <5>1
        <4>4. Sends(s).open # <<>>
          <5>1. Len(Sends(s).open) > 0 /\ Sends(s).open \in Seq(Nat)
            BY <3>1, <3>3, <4>2, <4>3 DEF HduRec
          <5> QED BY <5>1
        <4>5. tidy => hdu[i].sent = <<>> /\ Head(hdu[i].open) = pwcm.utc_buffer
          <5>1. tidy => hdu[i].sent = <<>> /\ hdu[i].open = <<pwcm.utc_buffer>>
            BY <3>2, <3>5 DEF Kept, tidy
          <5>2. Head(<<pwcm.utc_buffer>>) = pwcm.utc_buffer
            OBVIOUS
          <5> QED BY <5>1, <5>2
        <4>6. Kept(Sends(s), TRUE, pwcm.utc_buffer, tidy)
          <5>1. hdu[i].open # <<>>
            BY <3>2, <3>5 DEF Kept
          <5>2. tidy => Sends(s).sent = <<pwcm.utc_buffer>> /\ pwcm.utc_buffer # 0
            BY Zenon, <3>1, <4>2, <4>5, <5>1 DEF tidy
          <5> QED BY <4>2, <4>4, <5>2 DEF Kept
        <4> HIDE DEF sends, n, tidy
        <4>7. Kept(sends(hdu[i]), TRUE, pwcm.utc_buffer, tidy)
          BY Zenon, <4>1, <4>6
        <4>8. Len(Sends(s).open) = Len(hdu[i].open) + 1 - 1
          BY <3>1, <3>3, <4>2
        <4>9. Len(Sends(s).sent) = Len(hdu[i].sent) + 1
          BY <3>1, <4>2
        <4> QED BY <3>1, <4>1, <4>2, <4>7, <4>8, <4>9
      <3> QED BY <3>4, <3>5
    <2> HIDE DEF sends, n
    <2>6. hdu' \in [Hdus -> HduRec] /\ \A i \in Hdus : hdu'[i] = sends(hdu[i])
      BY <1>3, <2>5
    <2>7. HeadersEqual'
      BY <2>5, <2>6 DEF IInv, HeadersEqual
    <2>8. OpenAsStated'
      <3>1. \A i \in Hdus : hdu'[i].rdwrt = "W" /\ hdu'[i].pos = hdu[i].pos
        BY <2>5, <2>6
      <3>2. pwcm.lost \/ \A i, j \in Hdus : hdu[i].pos = hdu[j].pos
        BY <1>0 DEF IInv, OpenAsStated, DataLabels
      <3> QED BY <2>2, <2>4, <3>1, <3>2 DEF OpenAsStated, Waits, DataLabels
    <2>9. HeadersKept'
      <3>1. \A i \in Hdus : Kept(hdu'[i], pwcm'.header_valid, pwcm'.utc_buffer, pwcm'.tidy)
        BY Zenon, <2>4, <2>5, <2>6
      <3> QED BY <2>4, <3>1 DEF HeadersKept, Waits, DataLabels
    <2> QED BY <1>1, <2>3, <2>6, <2>7, <2>8, <2>9 DEF IInv, MultiTypes
  <1>4. CASE /\ Returns("failed", -2)
             /\ \/ hdu' = [i \in Hdus |-> starts(hdu[i])]
                \/ \E k \in Hdus :
                     hdu' = [i \in Hdus |-> IF i < k THEN starts(hdu[i])
                                            ELSE IF i = k THEN dated(hdu[i])
                                            ELSE opened(hdu[i])]
    <2>1. pwcm' \in PwcmRec
      BY ZenonT(60), <1>0, <1>4, FieldValues DEF Returns, PwcmRec
    <2>2. pwcm'.pc = "failed"
      BY <1>0, <1>4 DEF Returns, PwcmRec
    <2> HIDE DEF starts, dated, opened
    <2>3. /\ hdu' \in [Hdus -> HduRec]
          /\ \A i \in Hdus : \/ hdu'[i] = starts(hdu[i]) \/ hdu'[i] = dated(hdu[i])
                             \/ hdu'[i] = opened(hdu[i])
      BY <1>2, <1>4
    <2>4. \A i \in Hdus : /\ Len(hdu'[i].open) = Len(hdu[i].open) + 1
                          /\ hdu'[i].sent = hdu[i].sent
      BY <1>2, <2>3
    <2>5. HeadersEqual'
      BY <2>4 DEF IInv, HeadersEqual
    <2>6. OpenAsStated' /\ HeadersKept'
      BY <2>2 DEF OpenAsStated, HeadersKept, Waits, DataLabels
    <2> QED BY <1>1, <2>1, <2>3, <2>5, <2>6 DEF IInv, MultiTypes
  <1> QED BY ZenonT(60), <1>3, <1>4 DEF RecordStart, ForAll

LEMMA RecordStopKeeps ==
    ASSUME IInv, RecordStop
    PROVE  IInv'
  <1> DEFINE stops(h) == Mode(h, "w")
  <1>0. /\ pwcm \in PwcmRec /\ hdu \in [Hdus -> HduRec] /\ PwcType /\ CommandsKept
        /\ pwcm.pc = "transit" /\ 1 \in Hdus
    BY InvTypes DEF RecordStop, At
  <1>1. PwcType' /\ CommandsKept'
    BY <1>0, StateKeeps, SetStateKeeps DEF PwcType, States, RecordStop
  <1>2. ASSUME NEW i \in Hdus
        PROVE  /\ stops(hdu[i]) \in HduRec /\ stops(hdu[i]).rdwrt = "w"
               /\ stops(hdu[i]).pos = hdu[i].pos /\ stops(hdu[i]).open = hdu[i].open
               /\ stops(hdu[i]).sent = hdu[i].sent
    BY <1>0, ModeHdu
  <1>3. CASE /\ \A i \in Hdus : hdu[i].rdwrt = "W"
             /\ hdu' = [i \in Hdus |-> stops(hdu[i])]
             /\ SetState("clocking")
             /\ pwcm' = [pwcm EXCEPT !.pc = "rest", !.transit_byte = 0]
    <2>1. state' = "clocking"
      <3>1. state = "recording"
        BY <1>0, <1>3 DEF IInv, OpenAsStated, DataLabels
      <3> QED BY <1>3, <3>1, StateChanges DEF SetState
    <2>2. pwcm' \in PwcmRec
      BY ZenonT(60), <1>0, <1>3, FieldValues DEF PwcmRec
    <2>3. /\ pwcm'.pc = "rest" /\ pwcm'.header_valid = pwcm.header_valid
          /\ pwcm'.tidy = pwcm.tidy
          /\ pwcm'.utc_buffer = pwcm.utc_buffer /\ pwcm'.lost = pwcm.lost
      BY <1>0, <1>3 DEF PwcmRec
    <2> HIDE DEF stops
    <2>4. hdu' \in [Hdus -> HduRec] /\ \A i \in Hdus : hdu'[i] = stops(hdu[i])
      BY <1>2, <1>3
    <2>5. HeadersEqual'
      BY <1>2, <2>4 DEF IInv, HeadersEqual
    <2>6. OpenAsStated'
      BY <1>0, <1>2, <2>1, <2>3, <2>4 DEF IInv, OpenAsStated, Waits, DataLabels
    <2>7. HeadersKept'
      <3>1. \A i \in Hdus : Kept(hdu[i], pwcm.header_valid, pwcm.utc_buffer, pwcm.tidy)
        BY <1>0 DEF IInv, HeadersKept, DataLabels
      <3>2. \A i \in Hdus : Kept(hdu'[i], pwcm'.header_valid, pwcm'.utc_buffer, pwcm'.tidy)
        BY <1>2, <2>3, <2>4, <3>1 DEF Kept
      <3> QED BY <2>3, <3>2 DEF HeadersKept, Waits, DataLabels
    <2> QED BY <1>1, <2>2, <2>4, <2>5, <2>6, <2>7 DEF IInv, MultiTypes
  <1>4. ASSUME NEW k \in Hdus, Returns("failed", -3),
               hdu' = [i \in Hdus |-> IF i < k THEN stops(hdu[i]) ELSE hdu[i]]
        PROVE  IInv'
    <2>1. pwcm' \in PwcmRec
      BY ZenonT(60), <1>0, <1>4, FieldValues DEF Returns, PwcmRec
    <2>2. pwcm'.pc = "failed"
      BY <1>0, <1>4 DEF Returns, PwcmRec
    <2> HIDE DEF stops
    <2>3. /\ hdu' \in [Hdus -> HduRec]
          /\ \A i \in Hdus : hdu'[i] = stops(hdu[i]) \/ hdu'[i] = hdu[i]
      BY <1>0, <1>2, <1>4
    <2> QED BY <1>1, <1>2, <2>1, <2>2, <2>3, Ends DEF Waits, DataLabels
  <1> QED BY ZenonT(60), <1>3, <1>4 DEF RecordStop, ForAll, UpTo

LEMMA TransitReturnsKeeps ==
    ASSUME IInv, TransitReturns
    PROVE  IInv'
  <1>0. /\ pwcm \in PwcmRec /\ hdu \in [Hdus -> HduRec] /\ PwcType /\ CommandsKept
    BY InvTypes
  <1>1. PwcType' /\ CommandsKept' /\ UNCHANGED <<state, hdu>>
    BY <1>0, NoCallKeeps DEF TransitReturns
  <1>2. pwcm' \in PwcmRec
    BY ZenonT(60), <1>0, FieldValues DEF TransitReturns, Returns, PwcmRec
  <1>3. /\ pwcm.pc = "transit" /\ pwcm'.pc \in {"stop", "failed", "rest"}
        /\ pwcm'.header_valid = pwcm.header_valid /\ pwcm'.utc_buffer = pwcm.utc_buffer
        /\ pwcm'.tidy = pwcm.tidy /\ pwcm'.lost = pwcm.lost
    BY <1>0 DEF TransitReturns, Returns, At, PwcmRec
  <1> QED BY <1>0, <1>1, <1>2, <1>3, Ends, GoesOn DEF Waits, DataLabels

LEMMA WriteRestKeeps ==
    ASSUME IInv, WriteRest
    PROVE  IInv'
  <1> DEFINE rest == pwcm.buffer_size - pwcm.buf_bytes
             f(h) == Wrote(h, rest)
  <1>0. /\ pwcm \in PwcmRec /\ hdu \in [Hdus -> HduRec] /\ PwcType /\ CommandsKept
        /\ pwcm.pc = "rest" /\ pwcm.lost \in BOOLEAN
        /\ rest \in Int /\ pwcm.total + pwcm.buf_bytes \in Int
    BY InvTypes, PwcmFields DEF WriteRest, At
  <1>1. PwcType' /\ CommandsKept' /\ UNCHANGED state
    BY <1>0, NoCallKeeps DEF WriteRest
  <1>2. ASSUME NEW i \in Hdus
        PROVE  /\ f(hdu[i]) \in HduRec /\ f(hdu[i]).rdwrt = hdu[i].rdwrt
               /\ f(hdu[i]).pos = hdu[i].pos + rest
               /\ f(hdu[i]).open = hdu[i].open /\ f(hdu[i]).sent = hdu[i].sent
    BY <1>0, WroteHdu
  <1>3. CASE pwcm' = [pwcm EXCEPT !.pc = "loop"] /\ UNCHANGED hdu
    <2>1. pwcm' \in PwcmRec
      BY ZenonT(60), <1>0, <1>3, FieldValues DEF PwcmRec
    <2>2. /\ pwcm'.pc = "loop" /\ pwcm'.header_valid = pwcm.header_valid
          /\ pwcm'.utc_buffer = pwcm.utc_buffer
          /\ pwcm'.tidy = pwcm.tidy /\ pwcm'.lost = pwcm.lost
      BY <1>0, <1>3 DEF PwcmRec
    <2> QED BY <1>0, <1>1, <1>3, <2>1, <2>2, GoesOn DEF DataLabels
  <1>4. ASSUME NEW lost \in BOOLEAN,
               pwcm' = [pwcm EXCEPT !.total = @ + pwcm.buf_bytes,
                                    !.lost = @ \/ lost, !.pc = "loop"],
               \/ hdu' = [i \in Hdus |-> f(hdu[i])]
               \/ /\ lost
                  /\ \E k \in Hdus :
                       hdu' = [i \in Hdus |-> IF i = k THEN hdu[i] ELSE f(hdu[i])]
        PROVE  IInv'
    <2>1. pwcm' \in PwcmRec
      <3> DEFINE l == pwcm.lost \/ lost
      <3>1. l \in BOOLEAN
        BY <1>0
      <3> HIDE DEF l
      <3>2. pwcm' = [pwcm EXCEPT !.total = pwcm.total + pwcm.buf_bytes, !.lost = l,
                                 !.pc = "loop"]
        BY Zenon, <1>4 DEF l
      <3> QED BY ZenonT(60), <1>0, <3>1, <3>2, FieldValues DEF PwcmRec
    <2>2. /\ pwcm'.pc = "loop" /\ pwcm'.header_valid = pwcm.header_valid
          /\ pwcm'.utc_buffer = pwcm.utc_buffer
          /\ pwcm'.tidy = pwcm.tidy /\ pwcm'.lost = (pwcm.lost \/ lost)
      BY <1>0, <1>4 DEF PwcmRec
    <2> HIDE DEF f
    <2>3. /\ hdu' \in [Hdus -> HduRec]
          /\ \A i \in Hdus : hdu'[i] = f(hdu[i]) \/ hdu'[i] = hdu[i]
          /\ lost \/ \A i \in Hdus : hdu'[i] = f(hdu[i])
      BY <1>0, <1>2, <1>4
    <2>4. \A i \in Hdus : /\ hdu'[i].open = hdu[i].open /\ hdu'[i].sent = hdu[i].sent
                          /\ hdu'[i].rdwrt = hdu[i].rdwrt
      BY <1>2, <2>3
    <2>5. HeadersEqual'
      BY <2>4 DEF IInv, HeadersEqual
    <2>6. pwcm'.lost \/ \A i, j \in Hdus : hdu'[i].pos = hdu'[j].pos
      <3>1. lost \/ pwcm.lost \/ \A i, j \in Hdus : hdu'[i].pos = hdu'[j].pos
        BY <1>0, <1>2, <2>3 DEF IInv, OpenAsStated, DataLabels
      <3> QED BY Zenon, <2>2, <3>1
    <2>7. \A i \in Hdus : Kept(hdu'[i], pwcm'.header_valid, pwcm'.utc_buffer, pwcm'.tidy)
      <3>1. \A i \in Hdus : Kept(hdu[i], pwcm.header_valid, pwcm.utc_buffer, pwcm.tidy)
        BY <1>0 DEF IInv, HeadersKept, DataLabels
      <3> QED BY <2>2, <2>4, <3>1 DEF Kept
    <2> QED BY <1>0, <1>1, <2>1, <2>2, <2>3, <2>4, <2>5, <2>6, <2>7, DataStep DEF DataLabels
  <1>5. ASSUME NEW k \in Int, Returns("failed", -3),
               hdu' = [i \in Hdus |-> IF i < k THEN f(hdu[i]) ELSE hdu[i]]
        PROVE  IInv'
    <2>1. pwcm' \in PwcmRec
      BY ZenonT(60), <1>0, <1>5, FieldValues DEF Returns, PwcmRec
    <2>2. pwcm'.pc = "failed"
      BY <1>0, <1>5 DEF Returns, PwcmRec
    <2> HIDE DEF f
    <2>3. /\ hdu' \in [Hdus -> HduRec]
          /\ \A i \in Hdus : hdu'[i] = f(hdu[i]) \/ hdu'[i] = hdu[i]
      BY <1>0, <1>2, <1>5
    <2> QED BY <1>1, <1>2, <2>1, <2>2, <2>3, Ends DEF Waits, DataLabels
  <1>6. 2 \in Int /\ Hdus \subseteq Int
    BY DEF Hdus
  <1>7. \/ pwcm' = [pwcm EXCEPT !.pc = "loop"] /\ UNCHANGED hdu
        \/ \E lost \in BOOLEAN :
             /\ pwcm' = [pwcm EXCEPT !.total = @ + pwcm.buf_bytes,
                                     !.lost = @ \/ lost, !.pc = "loop"]
             /\ \/ hdu' = [i \in Hdus |-> f(hdu[i])]
                \/ /\ lost
                   /\ \E k \in Hdus :
                        hdu' = [i \in Hdus |-> IF i = k THEN hdu[i] ELSE f(hdu[i])]
        \/ \E k \in Int :
             /\ Returns("failed", -3)
             /\ hdu' = [i \in Hdus |-> IF i < k THEN f(hdu[i]) ELSE hdu[i]]
    BY ZenonT(60), <1>6 DEF WriteRest, Goto, ForAll, UpTo
  <1> QED BY <1>3, <1>4, <1>5, <1>7

LEMMA ProcessErrorKeeps ==
    ASSUME IInv, ProcessError
    PROVE  IInv'
  <1>0. /\ pwcm \in PwcmRec /\ hdu \in [Hdus -> HduRec] /\ PwcType /\ CommandsKept
    BY InvTypes
  <1>1. PwcType' /\ CommandsKept' /\ UNCHANGED hdu
    <2>1. ErrorState(state, pwcm.rval) \in States
      BY DEF ErrorState, States
    <2> QED BY <1>0, <2>1, StateKeeps, SetStateKeeps DEF PwcType, ProcessError, Sets
  <1>2. pwcm' \in PwcmRec
    BY ZenonT(60), <1>0, FieldValues DEF ProcessError, Sets, PwcmRec
  <1>3. pwcm'.pc \in {"stop", "round"}
    BY <1>0 DEF ProcessError, Sets, PwcmRec
  <1> QED BY <1>0, <1>1, <1>2, <1>3, Ends DEF Waits, DataLabels

LEMMA StopTransferKeeps ==
    ASSUME IInv, StopTransfer
    PROVE  IInv'
  <1>0. /\ pwcm \in PwcmRec /\ hdu \in [Hdus -> HduRec] /\ PwcType /\ CommandsKept
    BY InvTypes
  <1>1. PwcType' /\ CommandsKept'
    BY <1>0, StateKeeps, SetStateKeeps DEF PwcType, States, StopTransfer
  <1>2. pwcm' \in PwcmRec
    BY ZenonT(60), <1>0, FieldValues DEF StopTransfer, PwcmRec
  <1>3. pwcm'.pc \in {"unstopped", "round"}
    BY <1>0 DEF StopTransfer, PwcmRec
  <1>4. \A i \in Hdus : /\ Shut(hdu[i]) \in HduRec /\ Shut(hdu[i]).open = hdu[i].open
                        /\ Shut(hdu[i]).sent = hdu[i].sent
    BY <1>0, ShutHdu
  <1>5. /\ hdu' \in [Hdus -> HduRec]
        /\ \A i \in Hdus : hdu'[i] = Shut(hdu[i]) \/ hdu'[i] = hdu[i]
    BY <1>0, <1>4 DEF StopTransfer, ForAll, UpTo
  <1> QED BY <1>1, <1>2, <1>3, <1>4, <1>5, Ends DEF Waits, DataLabels

LEMMA RoundKeeps ==
    ASSUME IInv, Round
    PROVE  IInv'
  <1>0. /\ pwcm \in PwcmRec /\ hdu \in [Hdus -> HduRec] /\ PwcType /\ CommandsKept
    BY InvTypes
  <1>1. PwcType' /\ CommandsKept' /\ UNCHANGED hdu
    BY <1>0, StateKeeps DEF PwcType, Round
  <1>2. pwcm' \in PwcmRec
    <2>1. FALSE \in BOOLEAN
      OBVIOUS
    <2> QED BY ZenonT(60), <1>0, <2>1, FieldValues DEF Round, PwcmRec
  <1>3. pwcm'.pc = "prepare"
    BY <1>0 DEF Round, PwcmRec
  <1> QED BY <1>0, <1>1, <1>2, <1>3, Ends DEF Waits, DataLabels

-----------------------------------------------------------------------------
(* Steps of the client threads.                                            *)

LEMMA ClientFrame ==
    ASSUME IInv, PwcType', CommandsKept', UNCHANGED <<state, multivars>>
    PROVE  IInv'
  BY InvTypes, GoesOn DEF multivars

LEMMA ClientCallKeeps ==
    ASSUME IInv, NEW c \in Clients, ClientCall(c), UNCHANGED multivars
    PROVE  IInv'
  <1>0. PwcType /\ CommandsKept
    BY InvTypes
  <1>1. PwcType' /\ ClientChanges
    BY <1>0, CmdHeaderKeeps, CmdStartKeeps, CmdQuitKeeps, CmdPlainKeeps, CmdDatedKeeps,
       CmdSetUtcStartKeeps, CmdDurationKeeps DEF ClientCall
  <1>2. CommandsKept'
    BY <1>0, <1>1 DEF ClientChanges, CommandsKept
  <1> QED BY <1>1, <1>2, ClientFrame DEF ClientChanges

LEMMA ClientStepKeeps ==
    ASSUME IInv, NEW c \in Clients, ClientStep(c), UNCHANGED multivars
    PROVE  IInv'
  <1>0. PwcType /\ CommandsKept
    BY InvTypes
  <1>1. PwcType' /\ SlotStep
    BY <1>0, CommandWaitKeeps, CommandSetKeeps, DurationSetKeeps DEF ClientStep
  <1>2. CommandsKept'
    BY <1>0, <1>1 DEF SlotStep, CommandsKept, PwcType, CountType
  <1> QED BY <1>1, <1>2, ClientFrame DEF SlotStep

LEMMA RestKeeps ==
    ASSUME IInv, UNCHANGED <<pwcvars, multivars>>
    PROVE  IInv'
  <1>1. PwcType' /\ CommandsKept' /\ UNCHANGED state
    BY InvTypes, NoCallKeeps
  <1> QED BY <1>1, ClientFrame

-----------------------------------------------------------------------------
(* The theorems.                                                           *)

LEMMA InitIInv == MultiInit => IInv
  <1> SUFFICES ASSUME MultiInit PROVE IInv
    OBVIOUS
  <1>1. PwcType /\ CommandsKept /\ None \in Commands
    BY PwcInitType DEF MultiInit
  <1>2. pwcm \in PwcmRec /\ pwcm.pc = "prepare"
    <2>1. TRUE \in BOOLEAN /\ FALSE \in BOOLEAN
      OBVIOUS
    <2> QED BY ZenonT(60), <1>1, <2>1, FieldValues DEF MultiInit, PwcmRec
  <1>3. hdu \in [Hdus -> HduRec]
    <2>1. <<>> \in Seq(Nat) /\ 0 \in Int
      OBVIOUS
    <2> QED BY <2>1 DEF MultiInit, HduRec
  <1>4. HeadersEqual
    BY DEF MultiInit, HeadersEqual
  <1>5. OpenAsStated /\ HeadersKept
    BY <1>2 DEF OpenAsStated, HeadersKept, Waits, DataLabels
  <1> QED BY <1>1, <1>2, <1>3, <1>4, <1>5 DEF IInv, MultiTypes

LEMMA StepIInv ==
    ASSUME IInv, [MultiNext]_<<pwcvars, multivars>>
    PROVE  IInv'
  <1>1. ASSUME NEW c \in Clients, (ClientCall(c) \/ ClientStep(c)) /\ UNCHANGED multivars
        PROVE  IInv'
    BY <1>1, ClientCallKeeps, ClientStepKeeps
  <1>2. CASE MultiStep
    BY <1>2, PrepareKeeps, PrepareLoopKeeps, PrepareWaitsKeeps, PrepareGetsKeeps,
       PrepareDoesKeeps, StoresUtcKeeps, StartTransferKeeps, StartedKeeps,
       TransferQuitsKeeps, NoCommandKeeps,
       TakeUtcStartKeeps, TakeCommandKeeps, TakeUnexpectedKeeps, BufferKeeps,
       BufferNotDueKeeps, BufferEmptyKeeps, BufferFailsKeeps, NotReachedKeeps,
       RecordStartKeeps, RecordStopKeeps, TransitReturnsKeeps, WriteRestKeeps,
       ProcessErrorKeeps, StopTransferKeeps, RoundKeeps DEF MultiStep
  <1>3. CASE MultiRest
    BY <1>3, RestKeeps DEF MultiRest
  <1>4. CASE UNCHANGED <<pwcvars, multivars>>
    BY <1>4, RestKeeps
  <1> QED BY <1>1, <1>2, <1>3, <1>4 DEF MultiNext

LEMMA AlwaysIInv == MultiSpec => []IInv
  BY InitIInv, StepIInv, PTL DEF MultiSpec

\* For any number of HDUs, whichever of them an ipcio function or a header fails
\* for and however the observation ended: where dada_pwc_main_multi_prepare waits
\* for a command and where transfer_data looks for one, all Data Blocks have the
\* same mode and, unless a write of the rest of a buffer failed unnoticed, the same
\* number of bytes, and all Header Blocks as many blocks open and handed over.
THEOREM MultiHdusInStep == MultiSpec => []HdusInStep
  <1>1. IInv => HdusInStep
    BY DEF IInv, HeadersEqual, OpenAsStated, HdusInStep, Waits, DataLabels, At
  <1> QED BY <1>1, AlwaysIInv, PTL

\* The state that clients see says of every Data Block whether it takes valid
\* data.
THEOREM MultiAllHdusRecord == MultiSpec => []AllHdusRecord
  <1>1. IInv => AllHdusRecord
    BY DEF IInv, OpenAsStated, AllHdusRecord, DataLabels, At
  <1> QED BY <1>1, AlwaysIInv, PTL

\* A recording with a valid header has handed one over in every HDU, in this
\* observation; and if no block was left open before, exactly the one of the
\* UTC_START that START, CLOCK or SET_UTC_START gave.
THEOREM MultiHeaderHandedOver == MultiSpec => []HeaderHandedOver
  <1>1. IInv => HeaderHandedOver
    BY DEF IInv, HeadersKept, Kept, HeaderHandedOver, DataLabels, At
  <1> QED BY <1>1, AlwaysIInv, PTL
=============================================================================
