----------------------------- MODULE DataStream -----------------------------
(***************************************************************************)
(* What the ring buffer of src/src/ipcbuf.c promises its clients, without  *)
(* buffers and semaphores: the writer appends blocks to a stream and marks *)
(* transfers, stretches of the stream that run from a start of data (block *)
(* and byte) to an end of data; every reader is handed every block of      *)
(* every transfer once, in order, cut to the bytes of the transfer, and is *)
(* told of the end of data after the last block and not before.            *)
(***************************************************************************)
EXTENDS Integers

CONSTANTS
    Consumers,  \* the readers
    Block,      \* the size of a block in bytes
    Limit       \* bound: transfers in the stream

VARIABLES
    written,    \* blocks of the stream that are complete
    nx,         \* the transfer in progress, or the next one
    log,        \* [sb, sy, eb, ey] of each transfer, -1 where not yet known
    rx, rb,     \* for each reader its transfer and its block
    got         \* what the reader has been handed: <<block, from, upto>>

vars == <<written, nx, log, rx, rb, got>>

Unknown == [sb |-> -1, sy |-> 0, eb |-> -1, ey |-> 0]
Nothing == <<>>

Init ==
    /\ written = 0 /\ nx = 0 /\ log = [x \in 0..Limit |-> Unknown]
    /\ rx = [c \in Consumers |-> 0] /\ rb = [c \in Consumers |-> -1]
    /\ got = [c \in Consumers |-> Nothing]

\* The writer completes a block.
Write == written' = written + 1 /\ UNCHANGED <<nx, log, rx, rb, got>>

\* The writer raises start of data at a block no later than the current one.
Start(b, y) ==
    /\ log[nx] = Unknown /\ b <= written
    /\ log' = [log EXCEPT ![nx] = [Unknown EXCEPT !.sb = b, !.sy = y]]
    /\ UNCHANGED <<written, nx, rx, rb, got>>

\* The writer ends the transfer in the block it is about to complete.
End(n) ==
    /\ log[nx].sb # -1
    /\ log' = [log EXCEPT ![nx].eb = written, ![nx].ey = n]
    /\ nx' = nx + 1
    /\ UNCHANGED <<written, rx, rb, got>>

\* A reader turns to the next transfer.
Open(c) ==
    /\ rb[c] = -1 /\ log[rx[c]].sb # -1
    /\ rb' = [rb EXCEPT ![c] = log[rx[c]].sb]
    /\ UNCHANGED <<written, nx, log, rx, got>>

\* A reader is handed its next block, once that is complete.
Deliver(c) ==
    LET t == log[rx[c]]
        from == IF rb[c] = t.sb THEN t.sy ELSE 0
        upto == IF rb[c] = t.eb THEN t.ey ELSE Block
    IN  /\ rb[c] # -1 /\ rb[c] < written /\ got[c] = Nothing
        /\ got' = [got EXCEPT ![c] = <<rb[c], from, upto>>]
        /\ UNCHANGED <<written, nx, log, rx, rb>>

\* A reader is done with its block; after the last one of the transfer it is
\* told of the end of data.
Release(c) ==
    /\ got[c] # Nothing
    /\ got' = [got EXCEPT ![c] = Nothing]
    /\ IF rb[c] = log[rx[c]].eb
       THEN rx' = [rx EXCEPT ![c] = @ + 1] /\ rb' = [rb EXCEPT ![c] = -1]
       ELSE rb' = [rb EXCEPT ![c] = @ + 1] /\ UNCHANGED rx
    /\ UNCHANGED <<written, nx, log>>

Next ==
    \/ Write
    \/ \E b \in 0..written, y \in 0..Block : Start(b, y)
    \/ \E n \in 0..Block : End(n)
    \/ \E c \in Consumers : Open(c) \/ Deliver(c) \/ Release(c)

Spec == Init /\ [][Next]_vars
=============================================================================
