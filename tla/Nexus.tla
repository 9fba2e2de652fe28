------------------------------- MODULE Nexus --------------------------------
(***************************************************************************)
(* dada_pwc_command: one control interface for many primary write clients  *)
(* (nexus.c, monitor.c, dada_pwc_nexus.c, dada_pwc_nexus_config.c).        *)
(*                                                                         *)
(* The main thread sends each command to every node and reads every reply, *)
(* with the mutex of the nexus.  A control thread runs DURATION, with the  *)
(* mutex, and CONFIG, without it.  One thread for each node connects to it *)
(* and asks for its state; the monitor reads the nodes' log lines, from a  *)
(* second connection, and follows their states.                            *)
(***************************************************************************)
EXTENDS Integers, Sequences, FiniteSets

CONSTANTS
    N,          \* nexus->nnode
    Commands,   \* commands an operator may give, besides CONFIG and DURATION
    LogDir,     \* LOGFILE_DIR is configured
    MaxCommands, MaxErrors, MaxLost     \* bounds

ASSUME NAssumption == N \in Nat \ {0}

\* The commands that dada_pwc_nexus_send knows, set_utc_start left out.
ASSUME CommandsAssumption ==
    Commands \subseteq {"clock", "rec_start", "rec_stop", "start", "stop", "reset"}

Nodes == 1..N
Threads == {"main", "ctl"}

VARIABLES
    node,       \* the primary write clients: state, commands to be read, replies,
                \* the state a command asked for, and (history) the last one accepted
    nd,         \* the nexus's nodes: connected, state, log connection, and (history)
                \* whether a line of the node was handled once it was initialised
    logq,       \* lines on the log connections
    pwc,        \* state and command slot of nexus->pwc
    lock,       \* holder of nexus->mutex
    thr,        \* the threads that send commands
    op,         \* node_open_thread of each node
    mon,        \* the monitor
    issued, errors, lost,   \* counters for the bounds
    spoiled     \* history: a CONFIG broke off, or ran while the mutex was held

vars == <<node, nd, logq, pwc, lock, thr, op, mon, issued, errors, lost, spoiled>>
bounds == <<issued, errors, lost>>

Idle == [pc |-> "idle", cmd |-> "", id |-> 0, i |-> 1, bad |-> FALSE]

Init ==
    /\ node = [i \in Nodes |-> [st |-> "idle", in |-> <<>>, out |-> <<>>,
                                want |-> "", acc |-> 0]]
    /\ nd = [i \in Nodes |-> [on |-> FALSE, st |-> "pending", log |-> "no",
                              heard |-> FALSE]]
    /\ logq = [i \in Nodes |-> <<>>]
    /\ pwc = [st |-> "idle", cmd |-> ""]
    /\ lock = "none"
    /\ thr = [t \in Threads |-> Idle]
    /\ op = [i \in Nodes |-> "connect"]
    /\ mon = [pc |-> "select", last |-> "", new |-> ""]
    /\ issued = 0 /\ errors = 0 /\ lost = 0
    /\ spoiled = FALSE

-----------------------------------------------------------------------------
(* States.                                                                 *)

Errors == {"soft_error", "hard_error", "fatal_error"}

\* dada_pwc_nexus_update_state: the state of all nodes not in error, if it is one;
\* the strongest error, if all are in error.
Combine(st) ==
    LET bad == {i \in Nodes : st[i] \in Errors}
        good == {st[i] : i \in Nodes \ bad}
    IN  IF good = {} THEN CASE "fatal_error" \in {st[i] : i \in bad} -> "fatal_error"
                            [] "hard_error" \in {st[i] : i \in bad} -> "hard_error"
                            [] OTHER -> "soft_error"
        ELSE IF Cardinality(good) = 1 THEN CHOOSE s \in good : TRUE
        ELSE "undefined"

\* The state dada_pwc_nexus_send sets before it sends a command.
Target(cmd) ==
    CASE cmd \in {"clock", "rec_stop"} -> "clocking"
      [] cmd \in {"start", "rec_start"} -> "recording"
      [] cmd \in {"stop", "reset"} -> "idle"
      [] cmd = "header" -> "prepared"

\* The states in which dada_pwc_command_set accepts a command.
Permitted(cmd, st) ==
    CASE cmd \in {"clock", "start"} -> st = "prepared"
      [] cmd = "rec_start" -> st = "clocking"
      [] cmd = "rec_stop" -> st = "recording"
      [] cmd = "header" -> st = "idle"
      [] cmd = "reset" -> st \in {"soft_error", "hard_error"}
      [] cmd = "duration" -> st # "recording"
      [] cmd = "stop" -> TRUE

\* dada_pwc_set_state: the changes that are not refused.
MayChange(st, new) ==
    CASE st = "idle" -> new = "prepared"
      [] st = "prepared" -> new # "prepared"
      [] st = "clocking" -> new \in {"recording", "idle"}
      [] st = "recording" -> new \in {"clocking", "idle"}
      [] st \in {"soft_error", "hard_error"} -> new = "idle"
      [] st = "fatal_error" -> FALSE
      [] OTHER -> TRUE

-----------------------------------------------------------------------------
(* A primary write client, as the nexus sees it.                           *)

\* Its log lines are lost without a log connection.
Logged(i, st) == IF nd[i].log = "up" THEN [logq EXCEPT ![i] = Append(@, st)] ELSE logq

\* command_parser reads a command and answers it; one that is accepted waits
\* until the main loop takes it.
NodeReply(i) ==
    /\ node[i].in # <<>> /\ (Head(node[i].in).cmd = "state" \/ node[i].want = "")
    /\ LET c == Head(node[i].in)
           ok == c.cmd = "state" \/ Permitted(c.cmd, node[i].st)
       IN  node' = [node EXCEPT
             ![i].in = Tail(@),
             ![i].out = Append(@, [id |-> c.id, ok |-> ok, st |-> node[i].st]),
             ![i].acc = IF ok /\ c.id # 0 THEN c.id ELSE @,
             ![i].want = IF ok /\ c.cmd \notin {"state", "duration"}
                         THEN Target(c.cmd) ELSE @]
    /\ UNCHANGED <<nd, logq, pwc, lock, thr, op, mon, bounds, spoiled>>

\* The main loop changes the state, and dada_pwc_set_state logs it.
NodeChange(i) ==
    /\ node[i].want # ""
    /\ LET ok == MayChange(node[i].st, node[i].want) IN
       /\ node' = [node EXCEPT ![i].want = "", ![i].st = IF ok THEN node[i].want ELSE @]
       /\ logq' = IF ok THEN Logged(i, node[i].want) ELSE logq
    /\ UNCHANGED <<nd, pwc, lock, thr, op, mon, bounds, spoiled>>

NodeError(i) ==
    /\ errors < MaxErrors /\ node[i].st \notin Errors /\ node[i].want = ""
    /\ node' = [node EXCEPT ![i].st = "soft_error"]
    /\ logq' = Logged(i, "soft_error")
    /\ errors' = errors + 1
    /\ UNCHANGED <<nd, pwc, lock, thr, op, mon, issued, lost, spoiled>>

\* node_send to the nodes in S, which are connected.
Sent(S, cmd, id) ==
    [i \in Nodes |-> IF i \in S
       THEN [node[i] EXCEPT !.in = Append(@, [cmd |-> cmd, id |-> id])] ELSE node[i]]

\* node_recv takes the next reply.
Read(i) == [node EXCEPT ![i].out = Tail(@)]

-----------------------------------------------------------------------------
(* Connections.                                                            *)

Configuring == thr["ctl"].pc \in {"configSend", "configRecv"}

\* node_open_thread of the mirror: the log connection of node i.
LogConnect(i) ==
    /\ nd[i].log = "no"
    /\ nd' = [nd EXCEPT ![i].log = "up"]
    /\ UNCHANGED <<node, logq, pwc, lock, thr, op, mon, bounds, spoiled>>

\* node_open_thread: the node accepts and sends its welcome message.  With
\* LOGFILE_DIR it is the log connection that comes first.
OpConnect(i) ==
    /\ op[i] = "connect" /\ (LogDir => nd[i].log # "no")
    /\ op' = [op EXCEPT ![i] = "lock"]
    /\ node' = [node EXCEPT ![i].out = Append(@, [id |-> 0, ok |-> TRUE, st |-> ""])]
    /\ UNCHANGED <<nd, logq, pwc, lock, thr, mon, bounds, spoiled>>

\* The streams are stored with the mutex, which is kept for the initialisation:
\* dada_pwc_nexus_node_init reads the welcome message and asks for the state.
OpLock(i) ==
    /\ op[i] = "lock" /\ lock = "none"
    /\ lock' = "open"
    /\ nd' = [nd EXCEPT ![i].on = TRUE]
    /\ node' = [node EXCEPT ![i].out = Tail(@),
                            ![i].in = Append(@, [cmd |-> "state", id |-> 0])]
    /\ op' = [op EXCEPT ![i] = "state"]
    /\ spoiled' = (spoiled \/ Configuring)
    /\ UNCHANGED <<logq, pwc, thr, mon, bounds>>

\* The reply is the node's state; update_state stores the state of the nexus
\* while node_open_thread still holds the mutex, which is recursive.
OpState(i) ==
    /\ op[i] = "state" /\ node[i].out # <<>>
    /\ node' = Read(i)
    /\ nd' = [nd EXCEPT ![i].st = Head(node[i].out).st]
    /\ pwc' = [pwc EXCEPT !.st = Combine([k \in Nodes |-> nd'[k].st])]
    /\ op' = [op EXCEPT ![i] = "done"]
    /\ lock' = "none"
    /\ UNCHANGED <<logq, thr, mon, bounds, spoiled>>

-----------------------------------------------------------------------------
(* The monitor.                                                            *)

\* dada_pwc_nexus_handle_message sets the node's state, without the mutex.
Handled(i, st) == [nd EXCEPT ![i].st = st, ![i].heard = @ \/ op[i] = "done"]

\* Mutant: the line handled is the one read before.
MonReadLate(i) ==
    /\ mon.pc = "select" /\ nd[i].log = "up" /\ logq[i] # <<>>
    /\ mon' = [mon EXCEPT !.pc = "update", !.last = Head(logq[i])]
    /\ nd' = IF mon.last = "" THEN nd ELSE Handled(i, mon.last)
    /\ logq' = [logq EXCEPT ![i] = Tail(@)]
    /\ UNCHANGED <<node, pwc, lock, thr, op, bounds, spoiled>>

\* monitor_thread: select, a line of node i, and its handling.
MonRead(i) ==
    /\ mon.pc = "select" /\ nd[i].log = "up" /\ logq[i] # <<>>
    /\ mon' = [mon EXCEPT !.pc = "update", !.last = Head(logq[i])]
    /\ nd' = Handled(i, Head(logq[i]))
    /\ logq' = [logq EXCEPT ![i] = Tail(@)]
    /\ UNCHANGED <<node, pwc, lock, thr, op, bounds, spoiled>>

\* The connection is lost for good; what is handled is the line last read, of
\* whatever node.
MonLost(i) ==
    /\ lost < MaxLost
    /\ mon.pc = "select" /\ nd[i].log = "up" /\ logq[i] = <<>>
    /\ mon' = [mon EXCEPT !.pc = IF mon.last = "" THEN "select" ELSE "update"]
    /\ LET h == IF mon.last = "" THEN nd ELSE Handled(i, mon.last)
       IN  nd' = [h EXCEPT ![i].log = "lost"]
    /\ lost' = lost + 1
    /\ UNCHANGED <<node, logq, pwc, lock, thr, op, issued, errors, spoiled>>

\* dada_pwc_nexus_update_state reads the nodes with the mutex ...
MonUpdate ==
    /\ mon.pc = "update" /\ lock = "none"
    /\ mon' = [mon EXCEPT !.pc = "store", !.new = Combine([k \in Nodes |-> nd[k].st])]
    /\ UNCHANGED <<node, nd, logq, pwc, lock, thr, op, bounds, spoiled>>

\* ... and stores the state of the nexus without it.
MonStore ==
    /\ mon.pc = "store"
    /\ pwc' = [pwc EXCEPT !.st = mon.new]
    /\ mon' = [mon EXCEPT !.pc = "select", !.new = ""]
    /\ UNCHANGED <<node, nd, logq, lock, thr, op, bounds, spoiled>>

-----------------------------------------------------------------------------
(* nexus_send, by thread t: all nodes are sent the command, then all are   *)
(* read, whatever fails.                                                   *)

To(t, pc) == [thr EXCEPT ![t].pc = pc, ![t].i = 1]
Step(t, bad) == [thr EXCEPT ![t].i = @ + 1, ![t].bad = @ \/ bad]
SendKeeps == UNCHANGED <<nd, logq, pwc, op, mon, bounds>>

Connected == {i \in Nodes : nd[i].on}

SendLock(t) ==
    /\ thr[t].pc = "lock" /\ lock = "none"
    /\ lock' = t
    /\ thr' = To(t, "send")
    /\ spoiled' = (spoiled \/ Configuring)
    /\ UNCHANGED node /\ SendKeeps

\* nexus_send_node to each: a node that is not connected is passed over.
SendAll(t) ==
    /\ thr[t].pc = "send"
    /\ node' = Sent(Connected, thr[t].cmd, thr[t].id)
    /\ thr' = To(t, "recv")
    /\ UNCHANGED <<lock, spoiled>> /\ SendKeeps

Online(t) == nd[thr[t].i].on
Answered(t) == node[thr[t].i].out # <<>>

OnlyFail(t) == Online(t) /\ ~Head(node[thr[t].i].out).ok            \* mutant

\* nexus_recv_node returns -1: the node is not connected, or its reply is fail.
RecvFails(t) == ~Online(t) \/ ~Head(node[thr[t].i].out).ok

RecvUntilFail(t) ==                                                 \* mutant
    /\ thr[t].pc = "recv" /\ thr[t].i <= N /\ (Online(t) => Answered(t))
    /\ thr' = IF RecvFails(t) THEN [thr EXCEPT ![t].i = N + 1, ![t].bad = TRUE]
              ELSE Step(t, FALSE)
    /\ node' = IF Online(t) THEN Read(thr[t].i) ELSE node
    /\ UNCHANGED <<lock, spoiled>> /\ SendKeeps

RecvNode(t) ==
    /\ thr[t].pc = "recv" /\ thr[t].i <= N /\ (Online(t) => Answered(t))
    /\ thr' = Step(t, RecvFails(t))
    /\ node' = IF Online(t) THEN Read(thr[t].i) ELSE node
    /\ UNCHANGED <<lock, spoiled>> /\ SendKeeps

LockAfterFailure(t) == IF thr[t].bad THEN lock ELSE "none"           \* mutant
Unlocked(t) == "none"

SendUnlock(t) ==
    /\ thr[t].pc = "recv" /\ thr[t].i > N
    /\ lock' = Unlocked(t)
    /\ thr' = [thr EXCEPT ![t] = Idle]
    /\ UNCHANGED <<node, spoiled>> /\ SendKeeps

-----------------------------------------------------------------------------
(* The main thread: dada_pwc_nexus_serve.                                  *)

\* dada_pwc_command_get, and dada_pwc_nexus_send up to nexus_send: the state of the
\* nexus is set first.
MainGet ==
    /\ thr["main"].pc = "idle" /\ pwc.cmd # ""
    /\ LET set == pwc.cmd # "reset"
           ok == set => MayChange(pwc.st, Target(pwc.cmd))
       IN  /\ pwc' = [st |-> IF ok /\ set THEN Target(pwc.cmd) ELSE pwc.st, cmd |-> ""]
           /\ thr' = IF ok THEN [thr EXCEPT !["main"] =
                                   [Idle EXCEPT !.pc = "lock", !.cmd = pwc.cmd, !.id = issued]]
                     ELSE thr
    /\ UNCHANGED <<node, nd, logq, lock, op, mon, bounds, spoiled>>

-----------------------------------------------------------------------------
(* The control thread.                                                     *)

Given ==
    /\ thr["ctl"].pc = "idle" /\ pwc.cmd = "" /\ issued < MaxCommands
    /\ issued' = issued + 1
    /\ UNCHANGED <<node, nd, logq, lock, op, mon, errors, lost>>

\* dada_pwc_command_set leaves a command for the main thread.
Command(c) ==
    /\ Given /\ Permitted(c, pwc.st)
    /\ pwc' = [pwc EXCEPT !.cmd = c]
    /\ UNCHANGED <<thr, spoiled>>

\* dada_pwc_nexus_cmd_duration
Duration ==
    /\ Given /\ Permitted("duration", pwc.st)
    /\ thr' = [thr EXCEPT !["ctl"] =
                 [Idle EXCEPT !.pc = "lock", !.cmd = "duration", !.id = issued + 1]]
    /\ UNCHANGED <<pwc, spoiled>>

\* dada_pwc_nexus_cmd_config: a header for each node, without the mutex.
Config ==
    /\ Given /\ pwc.st \in {"idle", "pending"}
    /\ thr' = [thr EXCEPT !["ctl"] =
                 [Idle EXCEPT !.pc = "configSend", !.cmd = "header", !.id = issued + 1]]
    /\ spoiled' = (spoiled \/ lock # "none")
    /\ UNCHANGED pwc

\* The first node that is not connected ends the command at once.
ConfigSend ==
    LET before == {i \in Nodes : 1..i \subseteq Connected} IN
    /\ thr["ctl"].pc = "configSend"
    /\ node' = Sent(before, "header", thr["ctl"].id)
    /\ thr' = IF before = Nodes THEN To("ctl", "configRecv") ELSE [thr EXCEPT !["ctl"] = Idle]
    /\ spoiled' = (spoiled \/ before \notin {{}, Nodes})
    /\ UNCHANGED lock /\ SendKeeps

ConfigRecv ==
    LET c == thr["ctl"] IN
    /\ c.pc = "configRecv" /\ c.i <= N /\ Answered("ctl")
    /\ thr' = Step("ctl", RecvFails("ctl"))
    /\ node' = Read(c.i)
    /\ UNCHANGED <<lock, spoiled>> /\ SendKeeps

ConfigDone ==
    /\ thr["ctl"].pc = "configRecv" /\ thr["ctl"].i > N
    /\ pwc' = IF thr["ctl"].bad THEN pwc ELSE [pwc EXCEPT !.st = "prepared"]
    /\ thr' = [thr EXCEPT !["ctl"] = Idle]
    /\ UNCHANGED <<node, nd, logq, lock, op, mon, bounds, spoiled>>

-----------------------------------------------------------------------------
NodeNext(i) == NodeReply(i) \/ NodeChange(i)
OpenNext(i) == OpConnect(i) \/ OpLock(i) \/ OpState(i)
MonNext == (\E i \in Nodes : MonRead(i)) \/ MonUpdate \/ MonStore
SendNext(t) == SendLock(t) \/ SendAll(t) \/ RecvNode(t) \/ SendUnlock(t)
ConfigNext == ConfigSend \/ ConfigRecv \/ ConfigDone

Next ==
    \/ \E i \in Nodes : NodeNext(i) \/ OpenNext(i) \/ LogConnect(i) \/ NodeError(i)
    \/ \E i \in Nodes : MonLost(i)
    \/ MonNext \/ MainGet \/ ConfigNext \/ Config \/ Duration
    \/ \E t \in Threads : SendNext(t)
    \/ \E c \in Commands : Command(c)

\* Some thread or node that has work runs: no more is needed, as work ends.
Work ==
    \/ \E i \in Nodes : NodeNext(i) \/ OpenNext(i) \/ LogConnect(i)
    \/ MonNext \/ MainGet \/ ConfigNext \/ \E t \in Threads : SendNext(t)

Spec == Init /\ [][Next]_vars /\ WF_vars(Work)

-----------------------------------------------------------------------------
(* Properties.                                                             *)

\* Every reply read is the reply to the command that was sent: nexus_send, the
\* initialisation of a connection and CONFIG leave no reply behind for the next
\* one to take for its own, as long as no CONFIG broke off or overlapped with
\* them.
InStep ==
    ~spoiled =>
      /\ \A t \in Threads :
           thr[t].pc \in {"recv", "configRecv"} /\ thr[t].i <= N =>
             (Online(t) /\ Answered(t) => Head(node[thr[t].i].out).id = thr[t].id)
      /\ \A i \in Nodes :
           op[i] = "state" /\ node[i].out # <<>> => Head(node[i].out).id = 0

\* nexus_send returns 0 only if every node of the nexus has accepted the command:
\* one that is not connected yet counts as a failure.
SuccessMeansAll ==
    \A t \in Threads :
        thr[t].pc = "recv" /\ thr[t].i > N /\ ~thr[t].bad /\ ~spoiled =>
            \A i \in Nodes : node[i].acc = thr[t].id

Still ==
    /\ \A i \in Nodes : logq[i] = <<>> /\ node[i].want = "" /\ op[i] \in {"connect", "done"}
    /\ mon.pc = "select"

\* Whenever nothing is on its way, the nexus knows the state of every node of which
\* the monitor has handled a line after the initialisation of its connection, as
\* long as its log connection lasts: lines are handled in order and each for the
\* node it came from.  Without such a line it may have the state before the last:
\* node_init reads the state with the connection and stores it when the monitor
\* may already have stored a newer one.
StatesFollowed ==
    Still => \A i \in Nodes : nd[i].heard /\ nd[i].log = "up" => nd[i].st = node[i].st

\* A command that the main thread has taken is sent and answered, and the main
\* thread returns for the next one: no thread keeps the mutex.
CommandsReturn == thr["main"].pc # "idle" ~> thr["main"].pc = "idle"

\* The nexus is in the state of its nodes when all are connected, nobody is at
\* work, nothing is on its way, and no CONFIG broke off or overlapped with another
\* command.
StateOfNodes ==
    (/\ Still /\ ~spoiled /\ pwc.cmd = ""
     /\ \A t \in Threads : thr[t].pc = "idle"
     /\ \A i \in Nodes : nd[i].log = "up" /\ op[i] = "done" /\ node[i].in = <<>>)
    => pwc.st = Combine([i \in Nodes |-> node[i].st])
=============================================================================
