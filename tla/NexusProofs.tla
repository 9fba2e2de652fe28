---------------------------- MODULE NexusProofs -----------------------------
(***************************************************************************)
(* Theorems about the nexus, for every number of nodes and of commands.    *)
(*                                                                         *)
(* The replies are in step because of an account of what is on the way     *)
(* between the nexus and each node: nothing, or the one command that a     *)
(* thread has sent, or its reply.  The account rests on the mutex, and so  *)
(* it is kept only as long as no CONFIG, which runs without it, broke off  *)
(* or met another command.                                                 *)
(***************************************************************************)
EXTENDS Nexus, SequenceTheorems, TLAPS

-----------------------------------------------------------------------------
(* Types.                                                                  *)

PwcStates == {"idle", "prepared", "clocking", "recording",
              "soft_error", "hard_error", "fatal_error"}
NodeStates == PwcStates \cup {"", "pending"}
Names == {"clock", "rec_start", "rec_stop", "start", "stop", "reset",
          "header", "duration", "state"}

Message == [cmd : Names, id : Nat]
Reply == [id : Nat, ok : BOOLEAN, st : NodeStates]
NodeRec == [st : PwcStates, in : Seq(Message), out : Seq(Reply),
            want : PwcStates \cup {""}, acc : Nat]
ConnRec == [on : BOOLEAN, st : NodeStates, log : {"no", "up", "lost"}, heard : BOOLEAN]
Places == {"idle", "lock", "send", "recv", "configSend", "configRecv"}
ThrRec == [pc : Places, cmd : Names \cup {""}, id : Nat, i : 1..(N + 1), bad : BOOLEAN]
MonRec == [pc : {"select", "update", "store"}, last : PwcStates \cup {""},
           new : NodeStates \cup {"undefined"}]

NexusType ==
    /\ node \in [Nodes -> NodeRec]
    /\ nd \in [Nodes -> ConnRec]
    /\ logq \in [Nodes -> Seq(PwcStates)]
    /\ pwc \in [st : NodeStates \cup {"undefined"}, cmd : Commands \cup {""}]
    /\ lock \in {"none", "open", "main", "ctl"}
    /\ thr \in [Threads -> ThrRec]
    /\ op \in [Nodes -> {"connect", "lock", "state", "done"}]
    /\ mon \in MonRec
    /\ issued \in Nat /\ spoiled \in BOOLEAN

\* The first of a queue is taken.
LEMMA TakeFirst ==
    ASSUME NEW S, NEW s \in Seq(S), s # <<>>
    PROVE  /\ Head(s) = s[1] /\ Head(s) \in S /\ Tail(s) \in Seq(S)
           /\ Len(s) \in Nat /\ Len(s) > 0 /\ Len(Tail(s)) = Len(s) - 1
           /\ Len(s) > 1 => Tail(s)[Len(s) - 1] = s[Len(s)]
  <1>1. Len(s) \in Nat /\ Len(s) > 0
    BY EmptySeq
  <1>2. Head(s) = s[1]
    BY <1>1, SMT
  <1> QED BY <1>1, <1>2, HeadTailProperties

\* One more is queued.
LEMMA AddLast ==
    ASSUME NEW S, NEW s \in Seq(S), NEW e \in S
    PROVE  /\ Append(s, e) \in Seq(S) /\ Len(s) \in Nat
           /\ Len(Append(s, e)) = Len(s) + 1 /\ Append(s, e)[Len(s) + 1] = e
  BY AppendProperties, LenProperties

LEMMA Queued ==
    ASSUME NEW S, NEW s \in Seq(S)
    PROVE  Len(s) \in Nat /\ (s = <<>> <=> Len(s) = 0)
  BY EmptySeq, LenProperties

-----------------------------------------------------------------------------
(* What the steps do to the queues between the nexus and a node.           *)

\* A reply is read.
LEMMA ReadEffect ==
    ASSUME NexusType, NEW i \in Nodes, node[i].out # <<>>, node' = Read(i)
    PROVE  /\ node' \in [Nodes -> NodeRec]
           /\ \A k \in Nodes : k # i => node'[k] = node[k]
           /\ node'[i].st = node[i].st /\ node'[i].want = node[i].want
           /\ node'[i].acc = node[i].acc /\ node'[i].in = node[i].in
           /\ Len(node[i].out) \in Nat /\ Len(node[i].out) > 0
           /\ Len(node'[i].out) = Len(node[i].out) - 1
           /\ Head(node[i].out) = node[i].out[1] /\ Head(node[i].out) \in Reply
  <1> DEFINE r == [node[i] EXCEPT !.out = Tail(@)]
  <1>1. node \in [Nodes -> NodeRec] /\ node[i] \in NodeRec /\ node[i].out \in Seq(Reply)
    BY DEF NexusType, NodeRec
  <1>2. /\ Tail(node[i].out) \in Seq(Reply)
        /\ Len(node[i].out) \in Nat /\ Len(node[i].out) > 0
        /\ Len(Tail(node[i].out)) = Len(node[i].out) - 1
        /\ Head(node[i].out) = node[i].out[1] /\ Head(node[i].out) \in Reply
    BY <1>1, TakeFirst
  <1>3. /\ r \in NodeRec /\ r.st = node[i].st /\ r.want = node[i].want
        /\ r.acc = node[i].acc
        /\ r.in = node[i].in /\ r.out = Tail(node[i].out)
    BY <1>1, <1>2 DEF NodeRec
  <1>4. node' = [node EXCEPT ![i] = r]
    BY DEF Read
  <1> HIDE DEF r
  <1>5. node' \in [Nodes -> NodeRec] /\ node'[i] = r
        /\ \A k \in Nodes : k # i => node'[k] = node[k]
    BY <1>1, <1>3, <1>4
  <1> QED BY <1>2, <1>3, <1>5

\* A command is sent to the nodes in S.
LEMMA SentEffect ==
    ASSUME NexusType, NEW S \in SUBSET Nodes, NEW c \in Names, NEW n \in Nat,
           node' = Sent(S, c, n)
    PROVE  /\ node' \in [Nodes -> NodeRec]
           /\ \A k \in Nodes : k \notin S => node'[k] = node[k]
           /\ \A k \in S : /\ node'[k].st = node[k].st /\ node'[k].want = node[k].want
                           /\ node'[k].acc = node[k].acc /\ node'[k].out = node[k].out
                           /\ Len(node[k].in) \in Nat
                           /\ Len(node'[k].in) = Len(node[k].in) + 1
                           /\ node'[k].in[Len(node[k].in) + 1].id = n
  <1> DEFINE m == [cmd |-> c, id |-> n]
             r(k) == [node[k] EXCEPT !.in = Append(@, m)]
  <1>1. m \in Message /\ m.id = n
    BY DEF Message
  <1>2. ASSUME NEW k \in Nodes
        PROVE  /\ r(k) \in NodeRec /\ r(k).st = node[k].st /\ r(k).want = node[k].want
               /\ r(k).acc = node[k].acc /\ r(k).out = node[k].out
               /\ Len(node[k].in) \in Nat /\ Len(r(k).in) = Len(node[k].in) + 1
               /\ r(k).in[Len(node[k].in) + 1].id = n
    <2>1. node[k] \in NodeRec /\ node[k].in \in Seq(Message)
      BY DEF NexusType, NodeRec
    <2> HIDE DEF m
    <2>2. /\ Append(node[k].in, m) \in Seq(Message) /\ Len(node[k].in) \in Nat
          /\ Len(Append(node[k].in, m)) = Len(node[k].in) + 1
          /\ Append(node[k].in, m)[Len(node[k].in) + 1] = m
      BY <1>1, <2>1, AddLast
    <2>3. /\ r(k) \in NodeRec /\ r(k).st = node[k].st /\ r(k).want = node[k].want
          /\ r(k).acc = node[k].acc /\ r(k).out = node[k].out
          /\ r(k).in = Append(node[k].in, m)
      BY <2>1, <2>2 DEF NodeRec
    <2> QED BY <1>1, <2>2, <2>3
  <1>3. node' = [k \in Nodes |-> IF k \in S THEN r(k) ELSE node[k]]
    BY DEF Sent
  <1> HIDE DEF r
  <1>4. \A k \in Nodes : node'[k] = IF k \in S THEN r(k) ELSE node[k]
    BY <1>3
  <1>5. node' \in [Nodes -> NodeRec]
    <2>1. \A k \in Nodes : node[k] \in NodeRec /\ r(k) \in NodeRec
      BY <1>2 DEF NexusType
    <2> QED BY <1>3, <2>1
  <1> QED BY <1>2, <1>4, <1>5

\* A node reads a command and replies.
LEMMA ReplyEffect ==
    ASSUME NexusType, NEW i \in Nodes, NodeReply(i)
    PROVE  /\ node' \in [Nodes -> NodeRec]
           /\ \A k \in Nodes : k # i => node'[k] = node[k]
           /\ node'[i].st = node[i].st
           /\ Len(node[i].in) \in Nat /\ Len(node[i].in) > 0
           /\ Len(node'[i].in) = Len(node[i].in) - 1
           /\ Len(node[i].out) \in Nat /\ Len(node'[i].out) = Len(node[i].out) + 1
           /\ node'[i].out[Len(node[i].out) + 1].id = node[i].in[1].id
           /\ node'[i].out[Len(node[i].out) + 1].ok /\ node[i].in[1].id # 0
                => node'[i].acc = node[i].in[1].id
  <1> DEFINE c == Head(node[i].in)
             ok == c.cmd = "state" \/ Permitted(c.cmd, node[i].st)
             a == [id |-> c.id, ok |-> ok, st |-> node[i].st]
             acc == IF ok /\ c.id # 0 THEN c.id ELSE node[i].acc
             want == IF ok /\ c.cmd \notin {"state", "duration"} THEN Target(c.cmd)
                     ELSE node[i].want
             r == [node[i] EXCEPT !.in = Tail(@), !.out = Append(@, a), !.acc = acc,
                                  !.want = want]
  <1>1. /\ node \in [Nodes -> NodeRec] /\ node[i] \in NodeRec
        /\ node[i].in \in Seq(Message) /\ node[i].out \in Seq(Reply) /\ node[i].in # <<>>
    BY DEF NexusType, NodeRec, NodeReply
  <1>2. /\ c = node[i].in[1] /\ c \in Message /\ Tail(node[i].in) \in Seq(Message)
        /\ Len(node[i].in) \in Nat /\ Len(node[i].in) > 0
        /\ Len(Tail(node[i].in)) = Len(node[i].in) - 1
    BY <1>1, TakeFirst
  <1>3. c.cmd \in Names /\ c.id \in Nat /\ node[i].st \in PwcStates
    BY <1>1, <1>2 DEF Message, NodeRec
  <1>4. ok \in BOOLEAN
    BY <1>3 DEF Permitted, Names
  <1>5. want \in PwcStates \cup {""} /\ acc \in Nat
    BY <1>1, <1>3 DEF Target, Names, PwcStates, NodeRec
  <1>6. node' = [node EXCEPT ![i] = r]
    BY DEF NodeReply
  <1> HIDE DEF c, ok, want
  <1>7. a \in Reply /\ a.id = c.id /\ a.ok = ok
    BY <1>3, <1>4 DEF Reply, NodeStates
  <1>8. a.ok /\ c.id # 0 => acc = c.id
    BY <1>7
  <1> HIDE DEF a, acc
  <1>9. /\ Append(node[i].out, a) \in Seq(Reply) /\ Len(node[i].out) \in Nat
        /\ Len(Append(node[i].out, a)) = Len(node[i].out) + 1
        /\ Append(node[i].out, a)[Len(node[i].out) + 1] = a
    BY <1>1, <1>7, AddLast
  <1>10. /\ r \in NodeRec /\ r.st = node[i].st /\ r.in = Tail(node[i].in)
         /\ r.out = Append(node[i].out, a) /\ r.acc = acc
    BY <1>1, <1>2, <1>5, <1>9 DEF NodeRec
  <1> HIDE DEF r
  <1>11. node' \in [Nodes -> NodeRec] /\ node'[i] = r
         /\ \A k \in Nodes : k # i => node'[k] = node[k]
    BY <1>1, <1>6, <1>10
  <1> QED BY <1>2, <1>7, <1>8, <1>9, <1>10, <1>11

\* A node changes its state.
LEMMA ChangeEffect ==
    ASSUME NexusType, NEW i \in Nodes, NodeChange(i) \/ NodeError(i)
    PROVE  /\ node' \in [Nodes -> NodeRec]
           /\ \A k \in Nodes : k # i => node'[k] = node[k]
           /\ node'[i].in = node[i].in /\ node'[i].out = node[i].out
           /\ node'[i].acc = node[i].acc
           /\ \/ node'[i].st = node[i].st /\ logq' = logq
              \/ logq' = Logged(i, node'[i].st)
  <1>1. node \in [Nodes -> NodeRec] /\ node[i] \in NodeRec
        /\ node[i].want \in PwcStates \cup {""}
        /\ node[i].st \in PwcStates
    BY DEF NexusType, NodeRec
  <1>2. CASE NodeChange(i)
    <2> DEFINE ok == MayChange(node[i].st, node[i].want)
               st == IF ok THEN node[i].want ELSE node[i].st
               r == [node[i] EXCEPT !.want = "", !.st = st]
    <2>1. st \in PwcStates
      BY <1>1, <1>2 DEF NodeChange
    <2>2. node' = [node EXCEPT ![i] = r]
          /\ logq' = IF ok THEN Logged(i, node[i].want) ELSE logq
      BY <1>2 DEF NodeChange
    <2>3. (st = node[i].st /\ logq' = logq) \/ logq' = Logged(i, st)
      BY <2>2
    <2> HIDE DEF st
    <2>4. /\ r \in NodeRec /\ r.in = node[i].in /\ r.out = node[i].out
          /\ r.acc = node[i].acc
          /\ r.st = st
      BY <1>1, <2>1 DEF NodeRec
    <2> HIDE DEF r
    <2>5. node' \in [Nodes -> NodeRec] /\ node'[i] = r
          /\ \A k \in Nodes : k # i => node'[k] = node[k]
      BY <1>1, <2>2, <2>4
    <2> QED BY <2>3, <2>4, <2>5
  <1>3. CASE NodeError(i)
    <2> DEFINE r == [node[i] EXCEPT !.st = "soft_error"]
    <2>1. node' = [node EXCEPT ![i] = r] /\ logq' = Logged(i, "soft_error")
      BY <1>3 DEF NodeError
    <2>2. /\ r \in NodeRec /\ r.in = node[i].in /\ r.out = node[i].out
          /\ r.acc = node[i].acc
          /\ r.st = "soft_error"
      BY <1>1 DEF NodeRec, PwcStates
    <2> HIDE DEF r
    <2>3. node' \in [Nodes -> NodeRec] /\ node'[i] = r
          /\ \A k \in Nodes : k # i => node'[k] = node[k]
      BY <1>1, <2>1, <2>2
    <2> QED BY <2>1, <2>2, <2>3
  <1> QED BY <1>2, <1>3

\* A line is logged, if there is a connection for it.
LEMMA LogEffect ==
    ASSUME NexusType, NEW i \in Nodes, NEW st \in PwcStates, logq' = Logged(i, st)
    PROVE  /\ logq' \in [Nodes -> Seq(PwcStates)]
           /\ \A k \in Nodes : k # i => logq'[k] = logq[k]
           /\ nd[i].log # "up" => logq'[i] = logq[i]
           /\ nd[i].log = "up" => Len(logq'[i]) > 0 /\ logq'[i][Len(logq'[i])] = st
  <1>1. logq \in [Nodes -> Seq(PwcStates)] /\ logq[i] \in Seq(PwcStates)
    BY DEF NexusType
  <1>2. /\ Append(logq[i], st) \in Seq(PwcStates) /\ Len(logq[i]) \in Nat
        /\ Len(Append(logq[i], st)) = Len(logq[i]) + 1
        /\ Append(logq[i], st)[Len(logq[i]) + 1] = st
    BY <1>1, AddLast
  <1>3. CASE nd[i].log = "up"
    BY <1>1, <1>2, <1>3 DEF Logged
  <1>4. CASE nd[i].log # "up"
    BY <1>1, <1>4 DEF Logged
  <1> QED BY <1>3, <1>4

\* A connection is made: the welcome message.
LEMMA ConnectEffect ==
    ASSUME NexusType, NEW i \in Nodes, OpConnect(i)
    PROVE  /\ node' \in [Nodes -> NodeRec]
           /\ \A k \in Nodes : k # i => node'[k] = node[k]
           /\ node'[i].in = node[i].in /\ node'[i].acc = node[i].acc
           /\ node'[i].st = node[i].st
           /\ Len(node[i].out) \in Nat /\ Len(node'[i].out) = Len(node[i].out) + 1
  <1> DEFINE a == [id |-> 0, ok |-> TRUE, st |-> ""]
             r == [node[i] EXCEPT !.out = Append(@, a)]
  <1>1. node \in [Nodes -> NodeRec] /\ node[i] \in NodeRec /\ node[i].out \in Seq(Reply)
    BY DEF NexusType, NodeRec
  <1>2. a \in Reply
    BY DEF Reply, NodeStates
  <1>3. node' = [node EXCEPT ![i] = r]
    BY DEF OpConnect
  <1> HIDE DEF a
  <1>4. /\ Append(node[i].out, a) \in Seq(Reply) /\ Len(node[i].out) \in Nat
        /\ Len(Append(node[i].out, a)) = Len(node[i].out) + 1
    BY <1>1, <1>2, AddLast
  <1>5. /\ r \in NodeRec /\ r.in = node[i].in /\ r.acc = node[i].acc /\ r.st = node[i].st
        /\ r.out = Append(node[i].out, a)
    BY <1>1, <1>4 DEF NodeRec
  <1> HIDE DEF r
  <1> QED BY <1>1, <1>3, <1>4, <1>5

\* The welcome message is read and the state asked for.
LEMMA AskEffect ==
    ASSUME NexusType, NEW i \in Nodes, OpLock(i), Len(node[i].out) > 0
    PROVE  /\ node' \in [Nodes -> NodeRec]
           /\ \A k \in Nodes : k # i => node'[k] = node[k]
           /\ node'[i].acc = node[i].acc /\ node'[i].st = node[i].st
           /\ Len(node[i].out) \in Nat /\ Len(node'[i].out) = Len(node[i].out) - 1
           /\ Len(node[i].in) \in Nat /\ Len(node'[i].in) = Len(node[i].in) + 1
           /\ node'[i].in[Len(node[i].in) + 1].id = 0
  <1> DEFINE m == [cmd |-> "state", id |-> 0]
             r == [node[i] EXCEPT !.out = Tail(@), !.in = Append(@, m)]
  <1>1. /\ node \in [Nodes -> NodeRec] /\ node[i] \in NodeRec
        /\ node[i].out \in Seq(Reply)
        /\ node[i].in \in Seq(Message)
    BY DEF NexusType, NodeRec
  <1>2. m \in Message /\ m.id = 0
    BY DEF Message, Names
  <1>3. node' = [node EXCEPT ![i] = r]
    BY DEF OpLock
  <1> HIDE DEF m
  <1>4. /\ Append(node[i].in, m) \in Seq(Message) /\ Len(node[i].in) \in Nat
        /\ Len(Append(node[i].in, m)) = Len(node[i].in) + 1
        /\ Append(node[i].in, m)[Len(node[i].in) + 1] = m
    BY <1>1, <1>2, AddLast
  <1>5. /\ Tail(node[i].out) \in Seq(Reply) /\ Len(node[i].out) \in Nat
        /\ Len(Tail(node[i].out)) = Len(node[i].out) - 1
    BY <1>1, TakeFirst, Queued
  <1>6. /\ r \in NodeRec /\ r.acc = node[i].acc /\ r.st = node[i].st
        /\ r.out = Tail(node[i].out) /\ r.in = Append(node[i].in, m)
    BY <1>1, <1>4, <1>5 DEF NodeRec
  <1> HIDE DEF r
  <1> QED BY <1>1, <1>2, <1>3, <1>4, <1>5, <1>6

-----------------------------------------------------------------------------
(* What the steps do to the threads, the connections and the nexus's state. *)

LEMMA ThrEffect ==
    ASSUME NexusType, NEW t \in Threads, NEW r \in ThrRec, thr' = [thr EXCEPT ![t] = r]
    PROVE  /\ thr' \in [Threads -> ThrRec] /\ thr'[t] = r
           /\ \A u \in Threads : u # t => thr'[u] = thr[u]
  BY DEF NexusType

LEMMA IdleType == Idle \in ThrRec /\ Idle.pc = "idle"
  <1>1. 1 \in 1..(N + 1)
    BY NAssumption
  <1> QED BY <1>1 DEF Idle, ThrRec, Places

\* A thread turns to the first node.
LEMMA ToEffect ==
    ASSUME NexusType, NEW t \in Threads, NEW pc \in Places, thr' = To(t, pc)
    PROVE  /\ thr' \in [Threads -> ThrRec]
           /\ \A u \in Threads : u # t => thr'[u] = thr[u]
           /\ thr'[t].pc = pc /\ thr'[t].i = 1
           /\ thr'[t].id = thr[t].id /\ thr'[t].cmd = thr[t].cmd
           /\ thr'[t].bad = thr[t].bad
  <1> DEFINE r == [thr[t] EXCEPT !.pc = pc, !.i = 1]
  <1>1. thr' = [thr EXCEPT ![t] = r] /\ thr[t] \in ThrRec
    BY DEF NexusType, To
  <1>2. 1 \in 1..(N + 1)
    BY NAssumption
  <1>3. r \in ThrRec /\ r.pc = pc /\ r.i = 1 /\ r.id = thr[t].id
        /\ r.cmd = thr[t].cmd /\ r.bad = thr[t].bad
    BY <1>1, <1>2 DEF ThrRec
  <1> HIDE DEF r
  <1> QED BY <1>1, <1>3, ThrEffect

\* A thread goes on to the next node.
LEMMA StepEffect ==
    ASSUME NexusType, NEW t \in Threads, NEW b \in BOOLEAN, thr[t].i <= N, thr' = Step(t, b)
    PROVE  /\ thr' \in [Threads -> ThrRec]
           /\ \A u \in Threads : u # t => thr'[u] = thr[u]
           /\ thr[t].i \in Nodes /\ thr'[t].i = thr[t].i + 1 /\ thr'[t].pc = thr[t].pc
           /\ thr'[t].id = thr[t].id /\ thr'[t].cmd = thr[t].cmd
           /\ (~thr'[t].bad <=> ~thr[t].bad /\ ~b)
  <1> DEFINE x == thr[t].bad \/ b
             r == [thr[t] EXCEPT !.i = @ + 1, !.bad = x]
  <1>1. thr' = [thr EXCEPT ![t] = r] /\ thr[t] \in ThrRec
    BY DEF NexusType, Step
  <1>2. thr[t].i \in 1..(N + 1)
    BY <1>1 DEF ThrRec
  <1>3. thr[t].i \in Nodes /\ thr[t].i + 1 \in 1..(N + 1)
    <2> DEFINE n == thr[t].i
    <2>1. n \in 1..(N + 1) /\ n <= N
      BY <1>2
    <2> HIDE DEF n
    <2>2. n \in 1..N /\ n + 1 \in 1..(N + 1)
      BY <2>1, NAssumption
    <2> QED BY <2>2 DEF Nodes, n
  <1>4. x \in BOOLEAN /\ (~x <=> ~thr[t].bad /\ ~b)
    BY <1>1 DEF ThrRec
  <1> HIDE DEF x
  <1>5. /\ r \in ThrRec /\ r.pc = thr[t].pc /\ r.i = thr[t].i + 1
        /\ r.id = thr[t].id /\ r.cmd = thr[t].cmd /\ r.bad = x
    BY <1>1, <1>3, <1>4 DEF ThrRec
  <1> HIDE DEF r
  <1> QED BY <1>1, <1>3, <1>4, <1>5, ThrEffect

LEMMA ConnEffect ==
    ASSUME NexusType, NEW i \in Nodes, NEW r \in ConnRec, nd' = [nd EXCEPT ![i] = r]
    PROVE  /\ nd' \in [Nodes -> ConnRec] /\ nd'[i] = r
           /\ \A k \in Nodes : k # i => nd'[k] = nd[k]
  BY DEF NexusType

\* A line is handled.
LEMMA HandledEffect ==
    ASSUME NexusType, NEW i \in Nodes, NEW st \in PwcStates
    PROVE  /\ Handled(i, st) \in [Nodes -> ConnRec]
           /\ \A k \in Nodes : k # i => Handled(i, st)[k] = nd[k]
           /\ Handled(i, st)[i].on = nd[i].on /\ Handled(i, st)[i].log = nd[i].log
           /\ Handled(i, st)[i].st = st
           /\ Handled(i, st)[i].heard <=> nd[i].heard \/ op[i] = "done"
  <1> DEFINE x == nd[i].heard \/ op[i] = "done"
             r == [nd[i] EXCEPT !.st = st, !.heard = x]
  <1>1. nd \in [Nodes -> ConnRec] /\ nd[i] \in ConnRec /\ x \in BOOLEAN
    BY DEF NexusType, ConnRec
  <1>2. Handled(i, st) = [nd EXCEPT ![i] = r]
    BY DEF Handled
  <1> HIDE DEF x
  <1>3. r \in ConnRec /\ r.on = nd[i].on /\ r.log = nd[i].log /\ r.st = st /\ r.heard = x
    BY <1>1 DEF ConnRec, NodeStates
  <1> HIDE DEF r
  <1> QED BY <1>1, <1>2, <1>3 DEF x

\* The state of the nexus is a state.
LEMMA CombineType ==
    ASSUME NEW st \in [Nodes -> NodeStates]
    PROVE  Combine(st) \in NodeStates \cup {"undefined"}
  <1> DEFINE good == {st[i] : i \in Nodes \ {k \in Nodes : st[k] \in Errors}}
             s == CHOOSE x \in good : TRUE
  <1>1. good \subseteq NodeStates
    OBVIOUS
  <1>2. good # {} => s \in good
    OBVIOUS
  <1>3. Combine(st) \in {"fatal_error", "hard_error", "soft_error", "undefined"}
           \/ (good # {} /\ Combine(st) = s)
    BY DEF Combine
  <1> HIDE DEF good, s
  <1> QED BY <1>1, <1>2, <1>3 DEF NodeStates, PwcStates

-----------------------------------------------------------------------------
(* The invariant.                                                          *)

\* The mutex is held by the thread that sends and reads, or for a connection that
\* is initialised; the control thread is in CONFIG without it.
Roles ==
    /\ \A t \in Threads : lock = t <=> thr[t].pc \in {"send", "recv"}
    /\ \A i \in Nodes : op[i] = "state" => lock = "open"
    /\ \A i, j \in Nodes : op[i] = "state" /\ op[j] = "state" => i = j
    /\ \A i \in Nodes : nd[i].on <=> op[i] \in {"state", "done"}
    /\ thr["main"].pc \notin {"configSend", "configRecv"}
    /\ pwc.cmd # "" => issued > 0
    /\ \A t \in Threads : thr[t].pc # "idle" => thr[t].id > 0 /\ thr[t].cmd # ""
    /\ ~spoiled /\ Configuring => lock = "none"
    /\ thr["ctl"].pc = "configRecv" => \A i \in Nodes : nd[i].on

\* Thread t has still to read node k.
Awaits(t, k) == thr[t].pc \in {"recv", "configRecv"} /\ thr[t].i <= k

\* Nothing is on the way between the nexus and node k; or one command, or its reply.
Quiet(k) == Len(node[k].in) = 0 /\ Len(node[k].out) = 0
One(k, id) ==
    \/ Len(node[k].in) = 1 /\ node[k].in[1].id = id /\ Len(node[k].out) = 0
    \/ /\ Len(node[k].in) = 0 /\ Len(node[k].out) = 1 /\ node[k].out[1].id = id
       /\ node[k].out[1].ok /\ id # 0 => node[k].acc = id

\* A node that is not connected has nothing on the way but its welcome message.
Before(k) ==
    /\ op[k] = "connect" => Quiet(k)
    /\ op[k] = "lock" => Len(node[k].in) = 0 /\ Len(node[k].out) = 1

\* The account of the queues of node k.
Account(k) ==
    /\ op[k] = "state" => One(k, 0)
    /\ op[k] = "done" => /\ \A t \in Threads : Awaits(t, k) => One(k, thr[t].id)
                         /\ (\A t \in Threads : ~Awaits(t, k)) => Quiet(k)

Queues == \A k \in Nodes : Before(k) /\ (~spoiled => Account(k))

\* The nodes that were read have accepted the command, if none has failed.
Accepted ==
    ~spoiled => \A t \in Threads, k \in Nodes :
       thr[t].pc = "recv" /\ ~thr[t].bad /\ k < thr[t].i => node[k].acc = thr[t].id

\* The last line of a log connection is the state of its node.
Logs == \A i \in Nodes :
    /\ nd[i].log = "no" => Len(logq[i]) = 0 /\ ~nd[i].heard
    /\ nd[i].heard => op[i] = "done"
    /\ nd[i].log = "up" /\ Len(logq[i]) > 0 => logq[i][Len(logq[i])] = node[i].st
    /\ nd[i].log = "up" /\ nd[i].heard /\ Len(logq[i]) = 0 => nd[i].st = node[i].st

NexusInv == NexusType /\ Roles /\ Queues /\ Accepted /\ Logs

LEMMA NexusInit == Init => NexusInv
  <1> SUFFICES ASSUME Init PROVE NexusInv
    OBVIOUS
  <1>1. NexusType
    <2>1. \A S : <<>> \in Seq(S)
      BY EmptySeq
    <2> QED BY <2>1, IdleType
            DEF Init, NexusType, NodeRec, ConnRec, MonRec, PwcStates, NodeStates
  <1>2. Roles
    BY IdleType DEF Init, Roles, Threads, Configuring
  <1>3. Queues
    BY EmptySeq DEF Init, Queues, Before, Account, Quiet
  <1>4. Accepted
    BY IdleType DEF Init, Accepted
  <1>5. Logs
    BY EmptySeq DEF Init, Logs
  <1> QED BY <1>1, <1>2, <1>3, <1>4, <1>5 DEF NexusInv

LEMMA Indices ==
    ASSUME NexusType
    PROVE  /\ \A t \in Threads : thr[t].i \in Int /\ thr[t].id \in Nat
           /\ \A k \in Nodes : k \in Int /\ 1 <= k /\ k <= N
           /\ N \in Int
  <1>1. \A t \in Threads : thr[t].i \in 1..(N + 1) /\ thr[t].id \in Nat
    BY DEF NexusType, ThrRec
  <1> QED BY <1>1, NAssumption DEF Nodes

\* What the invariant says of the threads at one node.
LEMMA Alone ==
    ASSUME NexusType, Roles
    PROVE  /\ \A t \in Threads, k \in Nodes :
                ~spoiled /\ lock \in {"none", "open"} /\ Awaits(t, k) =>
                    /\ t = "ctl" /\ thr[t].pc = "configRecv"
                    /\ lock = "none" /\ op[k] = "done"
           /\ \A t, u \in Threads, k \in Nodes :
                ~spoiled /\ lock = t /\ Awaits(u, k) => u = t
           /\ \A t \in Threads : ~spoiled /\ lock = t => \A i \in Nodes : op[i] # "state"
  <1>1. \A t \in Threads, k \in Nodes :
            ~spoiled /\ lock \in {"none", "open"} /\ Awaits(t, k) =>
                t = "ctl" /\ thr[t].pc = "configRecv" /\ lock = "none" /\ op[k] = "done"
    BY DEF Roles, Awaits, Threads, Configuring
  <1>2. \A t, u \in Threads, k \in Nodes : ~spoiled /\ lock = t /\ Awaits(u, k) => u = t
    BY DEF Roles, Awaits, Threads, Configuring
  <1>3. \A t \in Threads : ~spoiled /\ lock = t => \A i \in Nodes : op[i] # "state"
    BY DEF Roles, Threads
  <1> QED BY <1>1, <1>2, <1>3

\* Each part is kept while what it is about stays.
LEMMA RolesFrame ==
    ASSUME Roles, UNCHANGED <<thr, lock, op, pwc, issued, spoiled>>,
           \A i \in Nodes : nd'[i].on = nd[i].on
    PROVE  Roles'
  BY DEF Roles, Configuring

LEMMA QueuesFrame ==
    ASSUME Queues, UNCHANGED <<node, op>>, spoiled => spoiled',
           \A t \in Threads, k \in Nodes :
              /\ thr'[t].pc \in {"recv", "configRecv"} /\ thr'[t].i <= k <=> Awaits(t, k)
              /\ Awaits(t, k) => thr'[t].id = thr[t].id
    PROVE  Queues'
  BY DEF Queues, Before, Account, Awaits, Quiet, One

LEMMA AcceptedFrame ==
    ASSUME Accepted, UNCHANGED thr, spoiled => spoiled',
           \A k \in Nodes : node'[k].acc = node[k].acc
    PROVE  Accepted'
  BY DEF Accepted

LEMMA LogsFrame ==
    ASSUME Logs, UNCHANGED <<nd, logq>>, \A k \in Nodes : node'[k].st = node[k].st,
           \A k \in Nodes : op[k] = "done" => op'[k] = "done"
    PROVE  Logs'
  BY DEF Logs

-----------------------------------------------------------------------------
(* The nodes.                                                              *)

LEMMA NodeReplyKeeps ==
    ASSUME NexusInv, NEW i \in Nodes, NodeReply(i)
    PROVE  NexusInv'
  <1>1. NexusType /\ Roles /\ Queues /\ Accepted /\ Logs
    BY DEF NexusInv
  <1>2. UNCHANGED <<nd, logq, pwc, lock, thr, op, mon, issued, errors, lost, spoiled>>
    BY DEF NodeReply, bounds
  <1>3. /\ node' \in [Nodes -> NodeRec]
        /\ \A k \in Nodes : k # i => node'[k] = node[k]
        /\ node'[i].st = node[i].st
        /\ Len(node[i].in) \in Nat /\ Len(node[i].in) > 0
        /\ Len(node'[i].in) = Len(node[i].in) - 1
        /\ Len(node[i].out) \in Nat /\ Len(node'[i].out) = Len(node[i].out) + 1
        /\ node'[i].out[Len(node[i].out) + 1].id = node[i].in[1].id
        /\ node'[i].out[Len(node[i].out) + 1].ok /\ node[i].in[1].id # 0
             => node'[i].acc = node[i].in[1].id
    BY <1>1, ReplyEffect
  <1>4. NexusType'
    BY <1>1, <1>2, <1>3 DEF NexusType
  <1>5. Roles'
    BY <1>1, <1>2, RolesFrame
  <1>6. ~Quiet(i) /\ op[i] \notin {"connect", "lock"}
    BY <1>1, <1>3 DEF Queues, Before, Quiet
  <1>7. \A n : One(i, n) => One(i, n)'
    BY <1>3 DEF One
  <1>8. Queues'
    <2>1. ASSUME NEW k \in Nodes, k # i
          PROVE  Before(k)' /\ (~spoiled' => Account(k)')
      <3>1. node'[k] = node[k]
        BY <1>3, <2>1
      <3> QED BY <1>1, <1>2, <3>1 DEF Queues, Before, Account, Quiet, One, Awaits
    <2>2. Before(i)'
      BY <1>2, <1>6 DEF Before
    <2>3. ASSUME ~spoiled'
          PROVE  Account(i)'
      <3>1. Account(i)
        BY <1>1, <1>2, <2>3 DEF Queues
      <3>2. op[i] = "state" => One(i, 0)'
        BY <1>7, <3>1 DEF Account
      <3>3. \A t \in Threads : op[i] = "done" /\ Awaits(t, i) => One(i, thr[t].id)'
        BY <1>2, <1>7, <3>1 DEF Account, One
      <3>4. op[i] = "done" => ~(\A t \in Threads : ~Awaits(t, i))
        BY <1>6, <3>1 DEF Account
      <3> QED BY <1>2, <3>2, <3>3, <3>4 DEF Account, Awaits
    <2> QED BY <2>1, <2>2, <2>3 DEF Queues
  <1>9. Accepted'
    <2> SUFFICES ASSUME ~spoiled, NEW t \in Threads, NEW k \in Nodes,
                        thr[t].pc = "recv", ~thr[t].bad, k < thr[t].i
                 PROVE  node'[k].acc = thr[t].id
      BY <1>2 DEF Accepted
    <2>1. node[k].acc = thr[t].id
      BY <1>1 DEF Accepted
    <2>2. lock = t
      BY <1>1 DEF Roles
    <2>3. k # i
      <3>1. SUFFICES ASSUME k = i PROVE FALSE
        OBVIOUS
      <3>2. op[i] = "done"
        BY <1>1, <1>6, <2>2, Alone DEF NexusType
      <3>3. ~Awaits(t, i)
        BY <1>1, <3>1, Indices DEF Awaits
      <3>4. \A u \in Threads : ~Awaits(u, i)
        BY <1>1, <2>2, <3>3, Alone
      <3> QED BY <1>1, <1>6, <3>2, <3>4 DEF Queues, Account
    <2> QED BY <1>3, <2>1, <2>3
  <1>10. Logs'
    BY <1>1, <1>2, <1>3, LogsFrame
  <1> QED BY <1>4, <1>5, <1>8, <1>9, <1>10 DEF NexusInv

LEMMA NodeChangeKeeps ==
    ASSUME NexusInv, NEW i \in Nodes, NodeChange(i) \/ NodeError(i)
    PROVE  NexusInv'
  <1>1. NexusType /\ Roles /\ Queues /\ Accepted /\ Logs
    BY DEF NexusInv
  <1>2. UNCHANGED <<nd, pwc, lock, thr, op, mon, issued, spoiled>>
    BY DEF NodeChange, NodeError, bounds
  <1>3. /\ node' \in [Nodes -> NodeRec]
        /\ \A k \in Nodes : k # i => node'[k] = node[k]
        /\ node'[i].in = node[i].in /\ node'[i].out = node[i].out
        /\ node'[i].acc = node[i].acc
        /\ \/ node'[i].st = node[i].st /\ logq' = logq
           \/ logq' = Logged(i, node'[i].st)
    BY <1>1, ChangeEffect
  <1>4. \/ node'[i].st = node[i].st /\ logq' = logq
        \/ /\ logq' \in [Nodes -> Seq(PwcStates)]
           /\ \A k \in Nodes : k # i => logq'[k] = logq[k]
           /\ nd[i].log # "up" => logq'[i] = logq[i]
           /\ nd[i].log = "up" => /\ Len(logq'[i]) > 0
                                  /\ logq'[i][Len(logq'[i])] = node'[i].st
    <2> DEFINE st == node'[i].st
    <2>1. st \in PwcStates
      BY <1>3 DEF NodeRec
    <2>2. (st = node[i].st /\ logq' = logq) \/ logq' = Logged(i, st)
      BY <1>3
    <2> HIDE DEF st
    <2>3. \/ st = node[i].st /\ logq' = logq
          \/ /\ logq' \in [Nodes -> Seq(PwcStates)]
             /\ \A k \in Nodes : k # i => logq'[k] = logq[k]
             /\ nd[i].log # "up" => logq'[i] = logq[i]
             /\ nd[i].log = "up" => Len(logq'[i]) > 0 /\ logq'[i][Len(logq'[i])] = st
      BY <1>1, <2>1, <2>2, LogEffect
    <2> QED BY <2>3 DEF st
  <1>5. NexusType'
    BY <1>1, <1>2, <1>3, <1>4 DEF NexusType
  <1>6. Roles'
    BY <1>1, <1>2, RolesFrame
  <1>7. \A k \in Nodes : node'[k].in = node[k].in /\ node'[k].out = node[k].out
                         /\ node'[k].acc = node[k].acc
    BY <1>3
  <1>8. Queues'
    BY <1>1, <1>2, <1>7 DEF Queues, Before, Account, Quiet, One, Awaits
  <1>9. Accepted'
    BY <1>1, <1>2, <1>7, AcceptedFrame
  <1>10. Logs'
    <2>1. ASSUME NEW k \in Nodes, k # i
          PROVE  node'[k] = node[k] /\ logq'[k] = logq[k]
      BY <1>3, <1>4, <2>1
    <2>2. CASE node'[i].st = node[i].st /\ logq' = logq
      BY <1>1, <1>2, <2>1, <2>2 DEF Logs
    <2>3. CASE /\ nd[i].log # "up" => logq'[i] = logq[i]
               /\ nd[i].log = "up" => /\ Len(logq'[i]) > 0
                                      /\ logq'[i][Len(logq'[i])] = node'[i].st
      BY <1>1, <1>2, <2>1, <2>3 DEF Logs
    <2> QED BY <1>4, <2>2, <2>3
  <1> QED BY <1>5, <1>6, <1>8, <1>9, <1>10 DEF NexusInv

-----------------------------------------------------------------------------
(* Connections.                                                            *)

LEMMA OpConnectKeeps ==
    ASSUME NexusInv, NEW i \in Nodes, OpConnect(i)
    PROVE  NexusInv'
  <1>1. NexusType /\ Roles /\ Queues /\ Accepted /\ Logs
    BY DEF NexusInv
  <1>2. /\ UNCHANGED <<nd, logq, pwc, lock, thr, mon, issued, spoiled>>
        /\ op[i] = "connect" /\ op' = [op EXCEPT ![i] = "lock"]
    BY DEF OpConnect, bounds
  <1>3. op' \in [Nodes -> {"connect", "lock", "state", "done"}] /\ op'[i] = "lock"
        /\ \A k \in Nodes : k # i => op'[k] = op[k]
    BY <1>1, <1>2 DEF NexusType
  <1>4. /\ node' \in [Nodes -> NodeRec]
        /\ \A k \in Nodes : k # i => node'[k] = node[k]
        /\ node'[i].in = node[i].in /\ node'[i].acc = node[i].acc
        /\ node'[i].st = node[i].st
        /\ Len(node[i].out) \in Nat /\ Len(node'[i].out) = Len(node[i].out) + 1
    BY <1>1, ConnectEffect
  <1>5. NexusType'
    BY <1>1, <1>2, <1>3, <1>4 DEF NexusType
  <1>6. Roles'
    <2>1. ~nd[i].on
      BY <1>1, <1>2 DEF Roles
    <2> QED BY ZenonT(60), <1>1, <1>2, <1>3, <2>1 DEF Roles, Configuring
  <1>7. Queues'
    <2>1. ASSUME NEW k \in Nodes, k # i
          PROVE  Before(k)' /\ (~spoiled' => Account(k)')
      <3>1. node'[k] = node[k] /\ op'[k] = op[k]
        BY <1>3, <1>4, <2>1
      <3> QED BY <1>1, <1>2, <3>1 DEF Queues, Before, Account, Quiet, One, Awaits
    <2>2. Before(i)' /\ Account(i)'
      BY <1>1, <1>2, <1>3, <1>4 DEF Queues, Before, Account, Quiet
    <2> QED BY <2>1, <2>2 DEF Queues
  <1>8. Accepted'
    BY <1>1, <1>2, <1>4, AcceptedFrame
  <1>9. Logs'
    BY <1>1, <1>2, <1>3, <1>4, LogsFrame
  <1> QED BY <1>5, <1>6, <1>7, <1>8, <1>9 DEF NexusInv

LEMMA OpLockKeeps ==
    ASSUME NexusInv, NEW i \in Nodes, OpLock(i)
    PROVE  NexusInv'
  <1>1. NexusType /\ Roles /\ Queues /\ Accepted /\ Logs
    BY DEF NexusInv
  <1>2. /\ UNCHANGED <<logq, pwc, thr, mon, issued>>
        /\ op[i] = "lock" /\ op' = [op EXCEPT ![i] = "state"]
        /\ nd' = [nd EXCEPT ![i].on = TRUE]
        /\ lock = "none" /\ lock' = "open" /\ spoiled' = (spoiled \/ Configuring)
    BY DEF OpLock, bounds
  <1>3. op' \in [Nodes -> {"connect", "lock", "state", "done"}] /\ op'[i] = "state"
        /\ \A k \in Nodes : k # i => op'[k] = op[k]
    BY <1>1, <1>2 DEF NexusType
  <1>4. /\ nd' \in [Nodes -> ConnRec] /\ nd'[i].on
        /\ nd'[i].st = nd[i].st /\ nd'[i].log = nd[i].log /\ nd'[i].heard = nd[i].heard
        /\ \A k \in Nodes : k # i => nd'[k] = nd[k]
    <2> DEFINE r == [nd[i] EXCEPT !.on = TRUE]
    <2>1. nd[i] \in ConnRec
      BY <1>1 DEF NexusType
    <2>2. nd' = [nd EXCEPT ![i] = r]
      BY <1>2
    <2>3. r \in ConnRec /\ r.on /\ r.st = nd[i].st /\ r.log = nd[i].log
          /\ r.heard = nd[i].heard
      BY <2>1 DEF ConnRec
    <2> HIDE DEF r
    <2> QED BY <1>1, <2>2, <2>3, ConnEffect
  <1>5. Len(node[i].in) = 0 /\ Len(node[i].out) = 1
    BY <1>1, <1>2 DEF Queues, Before
  <1>6. /\ node' \in [Nodes -> NodeRec]
        /\ \A k \in Nodes : k # i => node'[k] = node[k]
        /\ node'[i].acc = node[i].acc /\ node'[i].st = node[i].st
        /\ Len(node[i].out) \in Nat /\ Len(node'[i].out) = Len(node[i].out) - 1
        /\ Len(node[i].in) \in Nat /\ Len(node'[i].in) = Len(node[i].in) + 1
        /\ node'[i].in[Len(node[i].in) + 1].id = 0
    <2>1. Len(node[i].out) > 0
      BY <1>5
    <2> QED BY <1>1, <2>1, AskEffect
  <1>7. spoiled' \in BOOLEAN
    BY <1>1, <1>2 DEF NexusType, Configuring
  <1>8. NexusType'
    BY <1>1, <1>2, <1>3, <1>4, <1>6, <1>7 DEF NexusType
  <1>9. Roles'
    <2>1. \A t \in Threads : thr[t].pc \notin {"send", "recv"} /\ t # "open"
      BY <1>1, <1>2 DEF Roles, Threads
    <2>2. \A k \in Nodes : op[k] # "state"
      BY <1>1, <1>2 DEF Roles
    <2>3. ~spoiled' => ~Configuring'
      BY <1>2 DEF Configuring
    <2>4. thr'["ctl"].pc = "configRecv" => \A k \in Nodes : nd'[k].on
      BY <1>1, <1>2, <1>4 DEF Roles
    <2>5. \A t \in Threads : lock' = t <=> thr'[t].pc \in {"send", "recv"}
      BY <1>2, <2>1
    <2>6. \A k \in Nodes : nd'[k].on <=> op'[k] \in {"state", "done"}
      BY <1>1, <1>3, <1>4 DEF Roles
    <2>7. \A k, j \in Nodes : op'[k] = "state" /\ op'[j] = "state" => k = j
      BY <1>3, <2>2
    <2>8. /\ thr'["main"].pc \notin {"configSend", "configRecv"}
          /\ pwc'.cmd # "" => issued' > 0
          /\ \A t \in Threads : thr'[t].pc # "idle" => thr'[t].id > 0 /\ thr'[t].cmd # ""
      BY <1>1, <1>2 DEF Roles
    <2>9. lock' = "open"
      BY <1>2
    <2> QED BY <2>3, <2>4, <2>5, <2>6, <2>7, <2>8, <2>9 DEF Roles
  <1>10. Queues'
    <2>1. ASSUME NEW k \in Nodes, k # i
          PROVE  Before(k)' /\ (~spoiled' => Account(k)')
      <3>1. node'[k] = node[k] /\ op'[k] = op[k]
        BY <1>3, <1>6, <2>1
      <3>2. Before(k) /\ (~spoiled => Account(k))
        BY <1>1 DEF Queues
      <3>3. Before(k)'
        BY <3>1, <3>2 DEF Before, Quiet
      <3>4. thr' = thr /\ (~spoiled' => ~spoiled)
        BY <1>2
      <3>5. ASSUME ~spoiled' PROVE Account(k)'
        BY <3>1, <3>2, <3>4, <3>5 DEF Account, Quiet, One, Awaits
      <3> QED BY <3>3, <3>5
    <2>2. Before(i)' /\ Account(i)'
      BY <1>3, <1>5, <1>6 DEF Before, Account, One
    <2> QED BY <2>1, <2>2 DEF Queues
  <1>11. Accepted'
    <2>1. \A k \in Nodes : node'[k].acc = node[k].acc
      BY <1>6
    <2>2. spoiled => spoiled'
      BY <1>2
    <2> QED BY <1>1, <1>2, <2>1, <2>2, AcceptedFrame
  <1>12. Logs'
    <2>1. ASSUME NEW k \in Nodes
          PROVE  /\ nd'[k].log = nd[k].log /\ nd'[k].st = nd[k].st
                 /\ nd'[k].heard = nd[k].heard
                 /\ node'[k].st = node[k].st /\ (op[k] = "done" => op'[k] = "done")
      BY <1>2, <1>3, <1>4, <1>6
    <2> QED BY <1>1, <1>2, <2>1 DEF Logs
  <1> QED BY <1>8, <1>9, <1>10, <1>11, <1>12 DEF NexusInv

LEMMA OpStateKeeps ==
    ASSUME NexusInv, NEW i \in Nodes, OpState(i)
    PROVE  NexusInv'
  <1>1. NexusType /\ Roles /\ Queues /\ Accepted /\ Logs
    BY DEF NexusInv
  <1>2. /\ UNCHANGED <<logq, thr, mon, issued, spoiled>>
        /\ op[i] = "state" /\ op' = [op EXCEPT ![i] = "done"]
        /\ node[i].out # <<>> /\ node' = Read(i)
        /\ nd' = [nd EXCEPT ![i].st = Head(node[i].out).st]
        /\ pwc' = [pwc EXCEPT !.st = Combine([k \in Nodes |-> nd'[k].st])]
        /\ lock' = "none"
    BY DEF OpState, bounds
  <1>3. op' \in [Nodes -> {"connect", "lock", "state", "done"}] /\ op'[i] = "done"
        /\ \A k \in Nodes : k # i => op'[k] = op[k]
    BY <1>1, <1>2 DEF NexusType
  <1>4. /\ node' \in [Nodes -> NodeRec]
        /\ \A k \in Nodes : k # i => node'[k] = node[k]
        /\ node'[i].st = node[i].st
        /\ node'[i].acc = node[i].acc /\ node'[i].in = node[i].in
        /\ Len(node[i].out) \in Nat /\ Len(node[i].out) > 0
        /\ Len(node'[i].out) = Len(node[i].out) - 1
        /\ Head(node[i].out) \in Reply
    BY <1>1, <1>2, ReadEffect
  <1>5. /\ nd' \in [Nodes -> ConnRec]
        /\ nd'[i].on = nd[i].on /\ nd'[i].log = nd[i].log /\ nd'[i].heard = nd[i].heard
        /\ \A k \in Nodes : k # i => nd'[k] = nd[k]
    <2> DEFINE st == Head(node[i].out).st
               r == [nd[i] EXCEPT !.st = st]
    <2>1. nd[i] \in ConnRec
      BY <1>1 DEF NexusType
    <2>2. st \in NodeStates
      BY <1>4 DEF Reply
    <2>3. nd' = [nd EXCEPT ![i] = r]
      BY <1>2
    <2> HIDE DEF st
    <2>4. r \in ConnRec /\ r.on = nd[i].on /\ r.log = nd[i].log /\ r.heard = nd[i].heard
      BY <2>1, <2>2 DEF ConnRec
    <2> HIDE DEF r
    <2> QED BY <1>1, <2>3, <2>4, ConnEffect
  <1>6. pwc' \in [st : NodeStates \cup {"undefined"}, cmd : Commands \cup {""}]
        /\ pwc'.cmd = pwc.cmd
    <2> DEFINE f == [k \in Nodes |-> nd'[k].st]
    <2>1. f \in [Nodes -> NodeStates]
      BY <1>5 DEF ConnRec
    <2> HIDE DEF f
    <2>2. Combine(f) \in NodeStates \cup {"undefined"}
      BY <2>1, CombineType
    <2>3. pwc' = [pwc EXCEPT !.st = Combine(f)]
      BY <1>2 DEF f
    <2> QED BY <1>1, <2>2, <2>3 DEF NexusType
  <1>7. NexusType'
    BY <1>1, <1>2, <1>3, <1>4, <1>5, <1>6 DEF NexusType
  <1>8. lock = "open" /\ \A t \in Threads : t \notin {"none", "open"}
    BY <1>1, <1>2 DEF Roles, Threads
  <1>9. Roles'
    <2>1. \A k \in Nodes : op'[k] # "state"
      BY <1>1, <1>2, <1>3 DEF Roles
    <2>2. \A k \in Nodes : nd'[k].on = nd[k].on
      BY <1>5
    <2>3. \A t \in Threads : lock' = t <=> thr'[t].pc \in {"send", "recv"}
      BY <1>1, <1>2, <1>8 DEF Roles
    <2>4. \A k \in Nodes : nd'[k].on <=> op'[k] \in {"state", "done"}
      <3>1. \A k \in Nodes : k # i => op'[k] = op[k]
        BY <1>3
      <3> QED BY ZenonT(60), <1>1, <1>2, <1>3, <2>2, <3>1 DEF Roles
    <2>5. /\ thr'["main"].pc \notin {"configSend", "configRecv"}
          /\ pwc'.cmd # "" => issued' > 0
          /\ \A t \in Threads : thr'[t].pc # "idle" => thr'[t].id > 0 /\ thr'[t].cmd # ""
      BY <1>1, <1>2, <1>6 DEF Roles
    <2>6. lock' = "none"
      BY <1>2
    <2>7. thr'["ctl"].pc = "configRecv" => \A k \in Nodes : nd'[k].on
      BY <1>1, <1>2, <2>2 DEF Roles
    <2> QED BY <2>1, <2>3, <2>4, <2>5, <2>6, <2>7 DEF Roles
  <1>10. Queues'
    <2>1. ASSUME NEW k \in Nodes, k # i
          PROVE  Before(k)' /\ (~spoiled' => Account(k)')
      <3>1. node'[k] = node[k] /\ op'[k] = op[k]
        BY <1>3, <1>4, <2>1
      <3> QED BY <1>1, <1>2, <3>1 DEF Queues, Before, Account, Quiet, One, Awaits
    <2>2. Before(i)'
      BY <1>3 DEF Before
    <2>3. ASSUME ~spoiled
          PROVE  Account(i)'
      <3>1. One(i, 0)
        BY <1>1, <1>2, <2>3 DEF Queues, Account
      <3>2. Quiet(i)'
        BY <1>4, <3>1 DEF One, Quiet
      <3>3. \A t \in Threads : ~Awaits(t, i)
        BY <1>1, <1>2, <1>8, <2>3, Alone
      <3> QED BY <1>2, <1>3, <3>2, <3>3 DEF Account, Awaits
    <2> QED BY <1>2, <2>1, <2>2, <2>3 DEF Queues
  <1>11. Accepted'
    BY <1>1, <1>2, <1>4, AcceptedFrame
  <1>12. Logs'
    <2>1. ~nd[i].heard
      BY <1>1, <1>2 DEF Logs
    <2> QED BY <1>1, <1>2, <1>3, <1>4, <1>5, <2>1 DEF Logs
  <1> QED BY <1>7, <1>9, <1>10, <1>11, <1>12 DEF NexusInv

LEMMA LogConnectKeeps ==
    ASSUME NexusInv, NEW i \in Nodes, LogConnect(i)
    PROVE  NexusInv'
  <1>1. NexusType /\ Roles /\ Queues /\ Accepted /\ Logs
    BY DEF NexusInv
  <1>2. /\ UNCHANGED <<node, logq, pwc, lock, thr, op, mon, issued, spoiled>>
        /\ nd[i].log = "no" /\ nd' = [nd EXCEPT ![i].log = "up"]
    BY DEF LogConnect, bounds
  <1>3. /\ nd' \in [Nodes -> ConnRec] /\ nd'[i].log = "up"
        /\ nd'[i].on = nd[i].on /\ nd'[i].st = nd[i].st /\ nd'[i].heard = nd[i].heard
        /\ \A k \in Nodes : k # i => nd'[k] = nd[k]
    <2> DEFINE r == [nd[i] EXCEPT !.log = "up"]
    <2>1. nd[i] \in ConnRec
      BY <1>1 DEF NexusType
    <2>2. nd' = [nd EXCEPT ![i] = r]
      BY <1>2
    <2>3. /\ r \in ConnRec /\ r.on = nd[i].on /\ r.st = nd[i].st /\ r.heard = nd[i].heard
          /\ r.log = "up"
      BY <2>1 DEF ConnRec
    <2> HIDE DEF r
    <2> QED BY <1>1, <2>2, <2>3, ConnEffect
  <1>4. NexusType'
    BY <1>1, <1>2, <1>3 DEF NexusType
  <1>5. Roles'
    <2>1. \A k \in Nodes : nd'[k].on = nd[k].on
      BY <1>3
    <2> QED BY <1>1, <1>2, <2>1, RolesFrame
  <1>6. Queues' /\ Accepted'
    BY <1>1, <1>2 DEF Queues, Before, Account, Quiet, One, Awaits, Accepted
  <1>7. Logs'
    <2>1. Len(logq[i]) = 0 /\ ~nd[i].heard
      BY <1>1, <1>2 DEF Logs
    <2> QED BY <1>1, <1>2, <1>3, <2>1 DEF Logs
  <1> QED BY <1>4, <1>5, <1>6, <1>7 DEF NexusInv

-----------------------------------------------------------------------------
(* The monitor.                                                            *)

\* What it does touches neither the mutex nor the queues.
LEMMA MonFrame ==
    ASSUME NexusInv, UNCHANGED <<node, lock, thr, op, issued, spoiled>>, pwc'.cmd = pwc.cmd,
           \A i \in Nodes : nd'[i].on = nd[i].on
    PROVE  Roles' /\ Queues' /\ Accepted'
  <1>1. Roles'
    BY DEF NexusInv, Roles, Configuring
  <1>2. Queues' /\ Accepted'
    BY DEF NexusInv, Queues, Before, Account, Quiet, One, Awaits, Accepted
  <1> QED BY <1>1, <1>2

LEMMA MonReadKeeps ==
    ASSUME NexusInv, NEW i \in Nodes, MonRead(i)
    PROVE  NexusInv'
  <1>1. NexusType /\ Logs
    BY DEF NexusInv
  <1>2. /\ UNCHANGED <<node, pwc, lock, thr, op, issued, spoiled>>
        /\ nd[i].log = "up" /\ logq[i] # <<>>
        /\ mon' = [mon EXCEPT !.pc = "update", !.last = Head(logq[i])]
        /\ nd' = Handled(i, Head(logq[i]))
        /\ logq' = [logq EXCEPT ![i] = Tail(@)]
    BY DEF MonRead, bounds
  <1> DEFINE q == logq[i]
             st == Head(q)
  <1>3. /\ logq \in [Nodes -> Seq(PwcStates)] /\ q \in Seq(PwcStates)
        /\ st = q[1] /\ st \in PwcStates /\ Tail(q) \in Seq(PwcStates)
        /\ Len(q) \in Nat /\ Len(q) > 0 /\ Len(Tail(q)) = Len(q) - 1
        /\ Len(q) > 1 => Tail(q)[Len(q) - 1] = q[Len(q)]
    <2>1. logq \in [Nodes -> Seq(PwcStates)] /\ q \in Seq(PwcStates) /\ q # <<>>
      BY <1>1, <1>2 DEF NexusType
    <2> HIDE DEF q
    <2> QED BY <2>1, TakeFirst
  <1>4. logq' \in [Nodes -> Seq(PwcStates)] /\ logq'[i] = Tail(q)
        /\ \A k \in Nodes : k # i => logq'[k] = logq[k]
    BY <1>2, <1>3
  <1>5. nd' = Handled(i, st) /\ mon' = [mon EXCEPT !.pc = "update", !.last = st]
    BY <1>2
  <1> HIDE DEF st
  <1>6. /\ nd' \in [Nodes -> ConnRec]
        /\ \A k \in Nodes : k # i => nd'[k] = nd[k]
        /\ nd'[i].on = nd[i].on /\ nd'[i].log = nd[i].log
        /\ nd'[i].st = st
        /\ nd'[i].heard <=> nd[i].heard \/ op[i] = "done"
    BY <1>1, <1>3, <1>5, HandledEffect
  <1>7. mon' \in MonRec
    BY <1>1, <1>3, <1>5 DEF NexusType, MonRec
  <1>8. NexusType'
    BY <1>1, <1>2, <1>4, <1>6, <1>7 DEF NexusType
  <1>9. \A k \in Nodes : nd'[k].on = nd[k].on
    BY <1>6
  <1>10. Roles' /\ Queues' /\ Accepted'
    BY <1>2, <1>9, MonFrame
  <1>11. Logs'
    <2>1. q[Len(q)] = node[i].st /\ (nd[i].heard => op[i] = "done")
      BY <1>1, <1>2, <1>3 DEF Logs
    <2>2. Len(logq'[i]) > 0 => logq'[i][Len(logq'[i])] = node[i].st
      BY <1>3, <1>4, <2>1
    <2>3. Len(logq'[i]) = 0 => nd'[i].st = node[i].st
      <3>1. SUFFICES ASSUME Len(logq'[i]) = 0 PROVE q[1] = node[i].st
        BY <1>3, <1>6
      <3>2. Len(q) = 1
        BY <1>3, <1>4, <3>1
      <3> QED BY <2>1, <3>2
    <2> HIDE DEF q
    <2> QED BY <1>1, <1>2, <1>4, <1>6, <2>1, <2>2, <2>3 DEF Logs
  <1> QED BY <1>8, <1>10, <1>11 DEF NexusInv

LEMMA MonLostKeeps ==
    ASSUME NexusInv, NEW i \in Nodes, MonLost(i)
    PROVE  NexusInv'
  <1> DEFINE h == IF mon.last = "" THEN nd ELSE Handled(i, mon.last)
  <1>1. NexusType /\ Logs
    BY DEF NexusInv
  <1>2. /\ UNCHANGED <<node, logq, pwc, lock, thr, op, issued, spoiled>>
        /\ nd[i].log = "up"
        /\ mon' = [mon EXCEPT !.pc = IF mon.last = "" THEN "select" ELSE "update"]
        /\ nd' = [h EXCEPT ![i].log = "lost"]
    BY DEF MonLost
  <1>3. mon \in MonRec /\ mon.last \in PwcStates \cup {""}
    BY <1>1 DEF NexusType, MonRec
  <1>4. /\ h \in [Nodes -> ConnRec]
        /\ \A k \in Nodes : k # i => h[k] = nd[k]
        /\ h[i].on = nd[i].on
        /\ h[i].heard => nd[i].heard \/ op[i] = "done"
    <2>1. CASE mon.last = ""
      BY <1>1, <2>1 DEF NexusType
    <2>2. CASE mon.last # ""
      <3> DEFINE st == mon.last
      <3>1. st \in PwcStates /\ h = Handled(i, st)
        BY <1>3, <2>2
      <3> HIDE DEF h, st
      <3> QED BY <1>1, <3>1, HandledEffect
    <2> QED BY <2>1, <2>2
  <1> HIDE DEF h
  <1>5. /\ nd' \in [Nodes -> ConnRec]
        /\ \A k \in Nodes : k # i => nd'[k] = nd[k]
        /\ nd'[i].on = nd[i].on /\ nd'[i].log = "lost" /\ nd'[i].heard = h[i].heard
    <2> DEFINE r == [h[i] EXCEPT !.log = "lost"]
    <2>1. nd' = [h EXCEPT ![i] = r] /\ h[i] \in ConnRec
      BY <1>2, <1>4
    <2>2. r \in ConnRec /\ r.on = h[i].on /\ r.log = "lost" /\ r.heard = h[i].heard
      BY <2>1 DEF ConnRec
    <2> HIDE DEF r
    <2> QED BY <1>4, <2>1, <2>2
  <1>6. mon' \in MonRec
    BY <1>2, <1>3 DEF MonRec
  <1>7. NexusType'
    BY <1>1, <1>2, <1>5, <1>6 DEF NexusType
  <1>8. \A k \in Nodes : nd'[k].on = nd[k].on
    BY <1>5
  <1>9. Roles' /\ Queues' /\ Accepted'
    BY <1>2, <1>8, MonFrame
  <1>10. Logs'
    BY ZenonT(60), <1>1, <1>2, <1>4, <1>5 DEF Logs
  <1> QED BY <1>7, <1>9, <1>10 DEF NexusInv

LEMMA MonUpdateKeeps ==
    ASSUME NexusInv, MonUpdate
    PROVE  NexusInv'
  <1> DEFINE f == [k \in Nodes |-> nd[k].st]
  <1>1. NexusType /\ Logs
    BY DEF NexusInv
  <1>2. /\ UNCHANGED <<node, nd, logq, pwc, lock, thr, op, issued, spoiled>>
        /\ mon' = [mon EXCEPT !.pc = "store", !.new = Combine(f)]
    BY DEF MonUpdate, bounds
  <1>3. f \in [Nodes -> NodeStates]
    BY <1>1 DEF NexusType, ConnRec
  <1> HIDE DEF f
  <1>4. Combine(f) \in NodeStates \cup {"undefined"}
    BY <1>3, CombineType
  <1>5. mon' \in MonRec
    BY <1>1, <1>2, <1>4 DEF NexusType, MonRec
  <1>6. NexusType' /\ Logs'
    BY <1>1, <1>2, <1>5 DEF NexusType, Logs
  <1>7. Roles' /\ Queues' /\ Accepted'
    BY <1>2, MonFrame
  <1> QED BY <1>6, <1>7 DEF NexusInv

LEMMA MonStoreKeeps ==
    ASSUME NexusInv, MonStore
    PROVE  NexusInv'
  <1>1. NexusType /\ Logs
    BY DEF NexusInv
  <1>2. /\ UNCHANGED <<node, nd, logq, lock, thr, op, issued, spoiled>>
        /\ pwc' = [pwc EXCEPT !.st = mon.new]
        /\ mon' = [mon EXCEPT !.pc = "select", !.new = ""]
    BY DEF MonStore, bounds
  <1>3. mon' \in MonRec /\ mon.new \in NodeStates \cup {"undefined"}
    BY <1>1, <1>2 DEF NexusType, MonRec, NodeStates
  <1>4. pwc' \in [st : NodeStates \cup {"undefined"}, cmd : Commands \cup {""}]
        /\ pwc'.cmd = pwc.cmd
    BY <1>1, <1>2, <1>3 DEF NexusType
  <1>5. NexusType' /\ Logs'
    BY <1>1, <1>2, <1>3, <1>4 DEF NexusType, Logs
  <1>6. Roles' /\ Queues' /\ Accepted'
    BY <1>2, <1>4, MonFrame
  <1> QED BY <1>5, <1>6 DEF NexusInv

-----------------------------------------------------------------------------
(* nexus_send.                                                             *)

\* What a thread that sends and reads leaves alone.
LEMMA SendFrame ==
    ASSUME NexusInv, UNCHANGED <<nd, logq, pwc, op, mon, issued>>,
           node' \in [Nodes -> NodeRec], \A k \in Nodes : node'[k].st = node[k].st,
           thr' \in [Threads -> ThrRec], lock' \in {"none", "open", "main", "ctl"},
           spoiled' \in BOOLEAN
    PROVE  NexusType' /\ Logs'
  <1>1. NexusType'
    BY DEF NexusInv, NexusType
  <1>2. Logs'
    BY DEF NexusInv, Logs
  <1> QED BY <1>1, <1>2

LEMMA SendLockKeeps ==
    ASSUME NexusInv, NEW t \in Threads, SendLock(t)
    PROVE  NexusInv'
  <1>1. NexusType /\ Roles /\ Queues /\ Accepted
    BY DEF NexusInv
  <1>2. /\ UNCHANGED <<node, nd, logq, pwc, op, mon, issued>>
        /\ thr[t].pc = "lock" /\ lock = "none" /\ lock' = t
        /\ thr' = To(t, "send") /\ spoiled' = (spoiled \/ Configuring)
    BY DEF SendLock, SendKeeps, bounds
  <1>3. /\ thr' \in [Threads -> ThrRec]
        /\ \A u \in Threads : u # t => thr'[u] = thr[u]
        /\ thr'[t].pc = "send" /\ thr'[t].i = 1
        /\ thr'[t].id = thr[t].id /\ thr'[t].cmd = thr[t].cmd /\ thr'[t].bad = thr[t].bad
    BY <1>1, <1>2, ToEffect DEF Places
  <1>4. NexusType' /\ Logs'
    BY <1>1, <1>2, <1>3, SendFrame DEF Threads, NexusType, Configuring
  <1>5. Roles'
    <2>1. \A u \in Threads : lock' = u <=> thr'[u].pc \in {"send", "recv"}
      BY <1>1, <1>2, <1>3 DEF Roles, Threads
    <2>2. \A k \in Nodes : op'[k] # "state"
      BY <1>1, <1>2 DEF Roles
    <2>3. \A k \in Nodes : nd'[k].on <=> op'[k] \in {"state", "done"}
      BY <1>1, <1>2 DEF Roles
    <2>4. /\ thr'["main"].pc \notin {"configSend", "configRecv"}
          /\ pwc'.cmd # "" => issued' > 0
          /\ \A u \in Threads : thr'[u].pc # "idle" => thr'[u].id > 0 /\ thr'[u].cmd # ""
      BY ZenonT(60), <1>1, <1>2, <1>3 DEF Roles, Threads
    <2>5. ~spoiled' => thr'["ctl"].pc \notin {"configSend", "configRecv"}
      BY <1>2, <1>3 DEF Configuring, Threads
    <2>6. thr'["ctl"].pc = "configRecv" => thr'["ctl"] = thr["ctl"]
      BY <1>3 DEF Threads
    <2>7. thr'["ctl"].pc = "configRecv" => \A k \in Nodes : nd'[k].on
      BY <1>1, <1>2, <2>6 DEF Roles
    <2> QED BY <2>1, <2>2, <2>3, <2>4, <2>5, <2>7 DEF Roles, Configuring
  <1>6. Queues'
    <2>1. \A u \in Threads, k \in Nodes :
             /\ thr'[u].pc \in {"recv", "configRecv"} /\ thr'[u].i <= k <=> Awaits(u, k)
             /\ Awaits(u, k) => thr'[u].id = thr[u].id
      BY <1>2, <1>3 DEF Awaits
    <2>2. spoiled => spoiled'
      BY <1>2
    <2> QED BY <1>1, <1>2, <2>1, <2>2, QueuesFrame
  <1>7. Accepted'
    BY <1>1, <1>2, <1>3 DEF Accepted
  <1> QED BY <1>4, <1>5, <1>6, <1>7 DEF NexusInv

LEMMA SendAllKeeps ==
    ASSUME NexusInv, NEW t \in Threads, SendAll(t)
    PROVE  NexusInv'
  <1>1. NexusType /\ Roles /\ Queues /\ Accepted
    BY DEF NexusInv
  <1>2. /\ UNCHANGED <<nd, logq, pwc, op, mon, issued, lock, spoiled>>
        /\ thr[t].pc = "send" /\ node' = Sent(Connected, thr[t].cmd, thr[t].id)
        /\ thr' = To(t, "recv")
    BY DEF SendAll, SendKeeps, bounds
  <1>3. PICK c \in Names, n \in Nat : c = thr[t].cmd /\ n = thr[t].id
    BY <1>1, <1>2 DEF NexusType, ThrRec, Roles
  <1>4. /\ thr' \in [Threads -> ThrRec]
        /\ \A u \in Threads : u # t => thr'[u] = thr[u]
        /\ thr'[t].pc = "recv" /\ thr'[t].i = 1
        /\ thr'[t].id = n /\ thr'[t].cmd = c /\ thr'[t].bad = thr[t].bad
    BY <1>1, <1>2, <1>3, ToEffect DEF Places
  <1>5. /\ node' \in [Nodes -> NodeRec]
        /\ \A k \in Nodes : k \notin Connected => node'[k] = node[k]
        /\ \A k \in Connected :
             /\ node'[k].st = node[k].st /\ node'[k].want = node[k].want
             /\ node'[k].acc = node[k].acc /\ node'[k].out = node[k].out
             /\ Len(node[k].in) \in Nat
             /\ Len(node'[k].in) = Len(node[k].in) + 1
             /\ node'[k].in[Len(node[k].in) + 1].id = n
    <2>1. Connected \in SUBSET Nodes /\ node' = Sent(Connected, c, n)
      BY <1>2, <1>3 DEF Connected
    <2> QED BY <1>1, <1>3, <2>1, SentEffect
  <1>6. \A k \in Nodes : node'[k].st = node[k].st /\ node'[k].acc = node[k].acc
    BY <1>5
  <1>7. NexusType' /\ Logs'
    BY <1>1, <1>2, <1>4, <1>5, <1>6, SendFrame DEF NexusType
  <1>8. lock = t
    BY <1>1, <1>2 DEF Roles
  <1>9. Roles'
    <2>1. \A u \in Threads : lock' = u <=> thr'[u].pc \in {"send", "recv"}
      BY <1>1, <1>2, <1>4 DEF Roles
    <2>2. /\ thr'["main"].pc \notin {"configSend", "configRecv"}
          /\ pwc'.cmd # "" => issued' > 0
          /\ \A u \in Threads : thr'[u].pc # "idle" => thr'[u].id > 0 /\ thr'[u].cmd # ""
      BY ZenonT(60), <1>1, <1>2, <1>3, <1>4 DEF Roles, Threads, Names
    <2>3. thr'["ctl"].pc \in {"configSend", "configRecv"} => thr'["ctl"] = thr["ctl"]
      BY <1>4 DEF Threads
    <2>4. ~spoiled' /\ thr'["ctl"].pc \in {"configSend", "configRecv"} => lock' = "none"
      BY <1>1, <1>2, <2>3 DEF Roles, Configuring
    <2>5. thr'["ctl"].pc = "configRecv" => \A k \in Nodes : nd'[k].on
      BY <1>1, <1>2, <2>3 DEF Roles
    <2> QED BY <1>1, <1>2, <2>1, <2>2, <2>4, <2>5 DEF Roles, Configuring
  <1>10. Queues'
    <2> SUFFICES ASSUME NEW k \in Nodes PROVE Before(k)' /\ (~spoiled' => Account(k)')
      BY DEF Queues
    <2>1. CASE ~nd[k].on
      <3>1. node'[k] = node[k] /\ op[k] \notin {"state", "done"}
        BY <1>1, <1>5, <2>1 DEF Connected, Roles
      <3> QED BY <1>1, <1>2, <3>1 DEF Queues, Before, Account, Quiet
    <2>2. CASE nd[k].on
      <3>1. Before(k)'
        BY <1>1, <1>2, <2>2 DEF Before, Roles
      <3>2. ASSUME ~spoiled
            PROVE  Account(k)'
        <4>1. op[k] = "done" /\ Account(k)
          BY <1>1, <1>8, <2>2, <3>2, Alone DEF Queues, Roles
        <4>2. \A u \in Threads : ~Awaits(u, k)
          BY <1>1, <1>2, <1>8, <3>2, Alone DEF Awaits
        <4>3. Quiet(k)
          BY <4>1, <4>2 DEF Account
        <4>4. One(k, n)'
          <5>1. k \in Connected
            BY <2>2 DEF Connected
          <5>2. Len(node[k].in) = 0 /\ Len(node'[k].out) = 0
            BY <1>5, <4>3, <5>1 DEF Quiet
          <5>3. Len(node'[k].in) = 1 /\ node'[k].in[1].id = n
            <6>1. /\ Len(node'[k].in) = Len(node[k].in) + 1
                  /\ node'[k].in[Len(node[k].in) + 1].id = n
              BY <1>5, <5>1
            <6>2. Len(node[k].in) + 1 = 1
              BY <5>2
            <6> QED BY <6>1, <6>2
          <5> QED BY <5>2, <5>3 DEF One
        <4>5. Awaits(t, k)' /\ \A u \in Threads : u # t => ~Awaits(u, k)'
          BY <1>1, <1>4, <4>2, Indices DEF Awaits
        <4>6. \A u \in Threads : Awaits(u, k)' => One(k, thr[u].id)'
          BY <1>4, <4>4, <4>5 DEF One
        <4> QED BY <1>2, <4>1, <4>5, <4>6 DEF Account
      <3> QED BY <1>2, <3>1, <3>2
    <2> QED BY <2>1, <2>2
  <1>11. Accepted'
    <2> SUFFICES ASSUME ~spoiled, NEW u \in Threads, NEW k \in Nodes,
                        thr'[u].pc = "recv", ~thr'[u].bad, k < thr'[u].i
                 PROVE  node'[k].acc = thr'[u].id
      BY <1>2 DEF Accepted
    <2>1. u # t
      BY <1>1, <1>4, Indices
    <2>2. thr'[u] = thr[u]
      BY <1>4, <2>1
    <2> QED BY <1>1, <1>6, <2>2 DEF Accepted
  <1> QED BY <1>7, <1>9, <1>10, <1>11 DEF NexusInv

\* Thread t has read the node it is at, if that is connected.
LEMMA ReadKeeps ==
    ASSUME NexusInv, NEW t \in Threads, thr[t].pc \in {"recv", "configRecv"}, thr[t].i <= N,
           Online(t) => Answered(t), thr' = Step(t, RecvFails(t)),
           node' = IF Online(t) THEN Read(thr[t].i) ELSE node,
           UNCHANGED <<nd, logq, pwc, op, mon, issued, lock, spoiled>>
    PROVE  NexusInv'
  <1>1. NexusType /\ Roles /\ Queues /\ Accepted
    BY DEF NexusInv
  <1>2. PICK j \in Nodes : j = thr[t].i
    <2>1. thr[t].i \in 1..(N + 1)
      BY <1>1 DEF NexusType, ThrRec
    <2>2. \A n \in 1..(N + 1) : n <= N => n \in 1..N
      BY NAssumption
    <2> QED BY <2>1, <2>2 DEF Nodes
  <1>3. /\ nd[j].on => node[j].out # <<>> /\ node' = Read(j)
        /\ ~nd[j].on => node' = node
        /\ RecvFails(t) = (~nd[j].on \/ ~Head(node[j].out).ok)
    BY <1>2 DEF Online, Answered, RecvFails
  <1>4. /\ nd[j].on => /\ node' \in [Nodes -> NodeRec]
                       /\ node'[j].st = node[j].st /\ node'[j].acc = node[j].acc
                       /\ node'[j].in = node[j].in
                       /\ Len(node[j].out) \in Nat /\ Len(node[j].out) > 0
                       /\ Len(node'[j].out) = Len(node[j].out) - 1
                       /\ Head(node[j].out) = node[j].out[1]
        /\ node' \in [Nodes -> NodeRec]
        /\ \A k \in Nodes : k # j => node'[k] = node[k]
    <2>1. CASE nd[j].on
      BY <1>1, <1>3, <2>1, ReadEffect
    <2>2. CASE ~nd[j].on
      BY <1>1, <1>3, <2>2 DEF NexusType
    <2> QED BY <2>1, <2>2
  <1>5. \A k \in Nodes : node'[k].st = node[k].st /\ node'[k].acc = node[k].acc
    BY <1>3, <1>4
  <1>6. RecvFails(t) \in BOOLEAN
    BY DEF RecvFails
  <1>7. /\ thr' \in [Threads -> ThrRec]
        /\ \A u \in Threads : u # t => thr'[u] = thr[u]
        /\ thr'[t].i = j + 1 /\ thr'[t].pc = thr[t].pc
        /\ thr'[t].id = thr[t].id /\ thr'[t].cmd = thr[t].cmd
        /\ (~thr'[t].bad <=> ~thr[t].bad /\ ~RecvFails(t))
    <2> DEFINE b == RecvFails(t)
    <2>1. b \in BOOLEAN /\ thr' = Step(t, b)
      BY <1>6
    <2> HIDE DEF b
    <2>2. /\ thr' \in [Threads -> ThrRec]
          /\ \A u \in Threads : u # t => thr'[u] = thr[u]
          /\ thr[t].i \in Nodes /\ thr'[t].i = thr[t].i + 1 /\ thr'[t].pc = thr[t].pc
          /\ thr'[t].id = thr[t].id /\ thr'[t].cmd = thr[t].cmd
          /\ (~thr'[t].bad <=> ~thr[t].bad /\ ~b)
      BY <1>1, <2>1, StepEffect
    <2> QED BY <1>2, <2>2 DEF b
  <1>8. NexusType' /\ Logs'
    BY <1>1, <1>4, <1>5, <1>7, SendFrame DEF NexusType
  <1>9. Roles'
    <2>1. \A u \in Threads : /\ thr'[u].pc = thr[u].pc /\ thr'[u].id = thr[u].id
                             /\ thr'[u].cmd = thr[u].cmd
      BY <1>7
    <2>2. thr'["ctl"].pc = thr["ctl"].pc /\ thr'["main"].pc = thr["main"].pc
      BY <2>1 DEF Threads
    <2>3. \A u \in Threads : lock' = u <=> thr'[u].pc \in {"send", "recv"}
      BY <1>1, <2>1 DEF Roles
    <2>4. \A u \in Threads : thr'[u].pc # "idle" => thr'[u].id > 0 /\ thr'[u].cmd # ""
      <3>1. \A u \in Threads : thr[u].pc # "idle" => thr[u].id > 0 /\ thr[u].cmd # ""
        BY <1>1 DEF Roles
      <3> QED BY <2>1, <3>1
    <2>5. /\ \A i \in Nodes : op'[i] = "state" => lock' = "open"
          /\ \A i, k \in Nodes : op'[i] = "state" /\ op'[k] = "state" => i = k
          /\ \A i \in Nodes : nd'[i].on <=> op'[i] \in {"state", "done"}
          /\ pwc'.cmd # "" => issued' > 0
      BY <1>1 DEF Roles
    <2>6. /\ thr'["main"].pc \notin {"configSend", "configRecv"}
          /\ ~spoiled' /\ Configuring' => lock' = "none"
          /\ thr'["ctl"].pc = "configRecv" => \A i \in Nodes : nd'[i].on
      BY <1>1, <2>2 DEF Roles, Configuring
    <2> QED BY <2>3, <2>4, <2>5, <2>6 DEF Roles
  <1>10. ~spoiled /\ nd[j].on => One(j, thr[t].id) /\ op[j] = "done"
    <2> SUFFICES ASSUME ~spoiled, nd[j].on PROVE One(j, thr[t].id) /\ op[j] = "done"
      OBVIOUS
    <2>1. Awaits(t, j)
      BY <1>1, <1>2, Indices DEF Awaits
    <2>2. op[j] = "done"
      BY <1>1, <2>1, Alone DEF Roles, Configuring, Threads, NexusType
    <2> QED BY <1>1, <2>1, <2>2 DEF Queues, Account
  <1>11. Queues'
    <2> SUFFICES ASSUME NEW k \in Nodes PROVE Before(k)' /\ (~spoiled' => Account(k)')
      BY DEF Queues
    <2>1. CASE k # j
      <3>1. node'[k] = node[k]
        BY <1>4, <2>1
      <3>2. \A u \in Threads : Awaits(u, k)' <=> Awaits(u, k)
        BY <1>1, <1>2, <1>7, <2>1, Indices DEF Awaits
      <3>3. Before(k)'
        BY <1>1, <3>1 DEF Queues, Before, Quiet
      <3>4. ASSUME ~spoiled, Account(k) PROVE Account(k)'
        <4>1. \A n : One(k, n) => One(k, n)'
          BY <3>1 DEF One
        <4>2. \A u \in Threads : op[k] = "done" /\ Awaits(u, k)' => One(k, thr[u].id)'
          <5>1. \A u \in Threads : thr'[u].id = thr[u].id
            BY <1>7
          <5>2. \A u \in Threads : op[k] = "done" /\ Awaits(u, k)' => One(k, thr[u].id)
            BY <3>2, <3>4 DEF Account
          <5>3. \A u \in Threads : One(k, thr[u].id) => One(k, thr[u].id)'
            <6> SUFFICES ASSUME NEW u \in Threads, One(k, thr[u].id)
                         PROVE  One(k, thr[u].id)'
              OBVIOUS
            <6>1. thr'[u].id = thr[u].id
              BY <5>1
            <6> QED BY <3>1, <6>1 DEF One
          <5> QED BY <5>2, <5>3
        <4> QED BY <3>1, <3>2, <3>4, <4>1, <4>2 DEF Account, Quiet
      <3> QED BY <1>1, <3>3, <3>4 DEF Queues
    <2>2. CASE k = j /\ ~nd[j].on
      <3>1. op[k] \notin {"state", "done"} /\ node' = node
        BY <1>1, <1>3, <2>2 DEF Roles
      <3> QED BY <1>1, <3>1 DEF Queues, Before, Account, Quiet
    <2>3. CASE k = j /\ nd[j].on
      <3>1. Before(k)'
        BY <1>1, <2>3 DEF Before, Roles
      <3>2. ASSUME ~spoiled PROVE Account(k)'
        <4>1. One(j, thr[t].id) /\ op[j] = "done"
          BY <1>10, <2>3, <3>2
        <4>2. Quiet(k)'
          <5>1. Len(node[j].in) = 0 /\ Len(node[j].out) = 1
            BY <1>4, <2>3, <4>1 DEF One
          <5>2. Len(node'[j].in) = 0 /\ Len(node'[j].out) = 0
            BY <1>4, <2>3, <5>1
          <5> QED BY <2>3, <5>2 DEF Quiet
        <4>3. ~Awaits(t, k)'
          <5>1. k \in Int
            BY <1>1, Indices
          <5>2. thr'[t].i = k + 1
            BY <1>7, <2>3
          <5>3. ~(thr'[t].i <= k)
            BY <5>1, <5>2
          <5> QED BY <5>3 DEF Awaits
        <4>4. \A u \in Threads : u # t => ~Awaits(u, k)
          BY <1>1, <3>2, Alone DEF Awaits, Roles, Threads, Configuring
        <4>5. \A u \in Threads : ~Awaits(u, k)'
          BY <1>7, <4>3, <4>4 DEF Awaits
        <4> QED BY <2>3, <4>1, <4>2, <4>5 DEF Account
      <3> QED BY <3>1, <3>2
    <2> QED BY <2>1, <2>2, <2>3
  <1>12. Accepted'
    <2> SUFFICES ASSUME ~spoiled, NEW u \in Threads, NEW k \in Nodes,
                        thr'[u].pc = "recv", ~thr'[u].bad, k < thr'[u].i
                 PROVE  node'[k].acc = thr'[u].id
      BY DEF Accepted
    <2>1. CASE u # t
      <3>1. thr'[u] = thr[u]
        BY <1>7, <2>1
      <3> QED BY <1>1, <1>5, <3>1 DEF Accepted
    <2>2. CASE u = t /\ k # j
      <3>1. k < thr[t].i
        BY <1>2, <1>7, <2>2, Indices, <1>1
      <3> QED BY <1>1, <1>5, <1>7, <2>2, <3>1 DEF Accepted
    <2>3. CASE u = t /\ k = j
      <3>1. nd[j].on /\ Head(node[j].out).ok
        BY <1>3, <1>7, <2>3
      <3>2. node[j].out[1].ok /\ Len(node[j].out) > 0
        BY <1>4, <3>1
      <3>3. thr[t].id > 0
        BY <1>1 DEF Roles
      <3>4. node[j].acc = thr[t].id
        BY <1>10, <3>1, <3>2, <3>3, <1>1, Indices DEF One
      <3> QED BY <1>5, <1>7, <2>3, <3>4
    <2> QED BY <2>1, <2>2, <2>3
  <1> QED BY <1>8, <1>9, <1>11, <1>12 DEF NexusInv

LEMMA RecvNodeKeeps ==
    ASSUME NexusInv, NEW t \in Threads, RecvNode(t)
    PROVE  NexusInv'
  BY ReadKeeps DEF RecvNode, SendKeeps, bounds

LEMMA ConfigRecvKeeps ==
    ASSUME NexusInv, ConfigRecv
    PROVE  NexusInv'
  <1>1. /\ thr["ctl"].pc = "configRecv" /\ thr["ctl"].i <= N /\ Answered("ctl")
        /\ thr' = Step("ctl", RecvFails("ctl")) /\ node' = Read(thr["ctl"].i)
        /\ UNCHANGED <<nd, logq, pwc, op, mon, issued, lock, spoiled>>
    BY DEF ConfigRecv, SendKeeps, bounds
  <1>2. CASE Online("ctl")
    BY <1>1, <1>2, ReadKeeps DEF Threads
  <1>3. Online("ctl")
    <2>1. NexusType /\ thr["ctl"].i \in 1..(N + 1)
      BY DEF NexusInv, NexusType, ThrRec, Threads
    <2>2. \A n \in 1..(N + 1) : n <= N => n \in 1..N
      BY NAssumption
    <2> QED BY <1>1, <2>1, <2>2 DEF NexusInv, Roles, Online, Nodes
  <1> QED BY <1>2, <1>3

LEMMA SendUnlockKeeps ==
    ASSUME NexusInv, NEW t \in Threads, SendUnlock(t)
    PROVE  NexusInv'
  <1>1. NexusType /\ Roles /\ Queues /\ Accepted
    BY DEF NexusInv
  <1>2. /\ UNCHANGED <<node, nd, logq, pwc, op, mon, issued, spoiled>>
        /\ thr[t].pc = "recv" /\ thr[t].i > N /\ lock' = "none"
        /\ thr' = [thr EXCEPT ![t] = Idle]
    BY DEF SendUnlock, SendKeeps, Unlocked, bounds
  <1>3. /\ thr' \in [Threads -> ThrRec] /\ thr'[t].pc = "idle"
        /\ \A u \in Threads : u # t => thr'[u] = thr[u]
    BY <1>1, <1>2, ThrEffect, IdleType
  <1>4. NexusType' /\ Logs'
    BY <1>1, <1>2, <1>3, SendFrame DEF NexusType
  <1>5. lock = t
    BY <1>1, <1>2 DEF Roles
  <1>6. Roles'
    <2>1. \A u \in Threads : lock' = u <=> thr'[u].pc \in {"send", "recv"}
      BY <1>1, <1>2, <1>3, <1>5 DEF Roles, Threads
    <2>2. \A k \in Nodes : op'[k] # "state"
      BY <1>1, <1>2, <1>5 DEF Roles, Threads
    <2>3. /\ thr'["main"].pc \notin {"configSend", "configRecv"}
          /\ \A u \in Threads : thr'[u].pc # "idle" => thr'[u].id > 0 /\ thr'[u].cmd # ""
          /\ thr'["ctl"].pc = "configRecv" => \A k \in Nodes : nd'[k].on
      BY <1>1, <1>2, <1>3 DEF Roles, Threads
    <2>4. /\ \A k \in Nodes : nd'[k].on <=> op'[k] \in {"state", "done"}
          /\ pwc'.cmd # "" => issued' > 0
      BY <1>1, <1>2 DEF Roles
    <2> QED BY <1>2, <2>1, <2>2, <2>3, <2>4 DEF Roles
  <1>7. Queues'
    <2>1. \A k \in Nodes : ~Awaits(t, k)
      BY <1>1, <1>2, Indices DEF Awaits
    <2>2. \A u \in Threads, k \in Nodes :
             /\ thr'[u].pc \in {"recv", "configRecv"} /\ thr'[u].i <= k <=> Awaits(u, k)
             /\ Awaits(u, k) => thr'[u].id = thr[u].id
      BY <1>3, <2>1 DEF Awaits
    <2> QED BY <1>1, <1>2, <2>2, QueuesFrame
  <1>8. Accepted'
    BY <1>1, <1>2, <1>3 DEF Accepted
  <1> QED BY <1>4, <1>6, <1>7, <1>8 DEF NexusInv

-----------------------------------------------------------------------------
(* The commands.                                                           *)

\* A thread that is idle gets something to do, before it sends anything.
LEMMA BeginKeeps ==
    ASSUME NexusInv, NEW t \in Threads, thr[t].pc = "idle", NEW r \in ThrRec,
           thr' = [thr EXCEPT ![t] = r],
           \/ r.pc = "lock"
           \/ t = "ctl" /\ r.pc = "configSend" /\ (~spoiled' => lock = "none"),
           r.cmd # "", r.id > 0, issued' \in Nat, pwc'.cmd # "" => issued' > 0,
           pwc' \in [st : NodeStates \cup {"undefined"}, cmd : Commands \cup {""}],
           spoiled' \in BOOLEAN, spoiled => spoiled',
           UNCHANGED <<node, nd, logq, lock, op, mon>>
    PROVE  NexusInv'
  <1>1. NexusType /\ Roles /\ Queues /\ Accepted /\ Logs
    BY DEF NexusInv
  <1>2. /\ thr' \in [Threads -> ThrRec] /\ thr'[t] = r
        /\ \A u \in Threads : u # t => thr'[u] = thr[u]
    BY <1>1, ThrEffect
  <1>3. NexusType' /\ Logs'
    BY <1>1, <1>2 DEF NexusType, Logs
  <1>4. Roles'
    <2>1. \A u \in Threads : lock' = u <=> thr'[u].pc \in {"send", "recv"}
      BY <1>1, <1>2 DEF Roles
    <2>2. /\ \A i \in Nodes : op'[i] = "state" => lock' = "open"
          /\ \A i, k \in Nodes : op'[i] = "state" /\ op'[k] = "state" => i = k
          /\ \A i \in Nodes : nd'[i].on <=> op'[i] \in {"state", "done"}
      BY <1>1 DEF Roles
    <2>3. /\ thr'["main"].pc \notin {"configSend", "configRecv"}
          /\ thr'["ctl"].pc = "configRecv" => \A k \in Nodes : nd'[k].on
      BY <1>1, <1>2 DEF Roles, Threads
    <2>4. \A u \in Threads : thr'[u].pc # "idle" => thr'[u].id > 0 /\ thr'[u].cmd # ""
      BY <1>1, <1>2 DEF Roles
    <2>5. ~spoiled' /\ Configuring' => lock' = "none"
      <3>1. CASE t = "ctl"
        BY <1>2, <3>1 DEF Configuring, Threads
      <3>2. CASE t # "ctl"
        BY <1>1, <1>2, <3>2 DEF Roles, Configuring, Threads
      <3> QED BY <3>1, <3>2
    <2> QED BY <2>1, <2>2, <2>3, <2>4, <2>5 DEF Roles
  <1>5. Queues'
    <2>1. \A u \in Threads, k \in Nodes :
             /\ thr'[u].pc \in {"recv", "configRecv"} /\ thr'[u].i <= k <=> Awaits(u, k)
             /\ Awaits(u, k) => thr'[u].id = thr[u].id
      BY <1>2 DEF Awaits
    <2> QED BY <1>1, <2>1, QueuesFrame
  <1>6. Accepted'
    BY <1>1, <1>2 DEF Accepted
  <1> QED BY <1>3, <1>4, <1>5, <1>6 DEF NexusInv

Task(pc, c, n) == [Idle EXCEPT !.pc = pc, !.cmd = c, !.id = n]

LEMMA TaskType ==
    ASSUME NEW pc \in Places, NEW c \in Names, NEW n \in Nat
    PROVE  /\ Task(pc, c, n) \in ThrRec /\ Task(pc, c, n).pc = pc
           /\ Task(pc, c, n).cmd = c /\ Task(pc, c, n).id = n
  <1>1. 1 \in 1..(N + 1)
    BY NAssumption
  <1> QED BY <1>1 DEF Task, Idle, ThrRec

LEMMA MainGetKeeps ==
    ASSUME NexusInv, MainGet
    PROVE  NexusInv'
  <1> DEFINE set == pwc.cmd # "reset"
             ok == set => MayChange(pwc.st, Target(pwc.cmd))
             new == IF ok /\ set THEN Target(pwc.cmd) ELSE pwc.st
             r == Task("lock", pwc.cmd, issued)
  <1>1. NexusType /\ Roles
    BY DEF NexusInv
  <1>2. /\ UNCHANGED <<node, nd, logq, lock, op, mon, issued, spoiled>>
        /\ thr["main"].pc = "idle" /\ pwc.cmd # "" /\ pwc' = [st |-> new, cmd |-> ""]
        /\ thr' = IF ok THEN [thr EXCEPT !["main"] = r] ELSE thr
    BY DEF MainGet, bounds, Task
  <1>3. /\ pwc.cmd \in Commands /\ pwc.cmd \in Names /\ issued \in Nat /\ issued > 0
        /\ pwc.st \in NodeStates \cup {"undefined"}
    BY <1>1, <1>2, CommandsAssumption DEF NexusType, Roles, Names
  <1>4. new \in NodeStates \cup {"undefined"}
    <2>1. Target(pwc.cmd) \in PwcStates
      BY <1>3, CommandsAssumption DEF Target, PwcStates
    <2> QED BY <1>3, <2>1 DEF NodeStates
  <1>5. r \in ThrRec /\ r.pc = "lock" /\ r.cmd = pwc.cmd /\ r.id = issued
    <2>1. "lock" \in Places
      BY DEF Places
    <2> QED BY <1>3, <2>1, TaskType
  <1> HIDE DEF ok, new, r
  <1>6. pwc' \in [st : NodeStates \cup {"undefined"}, cmd : Commands \cup {""}]
        /\ pwc'.cmd = ""
    BY <1>2, <1>4
  <1>7. CASE ok
    BY <1>1, <1>2, <1>3, <1>5, <1>6, <1>7, BeginKeeps DEF Threads, NexusType
  <1>8. CASE ~ok
    <2>1. UNCHANGED thr
      BY <1>2, <1>8
    <2>2. NexusType' /\ Logs'
      BY <1>1, <1>2, <1>6, <2>1 DEF NexusInv, NexusType, Logs
    <2>3. Roles'
      BY <1>1, <1>2, <1>6, <2>1 DEF Roles, Configuring
    <2>4. Queues' /\ Accepted'
      <3>1. UNCHANGED <<node, op, thr, spoiled>>
        BY <1>2, <2>1
      <3> QED BY <3>1 DEF NexusInv, Queues, Before, Account, Quiet, One, Awaits, Accepted
    <2> QED BY <2>2, <2>3, <2>4 DEF NexusInv
  <1> QED BY <1>7, <1>8

LEMMA CommandKeeps ==
    ASSUME NexusInv, NEW c \in Commands, Command(c)
    PROVE  NexusInv'
  <1>1. NexusType /\ Roles
    BY DEF NexusInv
  <1>2. /\ UNCHANGED <<node, nd, logq, lock, thr, op, mon, spoiled>>
        /\ issued' = issued + 1 /\ pwc' = [pwc EXCEPT !.cmd = c]
    BY DEF Command, Given
  <1>3. pwc' \in [st : NodeStates \cup {"undefined"}, cmd : Commands \cup {""}]
        /\ issued' \in Nat /\ issued' > 0
    <2>1. pwc \in [st : NodeStates \cup {"undefined"}, cmd : Commands \cup {""}]
      BY <1>1 DEF NexusType
    <2>2. issued \in Nat
      BY <1>1 DEF NexusType
    <2>3. issued' \in Nat /\ issued' > 0
      BY <1>2, <2>2
    <2> QED BY <1>2, <2>1, <2>3
  <1>4. NexusType' /\ Logs'
    BY <1>1, <1>2, <1>3 DEF NexusInv, NexusType, Logs
  <1>5. Roles'
    BY <1>1, <1>2, <1>3 DEF Roles, Configuring
  <1>6. Queues' /\ Accepted'
    BY <1>2 DEF NexusInv, Queues, Before, Account, Quiet, One, Awaits, Accepted
  <1> QED BY <1>4, <1>5, <1>6 DEF NexusInv

LEMMA DurationKeeps ==
    ASSUME NexusInv, Duration
    PROVE  NexusInv'
  <1> DEFINE r == Task("lock", "duration", issued + 1)
  <1>0. issued \in Nat
    BY DEF NexusInv, NexusType
  <1>1. /\ "ctl" \in Threads
        /\ pwc \in [st : NodeStates \cup {"undefined"}, cmd : Commands \cup {""}]
        /\ spoiled \in BOOLEAN
    BY DEF NexusInv, NexusType, Threads
  <1>2. /\ UNCHANGED <<node, nd, logq, pwc, lock, op, mon, spoiled>>
        /\ thr["ctl"].pc = "idle" /\ issued' = issued + 1
        /\ thr' = [thr EXCEPT !["ctl"] = r]
    BY DEF Duration, Given, Task
  <1>3. r \in ThrRec /\ r.pc = "lock" /\ r.cmd = "duration" /\ r.id = issued + 1
    <2>1. "lock" \in Places /\ "duration" \in Names
      BY DEF Places, Names
    <2>2. issued + 1 \in Nat
      BY <1>0
    <2> QED BY <2>1, <2>2, TaskType
  <1> HIDE DEF r
  <1>4. issued' \in Nat /\ issued' > 0 /\ r.id > 0
    BY <1>0, <1>2, <1>3
  <1>5. /\ r.cmd # "" /\ spoiled' \in BOOLEAN
        /\ pwc' \in [st : NodeStates \cup {"undefined"}, cmd : Commands \cup {""}]
    BY <1>1, <1>2, <1>3
  <1> QED BY <1>1, <1>2, <1>3, <1>4, <1>5, BeginKeeps

LEMMA ConfigKeeps ==
    ASSUME NexusInv, Config
    PROVE  NexusInv'
  <1> DEFINE r == Task("configSend", "header", issued + 1)
  <1>0. issued \in Nat
    BY DEF NexusInv, NexusType
  <1>1. /\ "ctl" \in Threads
        /\ pwc \in [st : NodeStates \cup {"undefined"}, cmd : Commands \cup {""}]
        /\ spoiled \in BOOLEAN
    BY DEF NexusInv, NexusType, Threads
  <1>2. /\ UNCHANGED <<node, nd, logq, pwc, lock, op, mon>>
        /\ thr["ctl"].pc = "idle" /\ issued' = issued + 1
        /\ thr' = [thr EXCEPT !["ctl"] = r]
        /\ spoiled' = (spoiled \/ lock # "none")
    BY DEF Config, Given, Task
  <1>3. r \in ThrRec /\ r.pc = "configSend" /\ r.cmd = "header" /\ r.id = issued + 1
    <2>1. "configSend" \in Places /\ "header" \in Names
      BY DEF Places, Names
    <2>2. issued + 1 \in Nat
      BY <1>0
    <2> QED BY <2>1, <2>2, TaskType
  <1>4. spoiled' \in BOOLEAN /\ (spoiled => spoiled') /\ (~spoiled' => lock = "none")
    BY <1>1, <1>2
  <1> HIDE DEF r
  <1>5. issued' \in Nat /\ issued' > 0 /\ r.id > 0
    BY <1>0, <1>2, <1>3
  <1>6. /\ r.cmd # ""
        /\ pwc' \in [st : NodeStates \cup {"undefined"}, cmd : Commands \cup {""}]
    BY <1>1, <1>2, <1>3
  <1> QED BY <1>1, <1>2, <1>3, <1>4, <1>5, <1>6, BeginKeeps

\* CONFIG sends to all nodes, or to the ones before the first that is not connected.
LEMMA ConfigSendKeeps ==
    ASSUME NexusInv, ConfigSend
    PROVE  NexusInv'
  <1>1. NexusType /\ Roles /\ Queues /\ Accepted
    BY DEF NexusInv
  <1>2. PICK S \in SUBSET Nodes : S = {i \in Nodes : 1..i \subseteq Connected}
    OBVIOUS
  <1>3. PICK n \in Nat : n = thr["ctl"].id
    BY <1>1 DEF NexusType, ThrRec, Threads
  <1>4. /\ UNCHANGED <<nd, logq, pwc, op, mon, issued, lock>>
        /\ thr["ctl"].pc = "configSend" /\ node' = Sent(S, "header", n)
        /\ thr' = IF S = Nodes THEN To("ctl", "configRecv")
                  ELSE [thr EXCEPT !["ctl"] = Idle]
        /\ spoiled' = (spoiled \/ S \notin {{}, Nodes})
    BY <1>2, <1>3 DEF ConfigSend, SendKeeps, bounds
  <1>5. /\ thr' \in [Threads -> ThrRec] /\ thr'["main"] = thr["main"]
        /\ S = Nodes => /\ thr'["ctl"].pc = "configRecv" /\ thr'["ctl"].i = 1
                        /\ thr'["ctl"].id = n /\ thr'["ctl"].cmd = thr["ctl"].cmd
        /\ S # Nodes => thr'["ctl"].pc = "idle"
    <2>1. CASE S = Nodes
      <3>1. thr' = To("ctl", "configRecv") /\ "ctl" \in Threads /\ "configRecv" \in Places
        BY <1>4, <2>1 DEF Threads, Places
      <3> QED BY <1>1, <1>3, <2>1, <3>1, ToEffect DEF Threads
    <2>2. CASE S # Nodes
      <3>1. thr' = [thr EXCEPT !["ctl"] = Idle] /\ "ctl" \in Threads
        BY <1>4, <2>2 DEF Threads
      <3> QED BY <1>1, <2>2, <3>1, ThrEffect, IdleType DEF Threads
    <2> QED BY <2>1, <2>2
  <1>6. /\ node' \in [Nodes -> NodeRec]
        /\ \A k \in Nodes : k \notin S => node'[k] = node[k]
        /\ \A k \in S : /\ node'[k].st = node[k].st /\ node'[k].want = node[k].want
                        /\ node'[k].acc = node[k].acc /\ node'[k].out = node[k].out
                        /\ Len(node[k].in) \in Nat
                        /\ Len(node'[k].in) = Len(node[k].in) + 1
                        /\ node'[k].in[Len(node[k].in) + 1].id = n
    <2>1. "header" \in Names
      BY DEF Names
    <2> QED BY <1>1, <1>4, <2>1, SentEffect
  <1>7. \A k \in S : nd[k].on
    <2>1. \A k \in Nodes : k \in 1..k
      BY DEF Nodes
    <2> QED BY <1>2, <2>1 DEF Connected
  <1>8. \A k \in Nodes : node'[k].st = node[k].st /\ node'[k].acc = node[k].acc
    BY <1>6
  <1>9. NexusType' /\ Logs'
    <2>1. spoiled' \in BOOLEAN /\ lock' \in {"none", "open", "main", "ctl"}
      BY <1>1, <1>4 DEF NexusType
    <2> QED BY <1>4, <1>5, <1>6, <1>8, <2>1, SendFrame
  <1>10. lock # "ctl"
    BY <1>1, <1>4 DEF Roles, Threads
  <1>11. Roles'
    <2>1. \A u \in Threads : lock' = u <=> thr'[u].pc \in {"send", "recv"}
      BY <1>1, <1>4, <1>5, <1>10 DEF Roles, Threads
    <2>2. \A u \in Threads : thr'[u].pc # "idle" => thr'[u].id > 0 /\ thr'[u].cmd # ""
      BY ZenonT(60), <1>1, <1>3, <1>4, <1>5 DEF Roles, Threads
    <2>3. /\ \A i \in Nodes : op'[i] = "state" => lock' = "open"
          /\ \A i, k \in Nodes : op'[i] = "state" /\ op'[k] = "state" => i = k
          /\ \A i \in Nodes : nd'[i].on <=> op'[i] \in {"state", "done"}
          /\ pwc'.cmd # "" => issued' > 0
      BY <1>1, <1>4 DEF Roles
    <2>4. thr'["main"].pc \notin {"configSend", "configRecv"}
      BY <1>1, <1>5 DEF Roles
    <2>5. ~spoiled' => lock' = "none"
      BY <1>1, <1>4 DEF Roles, Configuring
    <2>6. thr'["ctl"].pc = "configRecv" => \A i \in Nodes : nd'[i].on
      BY <1>4, <1>5, <1>7
    <2> QED BY <2>1, <2>2, <2>3, <2>4, <2>5, <2>6 DEF Roles
  <1>12. ASSUME ~spoiled
         PROVE  \A u \in Threads, k \in Nodes : ~Awaits(u, k)
    <2>1. lock = "none"
      BY <1>1, <1>4, <1>12 DEF Roles, Configuring
    <2> QED BY <1>1, <1>4, <1>12, <2>1, Alone
  <1>13. Queues'
    <2> SUFFICES ASSUME NEW k \in Nodes PROVE Before(k)' /\ (~spoiled' => Account(k)')
      BY DEF Queues
    <2>1. CASE k \notin S
      <3>1. node'[k] = node[k]
        BY <1>6, <2>1
      <3>2. Before(k)'
        BY <1>1, <1>4, <3>1 DEF Queues, Before, Quiet
      <3>3. ASSUME ~spoiled' PROVE Account(k)'
        <4>1. ~spoiled /\ S # Nodes
          BY <1>4, <2>1, <3>3
        <4>2. \A u \in Threads : ~Awaits(u, k)'
          BY <1>5, <1>12, <4>1 DEF Awaits, Threads
        <4>3. Account(k) /\ \A u \in Threads : ~Awaits(u, k)
          BY <1>1, <1>12, <4>1 DEF Queues
        <4> QED BY <1>4, <3>1, <4>2, <4>3 DEF Account, Quiet, One
      <3> QED BY <3>2, <3>3
    <2>2. CASE k \in S
      <3>1. op[k] \in {"state", "done"}
        BY <1>1, <1>7, <2>2 DEF Roles
      <3>2. Before(k)'
        BY <1>4, <3>1 DEF Before
      <3>3. ASSUME ~spoiled' PROVE Account(k)'
        <4>1. ~spoiled /\ S = Nodes
          BY <1>4, <2>2, <3>3
        <4>2. op[k] = "done" /\ Quiet(k)
          <5>1. lock = "none"
            BY <1>1, <1>4, <4>1 DEF Roles, Configuring
          <5>2. op[k] = "done"
            BY <1>1, <3>1, <5>1 DEF Roles
          <5> QED BY <1>1, <1>12, <4>1, <5>2 DEF Queues, Account
        <4>3. One(k, n)'
          <5>1. Len(node[k].in) = 0 /\ Len(node'[k].out) = 0
            BY <1>6, <2>2, <4>2 DEF Quiet
          <5>2. /\ Len(node'[k].in) = Len(node[k].in) + 1
                /\ node'[k].in[Len(node[k].in) + 1].id = n
            BY <1>6, <2>2
          <5>3. Len(node[k].in) + 1 = 1
            BY <5>1
          <5>4. Len(node'[k].in) = 1 /\ node'[k].in[1].id = n
            BY <5>2, <5>3
          <5> QED BY <5>1, <5>4 DEF One
        <4>4. ~Awaits("main", k)'
          BY <1>5, <1>12, <4>1 DEF Awaits, Threads
        <4>5. Awaits("ctl", k)' /\ thr'["ctl"].id = n
          BY <1>1, <1>5, <4>1, Indices DEF Awaits
        <4>6. \A u \in Threads : Awaits(u, k)' => One(k, thr[u].id)'
          BY <4>3, <4>4, <4>5 DEF Threads, One
        <4> QED BY <1>4, <4>2, <4>5, <4>6 DEF Account, Threads
      <3> QED BY <3>2, <3>3
    <2> QED BY <2>1, <2>2
  <1>14. Accepted'
    <2> SUFFICES ASSUME ~spoiled', NEW u \in Threads, NEW k \in Nodes,
                        thr'[u].pc = "recv", ~thr'[u].bad, k < thr'[u].i
                 PROVE  node'[k].acc = thr'[u].id
      BY DEF Accepted
    <2>1. thr'[u] = thr[u] /\ ~spoiled
      BY <1>4, <1>5 DEF Threads
    <2> QED BY <1>1, <1>8, <2>1 DEF Accepted
  <1> QED BY <1>9, <1>11, <1>13, <1>14 DEF NexusInv

LEMMA ConfigDoneKeeps ==
    ASSUME NexusInv, ConfigDone
    PROVE  NexusInv'
  <1>1. NexusType /\ Roles /\ Queues /\ Accepted
    BY DEF NexusInv
  <1>2. /\ UNCHANGED <<node, nd, logq, lock, op, mon, issued, spoiled>>
        /\ thr["ctl"].pc = "configRecv" /\ thr["ctl"].i > N
        /\ pwc' = IF thr["ctl"].bad THEN pwc ELSE [pwc EXCEPT !.st = "prepared"]
        /\ thr' = [thr EXCEPT !["ctl"] = Idle]
    BY DEF ConfigDone, bounds
  <1>3. "ctl" \in Threads
    BY DEF Threads
  <1>4. /\ thr' \in [Threads -> ThrRec] /\ thr'["ctl"].pc = "idle"
        /\ thr'["main"] = thr["main"]
        /\ \A u \in Threads : u # "ctl" => thr'[u] = thr[u]
    BY <1>1, <1>2, <1>3, ThrEffect, IdleType DEF Threads
  <1>5. pwc' \in [st : NodeStates \cup {"undefined"}, cmd : Commands \cup {""}]
        /\ pwc'.cmd = pwc.cmd
    <2>1. pwc \in [st : NodeStates \cup {"undefined"}, cmd : Commands \cup {""}]
          /\ "prepared" \in NodeStates
      BY <1>1 DEF NexusType, NodeStates, PwcStates
    <2> QED BY <1>2, <2>1
  <1>6. NexusType' /\ Logs'
    BY <1>1, <1>2, <1>4, <1>5 DEF NexusInv, NexusType, Logs
  <1>7. Roles'
    <2>1. \A u \in Threads : lock' = u <=> thr'[u].pc \in {"send", "recv"}
      BY <1>1, <1>2, <1>4 DEF Roles, Threads
    <2>2. \A u \in Threads : thr'[u].pc # "idle" => thr'[u].id > 0 /\ thr'[u].cmd # ""
      BY <1>1, <1>4 DEF Roles, Threads
    <2>3. /\ \A i \in Nodes : op'[i] = "state" => lock' = "open"
          /\ \A i, k \in Nodes : op'[i] = "state" /\ op'[k] = "state" => i = k
          /\ \A i \in Nodes : nd'[i].on <=> op'[i] \in {"state", "done"}
          /\ pwc'.cmd # "" => issued' > 0
      BY <1>1, <1>2, <1>5 DEF Roles
    <2>4. thr'["main"].pc \notin {"configSend", "configRecv"}
      BY <1>1, <1>4 DEF Roles
    <2> QED BY <1>4, <2>1, <2>2, <2>3, <2>4 DEF Roles, Configuring
  <1>8. Queues'
    <2>1. \A k \in Nodes : ~Awaits("ctl", k)
      BY <1>1, <1>2, <1>3, Indices DEF Awaits
    <2>2. \A u \in Threads, k \in Nodes :
             /\ thr'[u].pc \in {"recv", "configRecv"} /\ thr'[u].i <= k <=> Awaits(u, k)
             /\ Awaits(u, k) => thr'[u].id = thr[u].id
      BY <1>4, <2>1 DEF Awaits, Threads
    <2> QED BY <1>1, <1>2, <2>2, QueuesFrame
  <1>9. Accepted'
    BY <1>1, <1>2, <1>4 DEF Accepted, Threads
  <1> QED BY <1>6, <1>7, <1>8, <1>9 DEF NexusInv

-----------------------------------------------------------------------------
(* The theorems.                                                           *)

LEMMA NexusStep == NexusInv /\ [Next]_vars => NexusInv'
  <1> SUFFICES ASSUME NexusInv, [Next]_vars PROVE NexusInv'
    OBVIOUS
  <1>1. CASE UNCHANGED vars
    <2>1. UNCHANGED <<node, nd, logq, pwc, lock, thr, op, mon, issued, spoiled>>
      BY <1>1 DEF vars
    <2>2. NexusType' /\ Logs'
      BY <2>1 DEF NexusInv, NexusType, Logs
    <2>3. Roles' /\ Queues' /\ Accepted'
      BY <2>1, MonFrame
    <2> QED BY <2>2, <2>3 DEF NexusInv
  <1>2. ASSUME NEW i \in Nodes, NodeNext(i) \/ OpenNext(i) \/ LogConnect(i) \/ NodeError(i)
        PROVE  NexusInv'
    BY <1>2, NodeReplyKeeps, NodeChangeKeeps, OpConnectKeeps, OpLockKeeps, OpStateKeeps,
       LogConnectKeeps DEF NodeNext, OpenNext
  <1>3. ASSUME NEW i \in Nodes, MonLost(i) PROVE NexusInv'
    BY <1>3, MonLostKeeps
  <1>4. CASE MonNext \/ MainGet
    BY <1>4, MonReadKeeps, MonUpdateKeeps, MonStoreKeeps, MainGetKeeps DEF MonNext
  <1>5. CASE ConfigNext \/ Config \/ Duration
    BY <1>5, ConfigSendKeeps, ConfigRecvKeeps, ConfigDoneKeeps, ConfigKeeps, DurationKeeps
       DEF ConfigNext
  <1>6. ASSUME NEW t \in Threads, SendNext(t) PROVE NexusInv'
    BY <1>6, SendLockKeeps, SendAllKeeps, RecvNodeKeeps, SendUnlockKeeps DEF SendNext
  <1>7. ASSUME NEW c \in Commands, Command(c) PROVE NexusInv'
    BY <1>7, CommandKeeps
  <1> QED BY <1>1, <1>2, <1>3, <1>4, <1>5, <1>6, <1>7 DEF Next

LEMMA NexusInvHolds == Spec => []NexusInv
  BY NexusInit, NexusStep, PTL DEF Spec

\* Whatever the nodes, their replies and the monitor do, and in whatever order the
\* threads run, nexus_send, the initialisation of a connection and CONFIG read the
\* replies to what they sent, as long as no CONFIG broke off or met another command.
THEOREM NexusInStep == Spec => []InStep
  <1>1. NexusInv => InStep
    <2> SUFFICES ASSUME NexusInv, ~spoiled PROVE InStep
      BY DEF InStep
    <2>1. NexusType /\ Roles /\ Queues
      BY DEF NexusInv
    <2>2. ASSUME NEW i \in Nodes, NEW n, One(i, n), node[i].out # <<>>
          PROVE  Head(node[i].out).id = n
      <3>1. node[i].out \in Seq(Reply)
        BY <2>1 DEF NexusType, NodeRec
      <3>2. Head(node[i].out) = node[i].out[1] /\ Len(node[i].out) > 0
        BY <2>2, <3>1, TakeFirst
      <3> QED BY <2>2, <3>2 DEF One
    <2>3. ASSUME NEW t \in Threads, thr[t].pc \in {"recv", "configRecv"}, thr[t].i <= N,
                 Online(t), Answered(t)
          PROVE  Head(node[thr[t].i].out).id = thr[t].id
      <3>1. PICK j \in Nodes : j = thr[t].i
        <4>1. thr[t].i \in 1..(N + 1)
          BY <2>1 DEF NexusType, ThrRec
        <4>2. \A n \in 1..(N + 1) : n <= N => n \in 1..N
          BY NAssumption
        <4> QED BY <2>3, <4>1, <4>2 DEF Nodes
      <3>2. Awaits(t, j)
        BY <2>1, <2>3, <3>1, Indices DEF Awaits
      <3>3. op[j] = "done"
        BY <2>1, <2>3, <3>1, <3>2, Alone DEF Roles, Configuring, Threads, NexusType, Online
      <3>4. One(j, thr[t].id)
        BY <2>1, <3>2, <3>3 DEF Queues, Account
      <3> QED BY <2>2, <2>3, <3>1, <3>4 DEF Answered
    <2>4. \A i \in Nodes :
             op[i] = "state" /\ node[i].out # <<>> => Head(node[i].out).id = 0
      BY <2>1, <2>2 DEF Queues, Account
    <2> QED BY <2>3, <2>4 DEF InStep
  <1> QED BY <1>1, NexusInvHolds, PTL

\* When nexus_send is about to return 0, every node has accepted the command, with
\* no CONFIG that broke off or met another command before.
THEOREM NexusSuccessMeansAll == Spec => []SuccessMeansAll
  <1>1. NexusInv => SuccessMeansAll
    <2> SUFFICES ASSUME NexusInv, NEW t \in Threads, thr[t].pc = "recv", thr[t].i > N,
                        ~thr[t].bad, ~spoiled, NEW i \in Nodes
                 PROVE  node[i].acc = thr[t].id
      BY DEF SuccessMeansAll
    <2>1. NexusType /\ Accepted
      BY DEF NexusInv
    <2>2. i < thr[t].i
      BY <2>1, Indices
    <2> QED BY <2>1, <2>2 DEF Accepted
  <1> QED BY <1>1, NexusInvHolds, PTL

\* When nothing is on its way, the state that the nexus keeps of a node is the node's
\* own, if the monitor has handled a line of it after its connection was initialised
\* and its log connection lasts.  The other nodes are left out because the
\* initialisation may store an older state over a newer line.
THEOREM NexusStatesFollowed == Spec => []StatesFollowed
  <1>1. NexusInv => StatesFollowed
    <2> SUFFICES ASSUME NexusInv, Still, NEW i \in Nodes, nd[i].heard, nd[i].log = "up"
                 PROVE  nd[i].st = node[i].st
      BY DEF StatesFollowed
    <2>1. Len(logq[i]) = 0
      BY EmptySeq DEF Still
    <2> QED BY <2>1 DEF NexusInv, Logs
  <1> QED BY <1>1, NexusInvHolds, PTL
=============================================================================
