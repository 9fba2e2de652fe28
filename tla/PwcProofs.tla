----------------------------- MODULE PwcProofs -----------------------------
(***************************************************************************)
(* What the calls of dada_pwc.c preserve, for any number of connections    *)
(* and any commands: facts that the proofs of both main loops, PwcBlock    *)
(* and PwcMulti, rest on.                                                  *)
(***************************************************************************)
EXTENDS Pwc, TLAPS

States == {"idle", "prepared", "clocking", "recording",
           "soft_error", "hard_error", "fatal_error"}
CmdCodes == {"header", "clock", "start", "record_start", "record_stop",
             "set_utc_start", "reset", "exit", "stop"}
Commands == [code : CmdCodes \cup {"no_command"}, utc : Nat, byte_count : Nat]

SlotType   == command \in Commands
ClientType == client \in [Clients -> [op : {"none", "set", "duration"},
                                      cmd : Commands]]
\* What a client is about to put in the slot is a command.
ClientCmd  == \A c \in Clients : client[c].op = "set" => client[c].cmd.code \in CmdCodes
CountType  == accepted \in Nat /\ taken \in Nat

PwcType ==
    /\ state \in States /\ quit \in BOOLEAN /\ utc_start \in Nat /\ rate \in Nat
    /\ SlotType /\ ClientType /\ ClientCmd /\ CountType

-----------------------------------------------------------------------------
\* The byte count of a dated command is a byte count.
LEMMA ByteCountNat ==
    ASSUME rate \in Nat, utc_start \in Nat, NEW code, NEW utc \in Nat
    PROVE  ByteCount(code, utc) \in Nat
  <1> DEFINE b == (utc - utc_start) * rate
             packet == (b \div RESOLUTION) * RESOLUTION
  <1>1. CASE utc = 0 \/ utc < utc_start
    BY <1>1 DEF ByteCount
  <1>2. CASE ~(utc = 0 \/ utc < utc_start)
    <2>1. b \in Nat
      <3>1. utc - utc_start \in Nat
        BY <1>2
      <3> QED BY <3>1
    <2>2. RESOLUTION \in Nat \ {0}
      BY PwcAssumption
    <2>3. b \div RESOLUTION \in Nat
      BY <2>1, <2>2
    <2>4. packet \in Nat
      BY <2>2, <2>3
    <2> QED BY <1>2, <2>1, <2>2, <2>4 DEF ByteCount
  <1> QED BY <1>1, <1>2

LEMMA DatedType ==
    ASSUME rate \in Nat, utc_start \in Nat, NEW code \in CmdCodes, NEW utc \in Nat
    PROVE  Dated(code, utc) \in Commands
  BY ByteCountNat DEF Dated, Cmd, Commands

LEMMA TimesAreNat == Times \subseteq Nat /\ 0 \in Nat
  BY PwcAssumption

\* Before it takes the mutex, a call of a client thread changes nothing of what
\* the main thread sees but quit, the UTC and what is parsed from the header.
ClientChanges == UNCHANGED <<state, command, accepted, taken>>

LEMMA IssueKeeps ==
    ASSUME ClientType, ClientCmd, NEW c \in Clients, NEW cmd \in Commands,
           cmd.code \in CmdCodes, Issue(c, cmd)
    PROVE  ClientType' /\ ClientCmd'
  BY DEF Issue, ClientType, ClientCmd

LEMMA CmdHeaderKeeps ==
    ASSUME PwcType, NEW c \in Clients, CmdHeader(c)
    PROVE  PwcType' /\ ClientChanges
  <1>1. Cmd("header", 0, 0) \in Commands /\ Cmd("header", 0, 0).code \in CmdCodes
    BY DEF Cmd, Commands, CmdCodes
  <1>2. RATE \in Nat
    BY PwcAssumption
  <1> QED BY <1>1, <1>2, IssueKeeps DEF CmdHeader, PwcType, SlotType, CountType, ClientChanges

LEMMA CmdPlainKeeps ==
    ASSUME PwcType, NEW c \in Clients, NEW code \in {"clock", "reset"}, CmdPlain(c, code)
    PROVE  PwcType' /\ ClientChanges
  <1>1. Cmd(code, 0, 0) \in Commands /\ Cmd(code, 0, 0).code \in CmdCodes
    BY DEF Cmd, Commands, CmdCodes
  <1> QED BY <1>1, IssueKeeps DEF CmdPlain, PwcType, SlotType, CountType, ClientChanges

LEMMA CmdStartKeeps ==
    ASSUME PwcType, NEW c \in Clients, CmdStart(c)
    PROVE  PwcType' /\ ClientChanges
  <1> DEFINE cmd == Cmd("start", 0, command.byte_count)
  <1>1. cmd \in Commands /\ cmd.code \in CmdCodes
    BY DEF Cmd, Commands, CmdCodes, PwcType, SlotType
  <1> QED BY <1>1, IssueKeeps DEF CmdStart, PwcType, SlotType, CountType, ClientChanges

LEMMA CmdDatedKeeps ==
    ASSUME PwcType, NEW c \in Clients,
           NEW code \in {"record_start", "record_stop", "stop"},
           NEW utc \in Times \cup {0}, CmdDated(c, code, utc)
    PROVE  PwcType' /\ ClientChanges
  <1>1. Dated(code, utc) \in Commands /\ Dated(code, utc).code \in CmdCodes
    BY DatedType, TimesAreNat DEF PwcType, Dated, Cmd, CmdCodes
  <1> QED BY <1>1, IssueKeeps DEF CmdDated, PwcType, SlotType, CountType, ClientChanges

LEMMA CmdSetUtcStartKeeps ==
    ASSUME PwcType, NEW c \in Clients, NEW utc \in Times, CmdSetUtcStart(c, utc)
    PROVE  PwcType' /\ ClientChanges
  <1> DEFINE cmd == Cmd("set_utc_start", utc, 0)
  <1>1. utc \in Nat
    BY TimesAreNat
  <1>2. cmd \in Commands /\ cmd.code \in CmdCodes
    BY <1>1 DEF Cmd, Commands, CmdCodes
  <1>3. CASE Issue(c, cmd)
    BY <1>1, <1>2, <1>3, IssueKeeps
       DEF CmdSetUtcStart, PwcType, SlotType, CountType, ClientChanges
  <1>4. CASE UNCHANGED client
    BY <1>1, <1>4
       DEF CmdSetUtcStart, PwcType, SlotType, ClientType, ClientCmd, CountType, ClientChanges
  <1> QED BY <1>3, <1>4 DEF CmdSetUtcStart

LEMMA CmdQuitKeeps ==
    ASSUME PwcType, NEW c \in Clients, CmdQuit(c)
    PROVE  PwcType' /\ ClientChanges
  <1>1. Cmd("exit", 0, 0) \in Commands /\ Cmd("exit", 0, 0).code \in CmdCodes
    BY DEF Cmd, Commands, CmdCodes
  <1> QED BY <1>1, IssueKeeps DEF CmdQuit, PwcType, SlotType, CountType, ClientChanges

LEMMA CmdDurationKeeps ==
    ASSUME PwcType, NEW c \in Clients, NEW n \in 1..2, CmdDuration(c, n)
    PROVE  PwcType' /\ ClientChanges
  <1>1. Cmd("no_command", 0, n) \in Commands
    BY DEF Cmd, Commands
  <1> QED BY <1>1 DEF CmdDuration, PwcType, SlotType, ClientType, ClientCmd, CountType,
                      ClientChanges

-----------------------------------------------------------------------------
(* The slot.                                                               *)

\* Under the mutex, a client thread changes neither the state nor what the
\* main thread keeps, and fills the slot only when it is empty.
SlotStep ==
    /\ UNCHANGED <<state, quit, utc_start, rate, taken>>
    /\ \/ UNCHANGED <<command, accepted>>
       \/ /\ command.code = "no_command"
          /\ \/ command'.code = "no_command" /\ accepted' = accepted
             \/ command'.code # "no_command" /\ accepted' = accepted + 1

LEMMA CommandWaitKeeps ==
    ASSUME PwcType, NEW c \in Clients, CommandWait(c)
    PROVE  PwcType' /\ SlotStep
  BY DEF CommandWait, PwcType, SlotType, ClientType, ClientCmd, CountType, SlotStep

LEMMA CommandSetKeeps ==
    ASSUME PwcType, NEW c \in Clients, CommandSet(c)
    PROVE  PwcType' /\ SlotStep
  <1>1. client[c].cmd \in Commands /\ client[c].cmd.code \in CmdCodes
    BY DEF PwcType, ClientType, ClientCmd, CommandSet
  <1>2. "no_command" \notin CmdCodes
    BY DEF CmdCodes
  <1>3. ClientType' /\ ClientCmd'
    BY DEF PwcType, ClientType, ClientCmd, CommandSet
  <1>4. SlotType' /\ CountType'
    BY <1>1 DEF PwcType, SlotType, CountType, CommandSet
  <1>5. SlotStep
    BY <1>1, <1>2, <1>3 DEF SlotStep, CommandSet
  <1> QED BY <1>3, <1>4, <1>5 DEF PwcType, SlotStep

LEMMA DurationSetKeeps ==
    ASSUME PwcType, NEW c \in Clients, DurationSet(c)
    PROVE  PwcType' /\ SlotStep
  <1>1. client[c].cmd \in Commands
    BY DEF PwcType, ClientType
  <1>2. ClientType' /\ ClientCmd'
    BY DEF PwcType, ClientType, ClientCmd, DurationSet
  <1>3. SlotType' /\ command'.code = "no_command"
    BY <1>1 DEF PwcType, SlotType, Commands, DurationSet
  <1>4. SlotStep
    BY <1>2, <1>3 DEF SlotStep, DurationSet
  <1> QED BY <1>2, <1>3, <1>4 DEF PwcType, SlotStep, CountType, DurationSet

\* The main thread takes a command and leaves an empty slot.
LEMMA GetKeeps ==
    ASSUME SlotType, CountType, CommandsKept, Get
    PROVE  /\ SlotType' /\ CountType' /\ CommandsKept' /\ command'.code = "no_command"
           /\ UNCHANGED client
  <1>1. SlotType' /\ command'.code = "no_command"
    BY DEF Get, SlotType, Commands
  <1>2. taken' = taken + 1 /\ accepted' = accepted /\ command.code # "no_command"
    BY DEF Get
  <1>3. CountType' /\ CommandsKept'
    BY <1>1, <1>2 DEF CountType, CommandsKept
  <1> QED BY <1>1, <1>3 DEF Get

\* dada_pwc_set_state moves to another state of the interface, or does nothing.
LEMMA SetStateKeeps ==
    ASSUME state \in States, utc_start \in Nat, NEW new \in States, SetState(new)
    PROVE  /\ state' = IF MayChange(state, new) THEN new ELSE state
           /\ state' \in States /\ utc_start' \in Nat
  BY DEF SetState

\* Which changes are allowed from the states in which data flows.
LEMMA StateChanges ==
    ASSUME NEW s
    PROVE  /\ s = "clocking" => MayChange(s, "recording")
           /\ s = "recording" => MayChange(s, "clocking")
  BY DEF MayChange

LEMMA PwcInitType ==
    ASSUME PwcInit
    PROVE  PwcType /\ CommandsKept /\ None \in Commands /\ None.code = "no_command"
  <1>1. None \in Commands /\ None.code = "no_command"
    BY DEF None, Cmd, Commands
  <1>2. SlotType /\ CountType /\ CommandsKept
    BY <1>1 DEF PwcInit, SlotType, CountType, CommandsKept
  <1>3. ClientType /\ ClientCmd
    <2>1. [op |-> "none", cmd |-> None] \in [op : {"none", "set", "duration"}, cmd : Commands]
      BY <1>1
    <2>2. \A c \in Clients : client[c] = [op |-> "none", cmd |-> None]
      BY DEF PwcInit
    <2> QED BY <2>1, <2>2 DEF PwcInit, ClientType, ClientCmd
  <1> QED BY <1>1, <1>2, <1>3 DEF PwcInit, PwcType, States

-----------------------------------------------------------------------------
(* What a step of a main loop leaves alone of the command interface.       *)

\* A step of the main thread that does not call dada_pwc.c.
LEMMA NoCallKeeps ==
    ASSUME PwcType, CommandsKept, UNCHANGED pwcvars
    PROVE  PwcType' /\ CommandsKept' /\ UNCHANGED <<state, command, client, quit>>
  BY DEF PwcType, SlotType, ClientType, ClientCmd, CountType, CommandsKept, pwcvars

\* The UTC is stored.
LEMMA StoreUtcKeeps ==
    ASSUME PwcType, CommandsKept, NEW utc \in Nat, StoreUtc(utc)
    PROVE  PwcType' /\ CommandsKept' /\ UNCHANGED <<state, command, client, quit>>
  BY DEF StoreUtc, PwcType, SlotType, ClientType, ClientCmd, CountType, CommandsKept

\* A step that changes nothing but the state, and what goes with it.
LEMMA StateKeeps ==
    ASSUME PwcType, CommandsKept, state' \in States, utc_start' \in Nat,
           quit' \in BOOLEAN, UNCHANGED <<command, rate, client, accepted, taken>>
    PROVE  PwcType' /\ CommandsKept' /\ UNCHANGED <<command, client>>
  BY DEF PwcType, SlotType, ClientType, ClientCmd, CountType, CommandsKept

\* A step that takes the command.
LEMMA TakeKeeps ==
    ASSUME PwcType, CommandsKept, Get, UNCHANGED <<state, quit, utc_start, rate>>
    PROVE  /\ PwcType' /\ CommandsKept' /\ UNCHANGED <<state, quit, client>>
           /\ command'.code = "no_command" /\ command.code # "no_command"
  <1>1. SlotType' /\ CountType' /\ CommandsKept' /\ command'.code = "no_command"
        /\ UNCHANGED client
    BY GetKeeps DEF PwcType
  <1>2. command.code # "no_command"
    BY DEF Get
  <1> QED BY <1>1, <1>2 DEF PwcType, ClientType, ClientCmd
=============================================================================
