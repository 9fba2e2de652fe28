-------------------------------- MODULE Pwc --------------------------------
(***************************************************************************)
(* The command interface of a primary write client, src/src/dada_pwc.c: a  *)
(* slot for one command that the threads of the control connections fill   *)
(* and the main thread empties, and the state that the commands are        *)
(* checked against.  Code between pthread_mutex_lock and the unlock or the *)
(* pthread_cond_wait is one step; what a function does before it takes the *)
(* mutex is a step of its own.                                             *)
(***************************************************************************)
EXTENDS Integers, Sequences

CONSTANTS
    Clients,        \* threads of command_parse_server.c, one per connection
    Times,          \* the UTCs that commands carry (0 stands for none)
    RATE,           \* bytes per second that the headers give
    RESOLUTION,     \* their RESOLUTION
    MaxCommands     \* bound on the commands that the clients issue

ASSUME PwcAssumption ==
    /\ "main" \notin Clients
    /\ Times \subseteq Nat \ {0}
    /\ {RATE, RESOLUTION} \subseteq Nat \ {0} /\ MaxCommands \in Nat

VARIABLES
    state,          \* dada_pwc_state_t
    command,        \* primary->command: the slot
    quit,           \* primary->quit
    utc_start,      \* the UTC of the first sample, 0 if unknown
    rate,           \* primary->bytes_per_second, 0 if unknown
    waiting,        \* the threads blocked in pthread_cond_wait
    client,         \* what each client thread is doing
    issued,         \* commands issued so far
    accepted, taken \* history: commands put in the slot, and taken from it

pwcvars == <<state, command, quit, utc_start, rate, waiting, client,
             issued, accepted, taken>>

Cmd(code, utc, n) == [code |-> code, utc |-> utc, byte_count |-> n]
None == Cmd("no_command", 0, 0)

PwcInit ==
    /\ state = "idle" /\ command = None /\ quit = FALSE
    /\ utc_start = 0 /\ rate = 0
    /\ waiting = {} /\ issued = 0 /\ accepted = 0 /\ taken = 0
    /\ client = [c \in Clients |-> [op |-> "none", cmd |-> None]]

\* pthread_cond_signal wakes one thread, if any waits.
Signal == waiting' \in IF waiting = {} THEN {{}} ELSE {waiting \ {t} : t \in waiting}

-----------------------------------------------------------------------------
(* Client threads.                                                         *)

\* dada_pwc_command_set_byte_count, where it succeeds.
CanDate(utc) == utc = 0 \/ (utc_start # 0 /\ rate # 0)

ByteCount(code, utc) ==
    LET b == (utc - utc_start) * rate
        packet == (b \div RESOLUTION) * RESOLUTION
    IN  IF utc = 0 \/ utc < utc_start THEN 0
        ELSE IF RESOLUTION = 1 THEN b
        ELSE IF code \in {"record_stop", "stop"} THEN packet + RESOLUTION
        ELSE packet

Dated(code, utc) ==
    Cmd(code, IF utc < utc_start THEN 0 ELSE utc, ByteCount(code, utc))

\* A client thread parses a command line: what it does before it calls
\* dada_pwc_command_set with cmd.
Issue(c, cmd) ==
    /\ client[c].op = "none" /\ issued < MaxCommands
    /\ issued' = issued + 1
    /\ client' = [client EXCEPT ![c] = [op |-> "set", cmd |-> cmd]]

\* What is parsed from the header is stored before the state is looked at.
CmdHeader(c) ==
    /\ Issue(c, Cmd("header", 0, 0))
    /\ rate' = RATE
    /\ UNCHANGED <<state, command, quit, utc_start, waiting, accepted, taken>>

\* dada_pwc_cmd_clock and dada_pwc_cmd_reset.
CmdPlain(c, code) ==
    /\ Issue(c, Cmd(code, 0, 0))
    /\ UNCHANGED <<state, command, quit, utc_start, rate, waiting,
                   accepted, taken>>

\* The byte count that DURATION left in the slot is read without the mutex.
CmdStart(c) ==
    /\ Issue(c, Cmd("start", 0, command.byte_count))
    /\ UNCHANGED <<state, command, quit, utc_start, rate, waiting,
                   accepted, taken>>

\* dada_pwc_cmd_record_start, dada_pwc_cmd_record_stop, dada_pwc_cmd_stop.
CmdDated(c, code, utc) ==
    /\ utc = 0 => code = "stop"
    /\ CanDate(utc)
    /\ Issue(c, Dated(code, utc))
    /\ UNCHANGED <<state, command, quit, utc_start, rate, waiting,
                   accepted, taken>>

\* The UTC is stored first, also if the command is then refused because no
\* header has given the rate.
CmdSetUtcStart(c, utc) ==
    /\ utc_start' = utc
    /\ \/ rate # 0 /\ Issue(c, Cmd("set_utc_start", utc, 0))
       \/ /\ rate = 0 /\ client[c].op = "none" /\ issued < MaxCommands
          /\ issued' = issued + 1 /\ UNCHANGED client
    /\ UNCHANGED <<state, command, quit, rate, waiting, accepted, taken>>

CmdQuit(c) ==
    /\ Issue(c, Cmd("exit", 0, 0))
    /\ quit' = TRUE
    /\ UNCHANGED <<state, command, utc_start, rate, waiting, accepted,
                   taken>>

\* dada_pwc_cmd_duration, up to its mutex.
CmdDuration(c, n) ==
    /\ client[c].op = "none" /\ issued < MaxCommands /\ rate # 0
    /\ issued' = issued + 1
    /\ client' = [client EXCEPT ![c] = [op |-> "duration",
                                        cmd |-> Cmd("no_command", 0, n)]]
    /\ UNCHANGED <<state, command, quit, utc_start, rate, waiting,
                   accepted, taken>>

\* The states in which dada_pwc_command_set accepts each command.
Permitted(code) ==
    state \in CASE code = "header"        -> {"idle"}
                [] code = "clock"         -> {"prepared"}
                [] code = "start"         -> {"prepared"}
                [] code = "record_start"  -> {"clocking"}
                [] code = "record_stop"   -> {"recording"}
                [] code = "set_utc_start" -> {"clocking", "recording"}
                [] code = "reset"         -> {"soft_error", "hard_error"}
                [] code = "exit"          -> {"idle"}
                [] code = "stop"          -> {state}

\* pthread_cond_wait while the slot is taken.
CommandWait(c) ==
    /\ client[c].op # "none" /\ c \notin waiting
    /\ command.code # "no_command"
    /\ waiting' = waiting \cup {c}
    /\ UNCHANGED <<state, command, quit, utc_start, rate, client, issued,
                   accepted, taken>>

\* Mutant: a command replaces the one in the slot.
CommandSetOver(c) ==
    /\ client[c].op = "set" /\ c \notin waiting
    /\ client' = [client EXCEPT ![c].op = "none"]
    /\ \/ /\ Permitted(client[c].cmd.code)
          /\ command' = client[c].cmd /\ accepted' = accepted + 1 /\ Signal
       \/ /\ ~Permitted(client[c].cmd.code)
          /\ UNCHANGED <<command, waiting, accepted>>
    /\ UNCHANGED <<state, quit, utc_start, rate, issued, taken>>

\* The rest of dada_pwc_command_set.
CommandSet(c) ==
    /\ client[c].op = "set" /\ c \notin waiting
    /\ command.code = "no_command"
    /\ client' = [client EXCEPT ![c].op = "none"]
    /\ \/ /\ Permitted(client[c].cmd.code)
          /\ command' = client[c].cmd /\ accepted' = accepted + 1 /\ Signal
       \/ /\ ~Permitted(client[c].cmd.code)
          /\ UNCHANGED <<command, waiting, accepted>>
    /\ UNCHANGED <<state, quit, utc_start, rate, issued, taken>>

\* The rest of dada_pwc_cmd_duration.
DurationSet(c) ==
    /\ client[c].op = "duration" /\ c \notin waiting
    /\ command.code = "no_command"
    /\ client' = [client EXCEPT ![c].op = "none"]
    /\ command' = IF state = "recording" THEN command
                  ELSE [command EXCEPT !.byte_count = client[c].cmd.byte_count]
    /\ UNCHANGED <<state, quit, utc_start, rate, waiting, issued,
                   accepted, taken>>

ClientStep(c) == CommandWait(c) \/ CommandSet(c) \/ DurationSet(c)

-----------------------------------------------------------------------------
(* Calls of the main thread.                                               *)

\* dada_pwc_command_get: the main thread waits, or takes the command.
GetWait ==
    /\ "main" \notin waiting /\ command.code = "no_command"
    /\ waiting' = waiting \cup {"main"}
    /\ UNCHANGED <<state, command, quit, utc_start, rate, client, issued,
                   accepted, taken>>

\* Nobody is told that the slot is free.
Get ==
    /\ "main" \notin waiting /\ command.code # "no_command"
    /\ command' = [command EXCEPT !.code = "no_command", !.byte_count = 0]
    /\ taken' = taken + 1
    /\ UNCHANGED <<client, issued, accepted>>

\* The state changes that dada_pwc_set_state allows.
MayChange(s, new) ==
    LET errors == {"soft_error", "hard_error", "fatal_error"}
    IN  new \in CASE s = "idle"       -> {"prepared"} \cup errors
                  [] s = "prepared"   -> {"idle", "clocking", "recording"} \cup errors
                  [] s = "clocking"   -> {"recording", "idle"} \cup errors
                  [] s = "recording"  -> {"clocking", "idle"} \cup errors
                  [] s = "soft_error" -> {"idle"}
                  [] s = "hard_error" -> {"idle"}
                  [] s = "fatal_error" -> {}

\* What dada_pwc_set_state does before it takes the mutex: on leaving prepared
\* it stores the UTC.
StoreUtc(utc) ==
    /\ state = "prepared" /\ utc_start' = utc
    /\ UNCHANGED <<state, command, quit, rate, waiting, client, issued,
                   accepted, taken>>

\* The rest of dada_pwc_set_state.  It signals only when it changes the state.
SetState(new) ==
    /\ IF MayChange(state, new) THEN state' = new /\ Signal
       ELSE UNCHANGED <<state, waiting>>
    /\ UNCHANGED utc_start

-----------------------------------------------------------------------------
\* Every command that was accepted is in the slot or was taken: none replaces
\* another, whatever the number of connections.
CommandsKept == accepted = taken + (IF command.code = "no_command" THEN 0 ELSE 1)

\* The main thread never sleeps in dada_pwc_command_get for want of a command
\* while a client thread sleeps in dada_pwc_command_set with one.
NoLostWakeup ==
    ~("main" \in waiting /\ \E c \in Clients : c \in waiting)
=============================================================================
