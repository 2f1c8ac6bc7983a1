----------------------------- MODULE LinkControl -----------------------------
(***************************************************************************)
(* Control of the active link: the request functions of rust/src/lib.rs    *)
(* store their arguments word by word and then put a command in LINK_CMD;  *)
(* link_control_once (rust/src/radio.rs) swaps the command out, loads the  *)
(* words and talks to the host.  Callers' threads and the BLE thread       *)
(* interleave between any two of these accesses.                           *)
(*                                                                         *)
(* A peripheral link runs link_control, a loop of its own; a central link  *)
(* runs the same step inside a select with the connection's events, which  *)
(* drops it wherever it waits.  What the arguments mean is left out: the   *)
(* words of one call all hold the token of that call.                      *)
(***************************************************************************)
EXTENDS Naturals, Sequences

CONSTANTS
  Callers,   \* application threads
  Cmds,      \* the commands they use
  Tokens,    \* calls, told apart by their arguments
  None,      \* no command, no token
  Patience   \* when a caller calls: "any" time, while the "slot" is free, or
             \* once the previous command is "done"

\* The words a command's arguments go to, in the order they are stored.
\* Connection parameters and connection rate share four of them.
Words(c) ==
  CASE c = "phy"          -> <<"phy">>
    [] c = "dataLength"   -> <<"octets", "time">>
    [] c = "connParams"   -> <<"min", "max", "latency", "timeout">>
    [] c = "frameSpace"   -> <<"spaceMin", "spaceMax", "phyMask", "types">>
    [] c = "rate"         -> <<"min", "max", "subMin", "subMax", "latency", "continuation", "timeout">>
    [] c = "passkeyInput" -> <<"passkey">>
    [] OTHER              -> <<>>

\* The same words in the order in which link_control_once loads them.
Loads(c) ==
  CASE c = "connParams" -> <<"min", "max", "timeout", "latency">>
    [] c = "rate"       -> <<"min", "max", "timeout", "subMin", "subMax", "latency", "continuation">>
    [] OTHER            -> Words(c)

AllCmds == {"phy", "dataLength", "connParams", "frameSpace", "rate", "securityRequest",
            "passkeyConfirm", "passkeyCancel", "passkeyInput", "readRssi", "readAttMtu",
            "readPhy", "readSecurity"}

\* The commands whose call of the host is awaited; the others are done at once.
Awaited == {"phy", "dataLength", "connParams", "frameSpace", "rate", "readRssi", "readPhy"}

AllWords == UNION {{Words(c)[n] : n \in DOMAIN Words(c)} : c \in Cmds}

ASSUME CmdAssumption ==
  /\ Cmds \subseteq AllCmds
  /\ None \notin AllCmds \cup Tokens /\ None \notin [cmd : AllCmds, tok : Tokens]
ASSUME PatienceAssumption == Patience \in {"any", "slot", "done"}

VARIABLES
  cmd,     \* LINK_CMD
  word,    \* the argument words
  call,    \* the call a thread is in: command, token, the next access; or None
  link,    \* there is an active link
  rpc,     \* where the BLE thread is in the loop; "off": no link
  job,     \* the command swapped out and what was loaded for it so far
  asked,   \* history: the call accepted last
  due,     \* history: the call whose command was swapped out last
  role     \* "peripheral" or "central", of the link; fixed for a behaviour

vars == <<cmd, word, call, link, rpc, job, asked, due, role>>
history == <<asked, due>>

Calls == [cmd : Cmds, tok : Tokens]
NoJob == [cmd |-> None, got |-> <<>>]

TypeOK ==
  /\ cmd \in Cmds \cup {None}
  /\ word \in [AllWords -> Tokens \cup {None}]
  /\ \A p \in Callers : call[p] # None =>
       /\ [cmd |-> call[p].cmd, tok |-> call[p].tok] \in Calls
       /\ call[p].at \in 1 .. Len(Words(call[p].cmd)) + 2
  /\ link \in BOOLEAN /\ role \in {"peripheral", "central"}
  /\ rpc \in {"off", "tick", "load", "exec", "sleep"} /\ (rpc = "off" <=> ~link)
  /\ rpc = "exec" => /\ Len(job.got) = Len(Words(job.cmd))
                     /\ None \notin {job.got[n] : n \in DOMAIN job.got}

Init ==
  /\ cmd = None /\ word = [w \in AllWords |-> None]
  /\ call = [p \in Callers |-> None]
  /\ link = FALSE /\ rpc = "off" /\ job = NoJob
  /\ asked = None /\ due = None
  /\ role \in {"peripheral", "central"}

(***************************************************************************)
(* runtime_ble_set_phy and the other requests, on the thread of caller p.  *)
(***************************************************************************)
Patiently ==
  CASE Patience = "any"  -> TRUE
    [] Patience = "slot" -> cmd = None
    [] Patience = "done" -> cmd = None /\ rpc \notin {"load"}

Call(p) ==
  /\ call[p] = None /\ Patiently
  /\ \E c \in Calls : call' = [call EXCEPT ![p] = [cmd |-> c.cmd, tok |-> c.tok, at |-> 1]]
  /\ UNCHANGED <<cmd, word, link, rpc, job, history, role>>

\* Mutant: the command is put in the slot before its last argument is stored.
StoreWordEarly(p) ==
  /\ call[p] # None /\ call[p].at <= Len(Words(call[p].cmd))
  /\ word' = [word EXCEPT ![Words(call[p].cmd)[call[p].at]] = call[p].tok]
  /\ call' = [call EXCEPT ![p].at = @ + 1]
  /\ cmd' = IF call[p].at + 1 = Len(Words(call[p].cmd)) THEN call[p].cmd ELSE cmd
  /\ UNCHANGED <<link, rpc, job, history, role>>

\* One argument is stored, whether or not a command is waiting.
StoreWord(p) ==
  /\ call[p] # None /\ call[p].at <= Len(Words(call[p].cmd))
  /\ word' = [word EXCEPT ![Words(call[p].cmd)[call[p].at]] = call[p].tok]
  /\ call' = [call EXCEPT ![p].at = @ + 1]
  /\ UNCHANGED <<cmd, link, rpc, job, history, role>>

\* link_cmd: a waiting command refuses the call with NO_MEM.
Check(p) ==
  /\ call[p] # None /\ call[p].at = Len(Words(call[p].cmd)) + 1
  /\ call' = IF cmd # None THEN [call EXCEPT ![p] = None] ELSE [call EXCEPT ![p].at = @ + 1]
  /\ UNCHANGED <<cmd, word, link, rpc, job, history, role>>

\* The command goes into the slot and the call returns OK.
StoreCmd(p) ==
  /\ call[p] # None /\ call[p].at = Len(Words(call[p].cmd)) + 2
  /\ cmd' = call[p].cmd
  /\ asked' = [cmd |-> call[p].cmd, tok |-> call[p].tok]
  /\ call' = [call EXCEPT ![p] = None]
  /\ UNCHANGED <<word, link, rpc, job, due, role>>

(***************************************************************************)
(* The loop on the BLE thread, which yields in "sleep", and in "exec" while *)
(* the host has not answered.                                              *)
(***************************************************************************)
Tick ==
  /\ rpc = "tick"
  /\ rpc' = (IF cmd = None THEN "sleep" ELSE "load")
  /\ job' = [cmd |-> cmd, got |-> <<>>] /\ due' = asked
  /\ cmd' = None
  /\ UNCHANGED <<word, call, link, asked, role>>

LoadWord ==
  /\ rpc = "load" /\ Len(job.got) < Len(Loads(job.cmd))
  /\ job' = [job EXCEPT !.got = Append(@, word[Loads(job.cmd)[Len(@) + 1]])]
  /\ UNCHANGED <<cmd, word, call, link, rpc, history, role>>

\* Mutant: the last word is not loaded.
LoadedEarly ==
  /\ rpc = "load" /\ Len(job.got) + 1 >= Len(Loads(job.cmd))
  /\ rpc' = "exec"
  /\ UNCHANGED <<cmd, word, call, link, job, history, role>>

Loaded ==
  /\ rpc = "load" /\ Len(job.got) = Len(Loads(job.cmd))
  /\ rpc' = "exec"
  /\ UNCHANGED <<cmd, word, call, link, job, history, role>>

\* Mutant: the loop ends with the command it carried out.
ExecEnds ==
  /\ rpc = "exec" /\ rpc' = "exec"
  /\ UNCHANGED <<cmd, word, call, link, job, history, role>>

\* The host's call returns, and what it read is reported.
Exec ==
  /\ rpc = "exec" /\ rpc' = "sleep"
  /\ UNCHANGED <<cmd, word, call, link, job, history, role>>

\* Timer::after(20 ms).
Sleep ==
  /\ rpc = "sleep" /\ rpc' = "tick"
  /\ UNCHANGED <<cmd, word, call, link, job, history, role>>

\* Where the future of link_control_once may be dropped.
Yields == rpc = "sleep" \/ (rpc = "exec" /\ job.cmd \in Awaited)

\* central_connection_events: an event of the connection wins the select, and the
\* step starts over. What was taken out of the slot is lost if the host has not
\* answered yet.
EventWins ==
  /\ role = "central" /\ Yields
  /\ rpc' = "tick" /\ job' = NoJob
  /\ UNCHANGED <<cmd, word, call, link, history, role>>

LinkUp ==
  /\ ~link /\ link' = TRUE /\ rpc' = "tick"
  /\ UNCHANGED <<cmd, word, call, job, history, role>>

\* The link or the session ends; the slot keeps what it has.
LinkDown ==
  /\ Yields /\ link' = FALSE
  /\ rpc' = "off" /\ job' = NoJob
  /\ UNCHANGED <<cmd, word, call, history, role>>
-----------------------------------------------------------------------------
Request(p) == Call(p) \/ StoreWord(p) \/ Check(p) \/ StoreCmd(p)

Loop == Tick \/ LoadWord \/ Loaded \/ Exec \/ Sleep

Next ==
  \/ \E p \in Callers : Request(p)
  \/ Loop \/ EventWins \/ LinkUp \/ LinkDown

Spec == Init /\ [][Next]_vars

\* The BLE thread runs, the host answers and the 20 ms timer fires.
FairSpec == Spec /\ WF_vars(Loop)
-----------------------------------------------------------------------------
\* What link_control_once asks of the host is what an accepted call asked for:
\* its command with all of its own arguments.
ExecutesAsAsked ==
  rpc = "exec" => /\ due # None /\ job.cmd = due.cmd
                  /\ \A n \in DOMAIN job.got : job.got[n] = due.tok

\* A command is taken out of the slot, and its call of the host has returned.
Taken(c)    == rpc = "load" /\ job.cmd = c
Finished(c) == rpc = "sleep" /\ job.cmd = c

\* If the link stays an accepted request is taken out of the slot, and what is taken
\* out is finished, the report of what was read included, unless the link ends first.
\* The exception are the commands that wait for the host on a central link.
CarriedOut ==
  \A c \in Cmds :
    /\ <>[]link => (cmd = c ~> Taken(c))
    /\ role = "peripheral" \/ c \notin Awaited => (Taken(c) ~> Finished(c) \/ ~link)
=============================================================================
