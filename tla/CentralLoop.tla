----------------------------- MODULE CentralLoop -----------------------------
(***************************************************************************)
(* The central role: the client functions of rust/src/lib.rs put one       *)
(* command at a time in CENTRAL_CMD, and central_loop (rust/src/radio.rs)  *)
(* takes it out wherever it happens to be: idle, scanning or in the GATT   *)
(* client session of a link.  The same command means something in one of   *)
(* these places and is dropped in the others.                              *)
(*                                                                         *)
(* The application's thread and the BLE thread interleave between any two  *)
(* accesses to the shared words; on the BLE thread the loop gives way to   *)
(* other tasks only where it awaits.  What arguments mean is left out: the *)
(* words of one call hold the token of that call.  A token also stands for *)
(* the peer, the service or the characteristic it names.                   *)
(***************************************************************************)
EXTENDS Naturals, Sequences, FiniteSets

CONSTANTS
  Cmds,      \* the commands the application uses
  Tokens,    \* what it uses them on
  Args,      \* Args[c]: on which tokens it uses the command c
  None,
  Configs,   \* [role, auto, l2cap]: the role, config.peer_address, a PSM is set
  Chrs,      \* the characteristics of a peer, in the order of their handles
  Cccd,      \* Cccd[peer][chr]: where a peer keeps the CCCD of a
             \* characteristic: right after its value ("next") or not ("far")
  StoreCap,  \* CLIENT_CHAR_CAP
  Hasty      \* the application calls at any time

ServerCmds == {"discoverServices", "discover", "discoverAll", "discoverDescriptors", "read",
               "readBlob", "readByUuid", "write", "writeNoRsp", "subscribe",
               "subscribeIndicate", "unsubscribe"}
IdleCmds == {"scanStart", "scanStop", "connect"}
AllCmds == ServerCmds \cup IdleCmds \cup {"disconnect"}

Subscribes == {"subscribe", "subscribeIndicate", "unsubscribe"}

\* What a function stores before it calls central_cmd: an address and its kind,
\* the nine words of a scan, a UUID or a payload and its length.  The words of one
\* argument are one word here.
Words(c) ==
  CASE c = "connect"                    -> <<"addr">>
    [] c = "scanStart"                  -> <<"scan">>
    [] c \in {"discover", "readByUuid"} -> <<"uuid">>
    [] c \in {"write", "writeNoRsp"}    -> <<"data">>
    [] OTHER                            -> <<>>

WithHandle == {"read", "readBlob", "readByUuid", "discoverDescriptors", "write", "writeNoRsp"}
                \cup Subscribes

\* What the loop loads once it has taken the command.
Loads(c) == (IF c \in WithHandle THEN <<"handle">> ELSE <<>>) \o Words(c)

AllWords == {"handle"} \cup UNION {{Words(c)[n] : n \in DOMAIN Words(c)} : c \in Cmds}

Config == [role : {"central", "dual"}, auto : Tokens \cup {None}, l2cap : BOOLEAN]

ASSUME CmdAssumption == Cmds \subseteq AllCmds /\ None \notin AllCmds \cup Tokens
ASSUME ArgsAssumption == Args \in [Cmds -> SUBSET Tokens]
ASSUME ConfigAssumption == Configs \subseteq Config
ASSUME ChrsAssumption == Chrs \in Seq(Tokens)
ASSUME CccdAssumption == Cccd \in [Tokens -> [Tokens -> {"next", "far"}]]
ASSUME CapAssumption == StoreCap \in Nat /\ Hasty \in BOOLEAN

VARIABLES
  cmd,     \* CENTRAL_CMD
  word,    \* the words of the arguments, CENTRAL_HANDLE among them
  call,    \* the call the application is in, or None
  unload,  \* UNLOAD_REQ
  pc,      \* where central_loop is; "off": there is no session
  auto,    \* auto, the local of central_loop
  peer,    \* the peer of the link, None without a link
  closing, \* conn.disconnect() has been called
  job,     \* the command taken out and what was loaded for it
  store,   \* store: the characteristics client_session remembers
  found,   \* history: the characteristics reported on this link
  mine,    \* history: for whom the waiting command was, and since when it waits
  cfg      \* the configuration, fixed for a behaviour

vars == <<cmd, word, call, unload, pc, auto, peer, closing, job, store, found, mine, cfg>>
slot == <<cmd, word, call, mine>>
link == <<peer, closing, store, found>>

NoJob == [cmd |-> None, got |-> <<>>, tok |-> None, since |-> "now"]
NoOne == [tok |-> None, since |-> "now"]

\* The places in which the future waits and other tasks run.
AwaitsIdle == {"idleSleep", "scanOpen", "scanSleep", "connecting", "retry"}
AwaitsSession == {"init", "exec", "sleep"}

TypeOK ==
  /\ cmd \in Cmds \cup {None}
  /\ word \in [AllWords -> Tokens \cup {None}]
  /\ call # None => call.cmd \in Cmds /\ call.at \in 1 .. Len(Words(call.cmd)) + 3
  /\ unload \in BOOLEAN /\ closing \in BOOLEAN
  /\ pc \in {"off", "top", "idle", "load", "scan", "pump", "status"} \cup AwaitsIdle \cup AwaitsSession
  /\ peer \in Tokens \cup {None}
  /\ pc \in {"pump", "status"} \cup AwaitsSession => peer # None
  /\ auto \in BOOLEAN
  /\ pc = "exec" => job.cmd \in ServerCmds /\ Len(job.got) = Len(Loads(job.cmd))
  /\ Len(store) <= StoreCap /\ (peer = None => found = {})
  /\ mine.since \in {"now", "link", "session"}
  /\ cfg \in Configs

Init ==
  /\ cmd = None /\ word = [w \in AllWords |-> None] /\ call = None /\ mine = NoOne
  /\ unload = FALSE /\ pc = "off" /\ auto = FALSE /\ job = NoJob
  /\ peer = None /\ closing = FALSE /\ store = <<>> /\ found = {}
  /\ cfg \in Configs
-----------------------------------------------------------------------------
(***************************************************************************)
(* The application.                                                        *)
(***************************************************************************)
\* A patient caller waits until the arguments of its last command were used.
Patiently == Hasty \/ (cmd = None /\ pc # "load")

ArgumentsOf(c) == IF Loads(c) = <<>> THEN {None} ELSE Args[c]

Call ==
  /\ call = None /\ Patiently
  /\ \E c \in Cmds : \E t \in ArgumentsOf(c) : call' = [cmd |-> c, tok |-> t, at |-> 1]
  /\ UNCHANGED <<cmd, word, mine, unload, pc, auto, link, job, cfg>>

StoreWord ==
  /\ call # None /\ call.at <= Len(Words(call.cmd))
  /\ word' = [word EXCEPT ![Words(call.cmd)[call.at]] = call.tok]
  /\ call' = [call EXCEPT !.at = @ + 1]
  /\ UNCHANGED <<cmd, mine, unload, pc, auto, link, job, cfg>>

\* central_cmd: a waiting command refuses the call.
Check ==
  /\ call # None /\ call.at = Len(Words(call.cmd)) + 1
  /\ call' = IF cmd # None THEN None ELSE [call EXCEPT !.at = @ + 1]
  /\ UNCHANGED <<cmd, word, mine, unload, pc, auto, link, job, cfg>>

\* Mutant: the command is raised before its handle is stored.
StoreHandleRaised ==
  /\ call # None /\ call.at = Len(Words(call.cmd)) + 2
  /\ cmd' = call.cmd /\ mine' = [tok |-> call.tok, since |-> "now"]
  /\ call' = [call EXCEPT !.at = @ + 1]
  /\ UNCHANGED <<word, unload, pc, auto, link, job, cfg>>

\* central_cmd stores 0 for a command without a handle.
StoreHandle ==
  /\ call # None /\ call.at = Len(Words(call.cmd)) + 2
  /\ word' = [word EXCEPT !["handle"] = IF call.cmd \in WithHandle THEN call.tok ELSE None]
  /\ call' = [call EXCEPT !.at = @ + 1]
  /\ UNCHANGED <<cmd, mine, unload, pc, auto, link, job, cfg>>

StoreCmd ==
  /\ call # None /\ call.at = Len(Words(call.cmd)) + 3
  /\ cmd' = call.cmd /\ mine' = [tok |-> call.tok, since |-> "now"]
  /\ call' = None
  /\ UNCHANGED <<word, unload, pc, auto, link, job, cfg>>

\* queue_tx of a dual session copies a notification into the buffer that also
\* holds the payload of a write.
Notify ==
  /\ cfg.role = "dual"
  /\ \E w \in {"data"} \cap AllWords : word' = [word EXCEPT ![w] = None]
  /\ UNCHANGED <<cmd, call, mine, unload, pc, auto, link, job, cfg>>

\* load(): a new session.  CENTRAL_CMD stays as it is.
Load ==
  /\ pc = "off"
  /\ pc' = "top" /\ unload' = FALSE /\ auto' = (cfg.auto # None)
  /\ mine' = IF cmd = None THEN mine ELSE [mine EXCEPT !.since = "session"]
  /\ UNCHANGED <<cmd, word, call, link, job, cfg>>

Unload ==
  /\ pc # "off" /\ ~unload /\ unload' = TRUE
  /\ UNCHANGED <<slot, pc, auto, link, job, cfg>>
-----------------------------------------------------------------------------
(***************************************************************************)
(* central_loop without a link: idle, scanning, connecting.                *)
(***************************************************************************)
\* CENTRAL_CMD.swap(CCMD_NONE).
Swap ==
  /\ cmd' = None /\ mine' = NoOne
  /\ job' = [cmd |-> cmd, got |-> <<>>, tok |-> mine.tok, since |-> mine.since]

\* The connection to config.peer_address, which no command asks for.
AutoJob == [cmd |-> None, got |-> <<cfg.auto>>, tok |-> cfg.auto, since |-> "now"]

\* Mutant: the configured peer is connected to again and again.
TopAutoAlways ==
  /\ pc = "top"
  /\ IF unload THEN pc' = "off" /\ UNCHANGED <<auto, job>>
     ELSE IF auto THEN /\ pc' = "connecting" /\ UNCHANGED auto
                       /\ job' = AutoJob
          ELSE pc' = "idle" /\ UNCHANGED <<auto, job>>
  /\ UNCHANGED <<slot, unload, link, cfg>>

\* The head of central_loop: config.peer_address is used for the first link only.
Top ==
  /\ pc = "top"
  /\ IF unload THEN pc' = "off" /\ UNCHANGED <<auto, job>>
     ELSE IF auto THEN /\ pc' = "connecting" /\ auto' = FALSE
                       /\ job' = AutoJob
          ELSE pc' = "idle" /\ UNCHANGED <<auto, job>>
  /\ UNCHANGED <<slot, unload, link, cfg>>

\* One turn of wait_idle_cmd.  A command that needs a link is dropped.
Idle ==
  /\ pc = "idle"
  /\ IF unload THEN pc' = "off" /\ UNCHANGED <<slot, job>>
     ELSE /\ Swap
          /\ pc' = IF cmd \in {"connect", "scanStart"} THEN "load" ELSE "idleSleep"
          /\ UNCHANGED <<word, call>>
  /\ UNCHANGED <<unload, auto, link, cfg>>

\* The arguments are loaded one after the other.
LoadWord ==
  /\ pc = "load" /\ Len(job.got) < Len(Loads(job.cmd))
  /\ job' = [job EXCEPT !.got = Append(@, word[Loads(job.cmd)[Len(@) + 1]])]
  /\ UNCHANGED <<slot, unload, pc, auto, link, cfg>>

Loaded ==
  /\ pc = "load" /\ Len(job.got) = Len(Loads(job.cmd))
  /\ pc' = CASE job.cmd = "connect"   -> "connecting"
            [] job.cmd = "scanStart" -> "scanOpen"
            [] OTHER                 -> "exec"
  /\ UNCHANGED <<slot, unload, auto, link, job, cfg>>

\* scanner.scan().await
ScanOpens ==
  /\ pc = "scanOpen" /\ pc' \in {"scan", "top"}
  /\ UNCHANGED <<slot, unload, auto, link, job, cfg>>

\* One turn of run_scan.
Scan ==
  /\ pc = "scan"
  /\ \/ unload /\ pc' = "top" /\ UNCHANGED <<slot, job>>
     \/ /\ ~unload /\ Swap
        /\ pc' = CASE cmd = "scanStop" -> "top" [] cmd = "connect" -> "load"
                  [] OTHER -> "scanSleep"
        /\ UNCHANGED <<word, call>>
  /\ UNCHANGED <<unload, auto, link, cfg>>

\* The timeout of the scan, 0 for none.
ScanTimesOut ==
  /\ pc = "scan" /\ ~unload /\ pc' = "top"
  /\ UNCHANGED <<slot, unload, auto, link, job, cfg>>

\* central.connect().await gives a connection, and on_connected is called ...
Connected ==
  /\ pc = "connecting" /\ pc' = "init"
  /\ peer' = job.got[1] /\ job' = NoJob
  /\ UNCHANGED <<slot, unload, auto, closing, store, found, cfg>>

\* ... or fails.
ConnectFails ==
  /\ pc = "connecting" /\ pc' = "retry" /\ job' = NoJob
  /\ UNCHANGED <<slot, unload, auto, link, cfg>>

\* The timers: 30 ms idle and scanning, 1 s after a failed connect, 20 ms in a session.
Timer ==
  /\ \/ pc = "idleSleep" /\ pc' = "idle"
     \/ pc = "scanSleep" /\ pc' = "scan"
     \/ pc = "retry" /\ pc' = "top"
     \/ pc = "sleep" /\ pc' = "pump"
  /\ job' = NoJob
  /\ UNCHANGED <<slot, unload, auto, link, cfg>>
-----------------------------------------------------------------------------
(***************************************************************************)
(* The GATT client session of a link.                                      *)
(***************************************************************************)
\* ClientP::new().await
ClientReady ==
  /\ pc = "init" /\ pc' = "pump"
  /\ UNCHANGED <<slot, unload, auto, link, job, cfg>>

\* The loop takes a command; one that makes no sense on a link is dropped.
Pump ==
  /\ pc = "pump" /\ Swap
  /\ pc' = IF cmd \in ServerCmds THEN "load" ELSE "sleep"
  /\ closing' = (closing \/ cmd = "disconnect")
  /\ UNCHANGED <<word, call, unload, auto, peer, store, found, cfg>>

\* Some of the characteristics of a peer, in the order of their handles.
Parts ==
  LET Picks == {p \in UNION {[1 .. k -> DOMAIN Chrs] : k \in 0 .. Len(Chrs)} :
                  \A m, n \in DOMAIN p : m < n => p[m] < p[n]}
  IN  {[n \in DOMAIN p |-> Chrs[p[n]]] : p \in Picks}

\* What a discovery may report: the characteristics of one service, or of those
\* services that the peer describes; none if it fails.
Findings(c) ==
  CASE c = "discover"    -> {<<>>, <<job.got[1]>>}
    [] c = "discoverAll" -> Parts
    [] OTHER             -> {<<>>}

\* Mutant: the store takes everything.
PushUnbounded(entries) == store \o entries

\* heapless::Vec::push fails when the vector is full.
Push(entries) ==
  LET all == store \o entries
  IN  SubSeq(all, 1, IF Len(all) < StoreCap THEN Len(all) ELSE StoreCap)

\* Mutant: a failed request is only logged.
HostAnswersOrNot ==
  /\ pc = "exec" /\ pc' \in {"status", "sleep"}
  /\ \E s \in Findings(job.cmd) :
       /\ store' = Push([n \in DOMAIN s |-> <<s[n], Cccd[peer][s[n]]>>])
       /\ found' = found \cup {s[n] : n \in DOMAIN s}
  /\ UNCHANGED <<slot, unload, auto, peer, closing, job, cfg>>

\* The peer has answered, well or badly: on_client_status is next.
HostAnswers ==
  /\ pc = "exec" /\ pc' = "status"
  /\ \E s \in Findings(job.cmd) :
       /\ store' = Push([n \in DOMAIN s |-> <<s[n], Cccd[peer][s[n]]>>])
       /\ found' = found \cup {s[n] : n \in DOMAIN s}
  /\ UNCHANGED <<slot, unload, auto, peer, closing, job, cfg>>

\* emit_client_status has returned.
Status ==
  /\ pc = "status" /\ pc' = "sleep" /\ job' = NoJob
  /\ UNCHANGED <<slot, unload, auto, link, cfg>>

\* Mutant: what was discovered is remembered for the next link.
LeaveLinkRemembers ==
  /\ peer' = None /\ closing' = FALSE /\ found' = {} /\ job' = NoJob
  /\ mine' = IF cmd # None /\ mine.since = "now" THEN [mine EXCEPT !.since = "link"] ELSE mine
  /\ UNCHANGED <<cmd, word, call, unload, auto, store, cfg>>

\* run_central_conn is over: the client goes with all it remembers, and the
\* connection is dropped.
LeaveLink ==
  /\ peer' = None /\ closing' = FALSE /\ store' = <<>> /\ found' = {} /\ job' = NoJob
  /\ mine' = IF cmd # None /\ mine.since = "now" THEN [mine EXCEPT !.since = "link"] ELSE mine
  /\ UNCHANGED <<cmd, word, call, unload, auto, cfg>>

\* The link is lost, the client cannot start, or the L2CAP channel is over:
\* whatever the session awaits is dropped, on_disconnected is called.
LinkEnds ==
  /\ pc \in AwaitsSession /\ pc' = "top"
  /\ LeaveLink

\* wait_unload beside the session; with L2CAP only client_session has one.
UnloadSeen ==
  /\ unload /\ pc \in AwaitsSession \ (IF cfg.l2cap THEN {"init"} ELSE {})
  /\ pc' = "top"
  /\ LeaveLink

\* Mutant: only a dual session has something around the loop that ends it.
UnloadSeenOutsideDual ==
  /\ unload /\ cfg.role = "dual" /\ pc \in AwaitsIdle \cup AwaitsSession
  /\ pc' = "off"
  /\ LeaveLink

\* bond_admin_loop, or in a dual session the wait_unload beside it, returns and the
\* select around the whole loop drops it: on_disconnected is not called.
UnloadSeenOutside ==
  /\ unload /\ pc \in AwaitsIdle \cup AwaitsSession
  /\ pc' = "off"
  /\ LeaveLink

\* run_runner returns on an error of the controller.  In a session of the central
\* role alone that ends everything; the next session is after an unload().
RunnerEnds ==
  /\ cfg.role = "central" /\ pc \in AwaitsIdle \cup AwaitsSession
  /\ pc' = "off"
  /\ LeaveLink
-----------------------------------------------------------------------------
Application == Call \/ StoreWord \/ Check \/ StoreHandle \/ StoreCmd \/ Notify \/ Load \/ Unload

\* The loop's own steps and its timers.
Loop == Top \/ Idle \/ LoadWord \/ Loaded \/ Scan \/ Timer \/ Pump \/ Status

\* The host, which answers what it is asked, but need not find a peer.
Host == ScanOpens \/ ClientReady \/ HostAnswers

Next ==
  \/ Application \/ Loop \/ Host
  \/ ScanTimesOut \/ Connected \/ ConnectFails \/ LinkEnds
  \/ UnloadSeen \/ UnloadSeenOutside \/ RunnerEnds

Spec == Init /\ [][Next]_vars

\* The BLE thread runs, its timers fire and the host answers.  Every poll of the
\* session polls the link, wait_unload and bond_admin_loop too, whose timers are their
\* own, so these are not starved by the loop.
FairSpec ==
  /\ Spec /\ WF_vars(Loop) /\ WF_vars(Host)
  /\ SF_vars(UnloadSeen) /\ SF_vars(UnloadSeenOutside) /\ SF_vars(closing /\ LinkEnds)
-----------------------------------------------------------------------------
\* The payload of a write of a dual session may be a notification's (Notify).
Shared == cfg.role = "dual" /\ job.cmd \in {"write", "writeNoRsp"}

\* What the loop asks of the host is what the accepted call of a patient caller
\* asked for: no argument is that of another call, of a refused one or of an
\* earlier session.
RunsAsAsked ==
  pc \in {"exec", "connecting", "scanOpen"} /\ ~Shared =>
    \A n \in DOMAIN job.got : job.got[n] = job.tok

\* A command for a link that has ended never runs on a later link of the session,
\* and one from an earlier session only if config.peer_address connects at once.
NotOnLaterLink ==
  pc = "exec" => job.since # "link" /\ (job.since = "session" => cfg.auto # None)

\* subscribe(): the CCCD remembered for a characteristic, else the next handle.
Target(chr) ==
  LET known == {n \in DOMAIN store : store[n][1] = chr}
  IN  IF known = {} THEN "next" ELSE store[CHOOSE n \in known : \A m \in known : n <= m][2]

\* A subscription to a characteristic reported on this link writes its CCCD, as
\* long as the store was never full.
SubscribesCccd ==
  pc = "exec" /\ job.cmd \in Subscribes /\ job.got[1] \in found /\ Len(store) < StoreCap =>
    Target(job.got[1]) = Cccd[peer][job.got[1]]

\* A command accepted on a link gets its answer, or ends the link, unless the link
\* ends first; a running scan obeys scanStop.
Honoured ==
  /\ \A c \in Cmds \cap ServerCmds :
       cmd = c /\ peer # None ~> (pc = "status" /\ job.cmd = c) \/ peer = None
  /\ cmd = "disconnect" /\ peer # None ~> peer = None
  /\ cmd = "scanStop" /\ pc = "scanSleep" ~> pc \notin {"scan", "scanSleep"}
  /\ cmd # None /\ pc = "idleSleep" ~> cmd = None \/ pc = "off"

\* unload() ends the session in either role, whatever the loop waits for, a peer
\* that never answers connect() included.
UnloadEnds == unload ~> pc = "off"

\* As many characteristics as the store has room for are remembered for
\* subscriptions, as API.md says of 32, however they were discovered.
TracksUpToCap ==
  pc = "exec" /\ job.cmd \in Subscribes /\ job.got[1] \in found
    /\ Cardinality(found) <= StoreCap =>
    Target(job.got[1]) = Cccd[peer][job.got[1]]
=============================================================================
