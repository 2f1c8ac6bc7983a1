------------------------------ MODULE L2capSlot ------------------------------
(***************************************************************************)
(* An L2CAP channel over a link: the loop that opens it and serves it      *)
(* (l2cap_peripheral, l2cap_central, l2cap_serve, rust/src/radio.rs) and   *)
(* the one-SDU slot and disconnect flag through which the application      *)
(* reaches it (runtime_ble_l2cap_send and _disconnect, rust/src/lib.rs).   *)
(*                                                                         *)
(* A link that is lost and a session that is unloaded are one step here:   *)
(* both end the channel and, with it or before it, the loop.               *)
(***************************************************************************)
EXTENDS Naturals

CONSTANTS
  Callers,   \* application threads that call runtime_ble_l2cap_send
  Data,      \* payloads
  Sdus,      \* what they send: data and length
  ValueLen,  \* VALUE_LEN
  None,      \* no SDU
  Eager      \* calls overlap the opening of a channel

ASSUME SduAssumption ==
  /\ Sdus \subseteq [data : Data, len : Nat \ {0}] /\ None \notin Sdus
  /\ ValueLen \in Nat \ {0} /\ Eager \in BOOLEAN

VARIABLES
  acl,     \* the radio link is there and no unload has been seen
  open,    \* the host's channel is open
  appOpen, \* the app had on_l2cap_connected and no on_l2cap_disconnected since
  rpc,     \* where the BLE thread is in the loop; "off": it serves no link
  reg,     \* the loop's copy of the SDU
  cell,    \* L2CAP_SEND_BUF and L2CAP_SEND_LEN
  sendReq, \* L2CAP_SEND_REQ
  discReq, \* L2CAP_DISCONNECT_REQ
  pc, arg, \* where each caller is, and what it sends
  taken,   \* the SDU the loop last cleared the slot for
  stale,   \* history: sendReq was last raised before this channel was announced
  discStale, \* history: and so was discReq
  role,    \* "central": l2cap_central opens the channel; "peripheral":
           \* l2cap_peripheral accepts it. Fixed for a behaviour, as is
  sender   \* who sends: the application's "thread"s, or its "callback"
           \* on_l2cap_data, on the BLE thread

vars == <<acl, open, appOpen, rpc, reg, cell, sendReq, discReq, pc, arg, taken,
          stale, discStale, role, sender>>
setup   == <<role, sender>>
callers == <<pc, arg>>
history == <<stale, discStale>>
channel == <<acl, open, appOpen>>

NoSdu  == [data |-> None, len |-> 0]
Yields == {"send", "sleep"}
Reads  == {"len", "copy", "clear"}

TypeOK ==
  /\ acl \in BOOLEAN /\ open \in BOOLEAN /\ appOpen \in BOOLEAN
  /\ rpc \in {"off", "accept", "clearSend", "clearDisc", "disc", "check"} \cup Reads \cup Yields
  /\ open => acl /\ rpc \notin {"off", "accept"}
  /\ sendReq \in BOOLEAN /\ discReq \in BOOLEAN
  /\ stale \in BOOLEAN /\ discStale \in BOOLEAN
  /\ pc \in [Callers -> {"idle", "copy", "len", "raise"}]
  /\ arg \in [Callers -> Sdus \cup {NoSdu}]
  /\ taken \in [data : Data, len : 1 .. ValueLen] \cup {None}
  /\ role \in {"central", "peripheral"} /\ sender \in {"thread", "callback"}

Init ==
  /\ acl = FALSE /\ open = FALSE /\ appOpen = FALSE /\ rpc = "off"
  /\ reg = NoSdu /\ cell = NoSdu /\ sendReq = FALSE /\ discReq = FALSE
  /\ pc = [p \in Callers |-> "idle"] /\ arg = [p \in Callers |-> NoSdu]
  /\ taken = None /\ stale = TRUE /\ discStale = TRUE
  /\ role \in {"central", "peripheral"} /\ sender \in {"thread", "callback"}

(***************************************************************************)
(* The application: callers' threads, and callbacks on the BLE thread.     *)
(***************************************************************************)
CallerStep(p, from, to) == pc[p] = from /\ pc' = [pc EXCEPT ![p] = to]

\* Callers that are not Eager keep out of the opening of a channel.
SendCheck(p) ==
  /\ sender = "thread" /\ ~sendReq
  /\ Eager \/ rpc \notin {"clearSend", "clearDisc"}
  /\ CallerStep(p, "idle", "copy")
  /\ \E m \in Sdus : arg' = [arg EXCEPT ![p] = m]
  /\ UNCHANGED <<channel, rpc, reg, cell, sendReq, discReq, taken, history,
                 setup>>

\* Mutant: the flag is raised together with the data, before the length.
SendCopyRaises(p) ==
  /\ CallerStep(p, "copy", "len")
  /\ cell' = [cell EXCEPT !.data = arg[p].data]
  /\ sendReq' = TRUE /\ stale' = ~appOpen
  /\ UNCHANGED <<channel, rpc, reg, discReq, arg, taken, discStale, setup>>

SendCopy(p) ==
  /\ CallerStep(p, "copy", "len")
  /\ cell' = [cell EXCEPT !.data = arg[p].data]
  /\ UNCHANGED <<channel, rpc, reg, sendReq, discReq, arg, taken, history,
                 setup>>

SendLen(p) ==
  /\ CallerStep(p, "len", "raise")
  /\ cell' = [cell EXCEPT !.len = arg[p].len]
  /\ UNCHANGED <<channel, rpc, reg, sendReq, discReq, arg, taken, history,
                 setup>>

SendRaise(p) ==
  /\ CallerStep(p, "raise", "idle")
  /\ sendReq' = TRUE /\ stale' = ~appOpen
  /\ UNCHANGED <<channel, rpc, reg, cell, discReq, arg, taken, discStale,
                 setup>>

\* receive_sdu returns and on_l2cap_data sends, the whole call at once: the BLE
\* thread is in the callback.
EchoSend ==
  /\ sender = "callback" /\ open /\ rpc \in Yields
  /\ ~sendReq
  /\ sendReq' = TRUE /\ stale' = FALSE
  /\ cell' \in Sdus
  /\ UNCHANGED <<channel, rpc, reg, discReq, callers, taken, discStale, setup>>

\* runtime_ble_l2cap_disconnect, with or without a channel.
AskDisconnect ==
  /\ Eager \/ rpc \notin {"clearSend", "clearDisc"}
  /\ discReq' = TRUE /\ discStale' = ~appOpen
  /\ UNCHANGED <<channel, rpc, reg, cell, sendReq, callers, taken, stale,
                 setup>>

(***************************************************************************)
(* The loop, on the BLE thread: open, announce, reset the flags, pump.     *)
(***************************************************************************)
LoopStep(from, to) == rpc = from /\ rpc' = to

Connect ==
  /\ ~acl /\ LoopStep("off", "accept")
  /\ acl' = TRUE
  /\ UNCHANGED <<open, appOpen, reg, cell, sendReq, discReq, callers, taken,
                 history, setup>>

\* The channel is created or accepted and on_l2cap_connected called.
Announce ==
  /\ acl /\ LoopStep("accept", "clearSend")
  /\ Eager \/ \A p \in Callers : pc[p] = "idle"
  /\ open' = TRUE /\ appOpen' = TRUE /\ stale' = TRUE /\ discStale' = TRUE
  /\ UNCHANGED <<acl, reg, cell, sendReq, discReq, callers, taken, setup>>

\* l2cap_central does not try again when the peer refuses the channel, and its
\* end is the end of the connection; l2cap_peripheral goes on accepting.
CreateFails ==
  /\ role = "central" /\ acl /\ LoopStep("accept", "off")
  /\ acl' = FALSE
  /\ UNCHANGED <<open, appOpen, reg, cell, sendReq, discReq, callers, taken,
                 history, setup>>

\* Mutant: the slot is not reset for the new channel.
ClearSendKeeps ==
  /\ LoopStep("clearSend", "clearDisc")
  /\ UNCHANGED <<channel, reg, cell, sendReq, discReq, callers, taken,
                 history, setup>>

ClearSend ==
  /\ LoopStep("clearSend", "clearDisc")
  /\ sendReq' = FALSE
  /\ UNCHANGED <<channel, reg, cell, discReq, callers, taken, history, setup>>

\* Mutant: a disconnect asked for on an earlier channel is kept.
ClearDiscKeeps ==
  /\ LoopStep("clearDisc", "disc")
  /\ UNCHANGED <<channel, reg, cell, sendReq, discReq, callers, taken,
                 history, setup>>

ClearDisc ==
  /\ LoopStep("clearDisc", "disc")
  /\ discReq' = FALSE
  /\ UNCHANGED <<channel, reg, cell, sendReq, callers, taken, history, setup>>

\* Mutant: the flag is swapped out and the writer left alone.
PumpDiscForgets ==
  /\ LoopStep("disc", "check")
  /\ discReq' = FALSE /\ sendReq' = IF discReq THEN FALSE ELSE sendReq
  /\ UNCHANGED <<channel, reg, cell, callers, taken, history, setup>>

\* The disconnect flag is swapped out; the pending SDU goes with the channel.
PumpDisc ==
  /\ LoopStep("disc", "check")
  /\ IF discReq THEN discReq' = FALSE /\ sendReq' = FALSE /\ open' = FALSE
                ELSE UNCHANGED <<discReq, sendReq, open>>
  /\ UNCHANGED <<acl, appOpen, reg, cell, callers, taken, history, setup>>

PumpCheck ==
  /\ LoopStep("check", IF sendReq THEN "len" ELSE "sleep")
  /\ UNCHANGED <<channel, reg, cell, sendReq, discReq, callers, taken,
                 history, setup>>

\* Mutant: the length is not limited.
PumpLenUncapped ==
  /\ LoopStep("len", "copy")
  /\ reg' = [reg EXCEPT !.len = cell.len]
  /\ UNCHANGED <<channel, cell, sendReq, discReq, callers, taken, history,
                 setup>>

\* The length is limited to the local buffer of VALUE_LEN bytes.
PumpLen ==
  /\ LoopStep("len", "copy")
  /\ reg' = [reg EXCEPT !.len = IF cell.len < ValueLen THEN cell.len ELSE ValueLen]
  /\ UNCHANGED <<channel, cell, sendReq, discReq, callers, taken, history,
                 setup>>

PumpCopy ==
  /\ LoopStep("copy", "clear")
  /\ reg' = [reg EXCEPT !.data = cell.data]
  /\ UNCHANGED <<channel, cell, sendReq, discReq, callers, taken, history,
                 setup>>

PumpClear ==
  /\ LoopStep("clear", "send")
  /\ sendReq' = FALSE /\ taken' = reg
  /\ UNCHANGED <<channel, reg, cell, discReq, callers, history, setup>>

\* writer.send completes: credits were granted, or the channel has closed.
PumpSend ==
  /\ LoopStep("send", "sleep")
  /\ UNCHANGED <<channel, reg, cell, sendReq, discReq, callers, taken,
                 history, setup>>

\* Timer::after(20 ms). Every poll reaches the receive loop first, so the pump
\* does not go round again after the channel has closed.
PumpSleep ==
  /\ open /\ LoopStep("sleep", "disc")
  /\ UNCHANGED <<channel, reg, cell, sendReq, discReq, callers, taken,
                 history, setup>>

(***************************************************************************)
(* Ends: of the channel, of the link.                                      *)
(***************************************************************************)
PeerCloses ==
  /\ open /\ rpc \in Yields
  /\ open' = FALSE
  /\ UNCHANGED <<acl, appOpen, rpc, reg, cell, sendReq, discReq, callers,
                 taken, history, setup>>

\* Mutant: the end of the channel is not reported.
RecvEndsSilently ==
  /\ ~open /\ rpc \in Yields
  /\ rpc' = IF role = "central" THEN "off" ELSE "accept"
  /\ acl' = (acl /\ role = "peripheral")
  /\ UNCHANGED <<open, appOpen, reg, cell, sendReq, discReq, callers, taken,
                 history, setup>>

\* receive_sdu fails and on_l2cap_disconnected is called. l2cap_peripheral
\* accepts another channel; l2cap_central returns, and run_central_conn with it.
RecvEnds ==
  /\ ~open /\ rpc \in Yields
  /\ appOpen' = FALSE
  /\ rpc' = IF role = "central" THEN "off" ELSE "accept"
  /\ acl' = (acl /\ role = "peripheral")
  /\ UNCHANGED <<open, reg, cell, sendReq, discReq, callers, taken, history,
                 setup>>

LinkLost ==
  /\ acl /\ rpc \in Yields \cup {"accept"}
  /\ acl' = FALSE /\ open' = FALSE
  /\ UNCHANGED <<appOpen, rpc, reg, cell, sendReq, discReq, callers, taken,
                 history, setup>>

\* The connection's event loop, polled before the channel's, sees the
\* disconnection and ends the select that runs both (unload: the session's).
LinkEnds ==
  /\ ~acl /\ rpc \in Yields \cup {"accept"}
  /\ rpc' = "off"
  /\ UNCHANGED <<channel, reg, cell, sendReq, discReq, callers, taken,
                 history, setup>>
-----------------------------------------------------------------------------
Send(p) == SendCheck(p) \/ SendCopy(p) \/ SendLen(p) \/ SendRaise(p)

Pump == ClearSend \/ ClearDisc \/ PumpDisc \/ PumpCheck \/ PumpLen
        \/ PumpCopy \/ PumpClear \/ PumpSleep \/ RecvEnds \/ LinkEnds

Next ==
  \/ \E p \in Callers : Send(p)
  \/ EchoSend \/ AskDisconnect
  \/ Pump \/ PumpSend
  \/ Connect \/ Announce \/ CreateFails \/ PeerCloses \/ LinkLost

Spec == Init /\ [][Next]_vars

\* The BLE thread runs and its timers fire. A send waits for the peer's credits,
\* which nothing obliges the peer to grant.
FairSpec == Spec /\ WF_vars(Pump)
-----------------------------------------------------------------------------
\* "Once `on_l2cap_connected` fires, send SDUs with `runtime_ble_l2cap_send()`"
\* (API.md:246): an SDU accepted on an announced channel leaves the slot only to
\* be sent there, or because the channel closes; one accepted before, by whatever
\* caller, is never sent on it.
SentOnOwnChannel ==
  [][sendReq /\ ~sendReq' =>
       LET sent == taken' = reg /\ rpc' = "send"
       IN  IF stale THEN ~sent ELSE sent \/ ~open']_vars

\* The slot is a mailbox: each accepted SDU is taken whole, once, or dropped.
Mailbox == INSTANCE TxMailbox WITH
             Msgs <- Sdus, Empty <- None,
             slot <- IF sendReq THEN cell ELSE None, taken <- taken

MailboxSpec == Mailbox!Spec

\* "Close the established L2CAP channel. on_l2cap_disconnected fires once the
\* channel pump exits" (runtime_ble.h:667): a channel asked to close does, and
\* the app hears of it, unless the link itself goes first. The pump must not be
\* waiting for credits for ever: it does not look at the flag meanwhile.
DisconnectHonoured ==
  []<>(rpc # "send") =>
    (discReq /\ open /\ rpc \notin {"clearSend", "clearDisc"} ~> ~appOpen \/ ~acl)

\* A disconnect asked for on one channel never closes a later one.
NoStrayDisconnect ==
  [][open /\ ~open' /\ rpc = "disc" => ~discStale]_vars

\* A channel that closes while its link stays, by the peer or by the app's wish
\* and at whatever point of the pump, is reported by on_l2cap_disconnected.
ClosedIsReported == rpc \in Yields /\ ~open ~> ~appOpen \/ ~acl
=============================================================================
