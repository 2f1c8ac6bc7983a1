------------------------------- MODULE TxSlot -------------------------------
(***************************************************************************)
(* The one outstanding notification or indication: queue_tx (rust/src/     *)
(* lib.rs), called from application threads, fills SEND_BUF, SEND_CHR,     *)
(* SEND_KIND and SEND_LEN one after the other and then raises SEND_REQ;    *)
(* the transmit loop of connection_task (rust/src/radio.rs) reads them one *)
(* after the other, clears SEND_REQ and sends.  No lock is held: a caller  *)
(* and the BLE thread interleave between any two of these accesses.        *)
(*                                                                         *)
(* In the dual role runtime_ble_client_write() shares SEND_BUF and SEND_LEN*)
(* with it.                                                                *)
(***************************************************************************)
EXTENDS Naturals

CONSTANTS
  Producers,  \* application threads that call the send functions
  Data,       \* payloads
  Chrs,       \* characteristic arguments, Nus among them
  Nus,        \* NUS_TX_CHR, "the built-in NUS TX characteristic"
  NusTx,      \* gatt.nus_tx, the index it stands for
  Props,      \* gatt.props: index |-> subset of {"notify", "indicate"}
  Msgs,       \* the messages callers pass
  ValueLen,   \* VALUE_LEN
  None        \* no message

Kinds == {"auto", "indicate"}
Cell  == [data : Data \cup {None}, chr : Chrs, kind : Kinds, len : Nat]

ASSUME MsgAssumption ==
  /\ Msgs \subseteq [data : Data, chr : Chrs, kind : Kinds, len : Nat \ {0}]
  /\ Nus \in Chrs /\ None \notin Data \cup Cell
  /\ ValueLen \in Nat

VARIABLES
  cell,     \* SEND_BUF, SEND_CHR, SEND_KIND, SEND_LEN
  sendReq,  \* SEND_REQ
  pc, arg,  \* where each caller is in queue_tx, and what it passed
  ccmd,     \* CENTRAL_CMD holds a write request
  up,       \* a session runs
  link,     \* a central is connected
  rpc, reg, \* where the transmit loop is, and its local copies
  taken,    \* the local copies it last cleared SEND_REQ with, None before
  air,      \* the latest notification or indication handed to the host
  stale,    \* history: SEND_REQ was last raised outside the current session
  dual      \* the configuration's role is dual: the session also runs the
            \* central side. Fixed for a behaviour

vars == <<cell, sendReq, pc, arg, ccmd, up, link, rpc, reg, taken, air, stale,
          dual>>
callers  == <<pc, arg>>
linkVars == <<up, link>>
txVars   == <<rpc, reg, taken, air>>

NoCell == [data |-> None, chr |-> Nus, kind |-> "auto", len |-> 0]

Init ==
  /\ cell = NoCell /\ sendReq = FALSE
  /\ pc = [p \in Producers |-> "idle"] /\ arg = [p \in Producers |-> NoCell]
  /\ ccmd = FALSE
  /\ up = FALSE /\ link = FALSE
  /\ rpc = "off" /\ reg = NoCell /\ taken = None /\ air = None
  /\ stale = FALSE
  /\ dual \in BOOLEAN

(***************************************************************************)
(* queue_tx, on the thread of the caller p.                                *)
(***************************************************************************)
CallerStep(p, from, to) == pc[p] = from /\ pc' = [pc EXCEPT ![p] = to]

\* Mutant: the slot is not looked at.
QueueCheckNone(p) ==
  /\ CallerStep(p, "idle", "copy")
  /\ \E m \in Msgs : arg' = [arg EXCEPT ![p] = m]
  /\ UNCHANGED <<cell, sendReq, ccmd, linkVars, txVars, stale, dual>>

\* The slot is free. (A full one returns NO_MEM and changes nothing.)
QueueCheck(p) ==
  /\ ~sendReq
  /\ CallerStep(p, "idle", "copy")
  /\ \E m \in Msgs : arg' = [arg EXCEPT ![p] = m]
  /\ UNCHANGED <<cell, sendReq, ccmd, linkVars, txVars, stale, dual>>

QueueCopy(p) ==
  /\ CallerStep(p, "copy", "chr")
  /\ cell' = [cell EXCEPT !.data = arg[p].data]
  /\ UNCHANGED <<sendReq, arg, ccmd, linkVars, txVars, stale, dual>>

QueueChr(p) ==
  /\ CallerStep(p, "chr", "kind")
  /\ cell' = [cell EXCEPT !.chr = arg[p].chr]
  /\ UNCHANGED <<sendReq, arg, ccmd, linkVars, txVars, stale, dual>>

QueueKind(p) ==
  /\ CallerStep(p, "kind", "len")
  /\ cell' = [cell EXCEPT !.kind = arg[p].kind]
  /\ UNCHANGED <<sendReq, arg, ccmd, linkVars, txVars, stale, dual>>

QueueLen(p) ==
  /\ CallerStep(p, "len", "raise")
  /\ cell' = [cell EXCEPT !.len = arg[p].len]
  /\ UNCHANGED <<sendReq, arg, ccmd, linkVars, txVars, stale, dual>>

\* SEND_REQ is raised and the call returns OK.
QueueRaise(p) ==
  /\ CallerStep(p, "raise", "idle")
  /\ sendReq' = TRUE
  /\ stale' = ~up
  /\ UNCHANGED <<cell, arg, ccmd, linkVars, txVars, dual>>

\* central_write: the payload goes into the same buffer, whether or not a
\* notification waits in it; then central_cmd takes or refuses the command.
CentralWrite(p) ==
  /\ dual /\ pc[p] = "idle"
  /\ \E m \in Msgs : cell' = [cell EXCEPT !.data = m.data, !.len = m.len]
  /\ ccmd' = TRUE
  /\ UNCHANGED <<sendReq, callers, linkVars, txVars, stale, dual>>

(***************************************************************************)
(* The transmit loop of connection_task, on the BLE thread. It yields only *)
(* in "send" and "sleep".                                                  *)
(***************************************************************************)
LoopStep(from, to) == rpc = from /\ rpc' = to

TxCheck ==
  /\ LoopStep("check", IF sendReq THEN "chr" ELSE "sleep")
  /\ UNCHANGED <<cell, sendReq, callers, ccmd, linkVars, reg, taken, air,
                 stale, dual>>

TxChr ==
  /\ LoopStep("chr", "kind")
  /\ reg' = [reg EXCEPT !.chr = cell.chr]
  /\ UNCHANGED <<cell, sendReq, callers, ccmd, linkVars, taken, air, stale,
                 dual>>

TxKind ==
  /\ LoopStep("kind", "len")
  /\ reg' = [reg EXCEPT !.kind = cell.kind]
  /\ UNCHANGED <<cell, sendReq, callers, ccmd, linkVars, taken, air, stale,
                 dual>>

\* Mutant: the length is not limited to the value buffer.
TxLenUncapped ==
  /\ LoopStep("len", "copy")
  /\ reg' = [reg EXCEPT !.len = cell.len]
  /\ UNCHANGED <<cell, sendReq, callers, ccmd, linkVars, taken, air, stale,
                 dual>>

\* The length is limited to the local buffer of VALUE_LEN bytes.
TxLen ==
  /\ LoopStep("len", "copy")
  /\ reg' = [reg EXCEPT !.len = IF cell.len < ValueLen THEN cell.len ELSE ValueLen]
  /\ UNCHANGED <<cell, sendReq, callers, ccmd, linkVars, taken, air, stale,
                 dual>>

TxCopy ==
  /\ LoopStep("copy", "clear")
  /\ reg' = [reg EXCEPT !.data = cell.data]
  /\ UNCHANGED <<cell, sendReq, callers, ccmd, linkVars, taken, air, stale,
                 dual>>

TxClear ==
  /\ LoopStep("clear", "send")
  /\ sendReq' = FALSE
  /\ taken' = reg
  /\ UNCHANGED <<cell, callers, ccmd, linkVars, reg, air, stale, dual>>

Target(chr) == IF chr = Nus THEN NusTx ELSE chr
PropsOf(c)  == IF c \in DOMAIN Props THEN Props[c] ELSE {}

\* Mutant: an indication falls back to a notification.
ModeFallback(m) ==
  LET props == PropsOf(Target(m.chr))
  IN  IF "notify" \in props THEN "notify"
      ELSE IF "indicate" \in props THEN "indicate" ELSE "dropped"

\* How a message leaves: an explicit indication only on a characteristic that
\* indicates, otherwise notified where possible and else indicated.
Mode(m) ==
  LET props == PropsOf(Target(m.chr))
  IN  CASE m.kind = "indicate" /\ "indicate" \in props -> "indicate"
        [] m.kind = "auto" /\ "notify" \in props -> "notify"
        [] m.kind = "auto" /\ props = {"indicate"} -> "indicate"
        [] OTHER -> "dropped"

\* Mutant: a message that cannot be sent is tried again.
TxSendRetries ==
  /\ LoopStep("send", IF Mode(taken) = "dropped" THEN "send" ELSE "sleep")
  /\ air' = IF Mode(taken) = "dropped" THEN air
            ELSE [mode |-> Mode(taken), msg |-> taken]
  /\ UNCHANGED <<cell, sendReq, callers, ccmd, linkVars, reg, taken, stale,
                 dual>>

\* notify_raw or indicate_raw completes; an index that is no characteristic, or
\* one without the property, is passed over in silence.
TxSend ==
  /\ LoopStep("send", "sleep")
  /\ air' = IF Mode(taken) = "dropped" THEN air
            ELSE [mode |-> Mode(taken), msg |-> taken]
  /\ UNCHANGED <<cell, sendReq, callers, ccmd, linkVars, reg, taken, stale,
                 dual>>

\* Timer::after(10 ms).
TxSleep ==
  /\ LoopStep("sleep", "check")
  /\ UNCHANGED <<cell, sendReq, callers, ccmd, linkVars, reg, taken, air,
                 stale, dual>>

\* The central side's client takes its write request.
ClientWrite ==
  /\ up /\ ccmd
  /\ rpc \in {"off", "send", "sleep"}
  /\ ccmd' = FALSE
  /\ UNCHANGED <<cell, sendReq, callers, linkVars, txVars, stale, dual>>

(***************************************************************************)
(* Links and sessions. A link ends, and a session ends, where the BLE      *)
(* thread yields: the loop is dropped there, and with it a send in flight. *)
(***************************************************************************)
Connect ==
  /\ up /\ ~link
  /\ link' = TRUE
  /\ rpc' = "check"
  /\ UNCHANGED <<cell, sendReq, callers, ccmd, up, reg, taken, air, stale,
                 dual>>

Disconnect ==
  /\ link /\ rpc \in {"send", "sleep"}
  /\ link' = FALSE
  /\ rpc' = "off"
  /\ UNCHANGED <<cell, sendReq, callers, ccmd, up, reg, taken, air, stale,
                 dual>>

\* Mutant: SEND_REQ survives into the next session.
SessionStartKeeps ==
  /\ ~up
  /\ up' = TRUE
  /\ UNCHANGED <<cell, sendReq, callers, ccmd, link, txVars, stale, dual>>

\* runtime_ble_run clears SEND_REQ.
SessionStart ==
  /\ ~up
  /\ up' = TRUE
  /\ sendReq' = FALSE
  /\ UNCHANGED <<cell, callers, ccmd, link, txVars, stale, dual>>

SessionEnd ==
  /\ up /\ rpc \in {"off", "send", "sleep"}
  /\ up' = FALSE /\ link' = FALSE
  /\ rpc' = "off"
  /\ stale' = TRUE
  /\ UNCHANGED <<cell, sendReq, callers, ccmd, reg, taken, air, dual>>
-----------------------------------------------------------------------------
QueueTx(p) == QueueCheck(p) \/ QueueCopy(p) \/ QueueChr(p) \/ QueueKind(p)
              \/ QueueLen(p) \/ QueueRaise(p)

Transmit == TxCheck \/ TxChr \/ TxKind \/ TxLen \/ TxCopy \/ TxClear \/ TxSend
            \/ TxSleep

Session == Connect \/ Disconnect \/ SessionStart \/ SessionEnd

Next ==
  \/ \E p \in Producers : QueueTx(p) \/ CentralWrite(p)
  \/ Transmit \/ ClientWrite \/ Session

Spec == Init /\ [][Next]_vars

\* The BLE thread runs, its 10 ms timer fires, and the host finishes a send.
FairSpec == Spec /\ WF_vars(Transmit)
-----------------------------------------------------------------------------
FlagsOK ==
  sendReq \in BOOLEAN /\ ccmd \in BOOLEAN /\ up \in BOOLEAN /\ stale \in BOOLEAN
  /\ link \in BOOLEAN /\ dual \in BOOLEAN

ValuesOK ==
  /\ cell \in Cell
  /\ pc \in [Producers -> {"idle", "copy", "chr", "kind", "len", "raise"}]
  /\ arg \in [Producers -> Cell]
  /\ rpc \in {"off", "check", "chr", "kind", "len", "copy", "clear", "send", "sleep"}
  /\ reg \in Cell /\ reg.len <= ValueLen
  /\ taken \in Cell \cup {None}

\* Every variable is in its set; in particular the loop's copy never exceeds the
\* VALUE_LEN bytes of txbuf (radio.rs:3191-3203).
TypeOK == FlagsOK /\ ValuesOK

\* "no overwrite" (test_edge.c:367), with "Lock-free signals between caller
\* threads and the runtime thread" (lib.rs:456): in a session of one role, while
\* SEND_REQ is raised nobody writes the message behind it.
NoOverwrite == [][~dual /\ sendReq /\ sendReq' => cell' = cell]_vars

\* A characteristic sends only what it has the property for, and an explicit
\* indication never leaves as an unacknowledged notification.
SentAsAsked ==
  air # None =>
    /\ air.mode \in PropsOf(Target(air.msg.chr))
    /\ air.msg.kind = "indicate" => air.mode = "indicate"

\* "A subsequent load() resets the slot" (test_edge.c:368): the transmit loop
\* never picks up a message raised before its session began, even from a caller
\* that was half way through queue_tx when the session changed.
SentInOwnSession ==
  rpc \in {"chr", "kind", "len", "copy", "clear"} => ~stale

\* In a session of one role the slot is a mailbox: each accepted message is
\* taken whole, once, or dropped by a new session; the piecewise writes and reads
\* are never seen mixed. (A dual session maps to a mailbox nobody uses.)
Mailbox == INSTANCE TxMailbox WITH
             Empty <- None,
             slot  <- IF sendReq /\ ~dual THEN cell ELSE None,
             taken <- IF dual THEN None ELSE taken

MailboxSpec == Mailbox!Spec

\* An accepted message leaves the slot if the link stays up: one that cannot be
\* sent is passed over and does not stop the loop.
AcceptedIsTaken == <>[]link => (sendReq ~> ~sendReq)
=============================================================================
