---------------------------- MODULE TxSlotProofs ----------------------------
(***************************************************************************)
(* Proofs about TxSlot.  With at most one calling thread, in a session of  *)
(* one role, the piecewise written and piecewise read cells behave as the  *)
(* mailbox TxMailbox.  The inductive invariant SlotInv says which fields   *)
(* the caller has already written, and which of its copies the transmit    *)
(* loop has already made, at each of their places; in the dual role only   *)
(* what it says of SEND_REQ remains, since a client write may come between.*)
(***************************************************************************)
EXTENDS TxSlot, TLAPS

OneCaller == \A p, q \in Producers : p = q

\* What a caller in queue_tx has put into the cells so far.
CallerInv ==
  \A p \in Producers : pc[p] # "idle" =>
    /\ ~sendReq /\ arg[p] \in Msgs
    /\ ~dual =>
         /\ pc[p] \in {"chr", "kind", "len", "raise"} => cell.data = arg[p].data
         /\ pc[p] \in {"kind", "len", "raise"} => cell.chr = arg[p].chr
         /\ pc[p] \in {"len", "raise"} => cell.kind = arg[p].kind
         /\ pc[p] = "raise" => cell.len = arg[p].len

Reading == {"chr", "kind", "len", "copy", "clear"}

\* What the transmit loop has copied so far.
LoopInv ==
  /\ rpc \in Reading => sendReq
  /\ ~dual =>
       /\ sendReq => cell \in Msgs
       /\ rpc \in {"kind", "len", "copy", "clear"} => reg.chr = cell.chr
       /\ rpc \in {"len", "copy", "clear"} => reg.kind = cell.kind
       /\ rpc \in {"copy", "clear"} => reg.len = Mailbox!Cut(cell).len
       /\ rpc = "clear" => reg.data = cell.data

\* A raised message belongs to the session that runs.
SessionInv ==
  /\ ~up => rpc = "off"
  /\ up /\ sendReq => ~stale

SlotInv == TypeOK /\ CallerInv /\ LoopInv /\ SessionInv
-----------------------------------------------------------------------------
(***************************************************************************)
(* Type correctness, with the bound on the local copy: reg.len never       *)
(* exceeds VALUE_LEN, so txbuf[..len] is in range (radio.rs:3191-3203).    *)
(***************************************************************************)
LEMMA InitType == Init => TypeOK
<1>1. Init => FlagsOK
  BY Zenon DEF Init, FlagsOK
<1>2. Init => ValuesOK
  BY MsgAssumption DEF Init, ValuesOK, NoCell, Cell, Kinds
<1> QED
  BY <1>1, <1>2 DEF TypeOK

\* The role is fixed.
LEMMA RoleFixed == ASSUME [Next]_vars PROVE dual' = dual
<1>1. ASSUME NEW p \in Producers, QueueTx(p) \/ CentralWrite(p) PROVE dual' = dual
  BY <1>1 DEF QueueTx, QueueCheck, QueueCopy, QueueChr, QueueKind, QueueLen,
              QueueRaise, CentralWrite
<1>2. CASE Transmit
  BY <1>2 DEF Transmit, TxCheck, TxChr, TxKind, TxLen, TxCopy, TxClear, TxSend,
              TxSleep
<1>3. CASE ClientWrite
  BY <1>3 DEF ClientWrite
<1>4. CASE Session
  BY <1>4 DEF Session, Connect, Disconnect, SessionStart, SessionEnd
<1> QED
  BY <1>1, <1>2, <1>3, <1>4 DEF Next, vars

LEMMA StepType == ASSUME TypeOK, [Next]_vars PROVE TypeOK'
<1> USE MsgAssumption DEF TypeOK, ValuesOK, Cell, Kinds, CallerStep, LoopStep
<1> USE DEF callers, linkVars, txVars
<1>1. ASSUME NEW p \in Producers, QueueCheck(p) PROVE TypeOK'
  <2>1. FlagsOK'
    BY <1>1, Zenon DEF QueueCheck, FlagsOK
  <2>2. ValuesOK'
    BY <1>1 DEF QueueCheck
  <2> QED
    BY <2>1, <2>2
<1>2. ASSUME NEW p \in Producers, QueueCopy(p) PROVE TypeOK'
  <2>1. FlagsOK'
    BY <1>2, Zenon DEF QueueCopy, FlagsOK
  <2>2. ValuesOK'
    BY <1>2 DEF QueueCopy
  <2> QED
    BY <2>1, <2>2
<1>3. ASSUME NEW p \in Producers, QueueChr(p) PROVE TypeOK'
  <2>1. FlagsOK'
    BY <1>3, Zenon DEF QueueChr, FlagsOK
  <2>2. ValuesOK'
    BY <1>3 DEF QueueChr
  <2> QED
    BY <2>1, <2>2
<1>4. ASSUME NEW p \in Producers, QueueKind(p) PROVE TypeOK'
  <2>1. FlagsOK'
    BY <1>4, Zenon DEF QueueKind, FlagsOK
  <2>2. ValuesOK'
    BY <1>4 DEF QueueKind
  <2> QED
    BY <2>1, <2>2
<1>5. ASSUME NEW p \in Producers, QueueLen(p) PROVE TypeOK'
  <2>1. FlagsOK'
    BY <1>5, Zenon DEF QueueLen, FlagsOK
  <2>2. ValuesOK'
    BY <1>5 DEF QueueLen
  <2> QED
    BY <2>1, <2>2
<1>6. ASSUME NEW p \in Producers, QueueRaise(p) PROVE TypeOK'
  <2>1. FlagsOK'
    BY <1>6, Zenon DEF QueueRaise, FlagsOK
  <2>2. ValuesOK'
    BY <1>6 DEF QueueRaise
  <2> QED
    BY <2>1, <2>2
<1>7. ASSUME NEW p \in Producers, CentralWrite(p) PROVE TypeOK'
  <2>1. FlagsOK'
    BY <1>7, Zenon DEF CentralWrite, FlagsOK
  <2>2. cell' \in Cell
    BY <1>7 DEF CentralWrite
  <2>3. UNCHANGED <<pc, arg, rpc, reg, taken>>
    BY <1>7, Zenon DEF CentralWrite
  <2>4. ValuesOK'
    BY <2>2, <2>3
  <2> QED
    BY <2>1, <2>4
<1>8. CASE TxCheck
  <2>1. FlagsOK'
    BY <1>8, Zenon DEF TxCheck, FlagsOK
  <2>2. ValuesOK'
    BY <1>8 DEF TxCheck
  <2> QED
    BY <2>1, <2>2
<1>9. CASE TxChr
  <2>1. FlagsOK'
    BY <1>9, Zenon DEF TxChr, FlagsOK
  <2>2. ValuesOK'
    BY <1>9 DEF TxChr
  <2> QED
    BY <2>1, <2>2
<1>10. CASE TxKind
  <2>1. FlagsOK'
    BY <1>10, Zenon DEF TxKind, FlagsOK
  <2>2. ValuesOK'
    BY <1>10 DEF TxKind
  <2> QED
    BY <2>1, <2>2
<1>11. CASE TxLen
  <2>1. FlagsOK'
    BY <1>11, Zenon DEF TxLen, FlagsOK
  <2>2. ValuesOK'
    BY <1>11 DEF TxLen
  <2> QED
    BY <2>1, <2>2
<1>12. CASE TxCopy
  <2>1. FlagsOK'
    BY <1>12, Zenon DEF TxCopy, FlagsOK
  <2>2. ValuesOK'
    BY <1>12 DEF TxCopy
  <2> QED
    BY <2>1, <2>2
<1>13. CASE TxClear
  <2>1. FlagsOK'
    BY <1>13, Zenon DEF TxClear, FlagsOK
  <2>2. ValuesOK'
    BY <1>13 DEF TxClear
  <2> QED
    BY <2>1, <2>2
<1>14. CASE TxSend
  <2>1. FlagsOK'
    BY <1>14, Zenon DEF TxSend, FlagsOK
  <2>2. ValuesOK'
    BY <1>14 DEF TxSend
  <2> QED
    BY <2>1, <2>2
<1>15. CASE TxSleep
  <2>1. FlagsOK'
    BY <1>15, Zenon DEF TxSleep, FlagsOK
  <2>2. ValuesOK'
    BY <1>15 DEF TxSleep
  <2> QED
    BY <2>1, <2>2
<1>16. CASE ClientWrite
  <2>1. FlagsOK'
    BY <1>16, Zenon DEF ClientWrite, FlagsOK
  <2>2. ValuesOK'
    BY <1>16 DEF ClientWrite
  <2> QED
    BY <2>1, <2>2
<1>17. CASE Connect
  <2>1. FlagsOK'
    BY <1>17, Zenon DEF Connect, FlagsOK
  <2>2. ValuesOK'
    BY <1>17 DEF Connect
  <2> QED
    BY <2>1, <2>2
<1>18. CASE Disconnect
  <2>1. FlagsOK'
    BY <1>18, Zenon DEF Disconnect, FlagsOK
  <2>2. ValuesOK'
    BY <1>18 DEF Disconnect
  <2> QED
    BY <2>1, <2>2
<1>19. CASE SessionStart
  <2>1. FlagsOK'
    BY <1>19, Zenon DEF SessionStart, FlagsOK
  <2>2. ValuesOK'
    BY <1>19 DEF SessionStart
  <2> QED
    BY <2>1, <2>2
<1>20. CASE SessionEnd
  <2>1. FlagsOK'
    BY <1>20, Zenon DEF SessionEnd, FlagsOK
  <2>2. ValuesOK'
    BY <1>20 DEF SessionEnd
  <2> QED
    BY <2>1, <2>2
<1>21. CASE UNCHANGED vars
  BY <1>21 DEF vars, FlagsOK
<1> QED
  BY <1>1, <1>2, <1>3, <1>4, <1>5, <1>6, <1>7, <1>8, <1>9, <1>10, <1>11, <1>12, <1>13, <1>14, <1>15, <1>16, <1>17, <1>18, <1>19, <1>20, <1>21
     DEF Next, QueueTx, Transmit, Session

THEOREM TypeCorrect == Spec => []TypeOK
  BY InitType, StepType, PTL DEF Spec

(***************************************************************************)
(* SlotInv is inductive for one calling thread.              *)
(***************************************************************************)
LEMMA InitSlot == Init => SlotInv
  BY InitType, MsgAssumption
     DEF Init, SlotInv, CallerInv, LoopInv, SessionInv, Reading, NoCell

LEMMA StepSlot ==
  ASSUME OneCaller, SlotInv, [Next]_vars, TypeOK'
  PROVE  SlotInv'
<1> USE MsgAssumption DEF SlotInv, TypeOK, FlagsOK, ValuesOK, Cell, Kinds, CallerStep, LoopStep
<1> USE DEF callers, linkVars, txVars, Reading, Mailbox!Cut
<1>1. ASSUME NEW p \in Producers, QueueCheck(p) PROVE SlotInv'
  <2>1. CallerInv'
    BY <1>1 DEF QueueCheck, OneCaller, CallerInv, LoopInv
  <2>2. LoopInv'
    BY <1>1 DEF QueueCheck, CallerInv, LoopInv, SessionInv
  <2>3. SessionInv'
    BY <1>1 DEF QueueCheck, LoopInv, SessionInv
  <2> QED
    BY <2>1, <2>2, <2>3
<1>2. ASSUME NEW p \in Producers, QueueCopy(p) PROVE SlotInv'
  <2>1. CallerInv'
    BY <1>2 DEF QueueCopy, OneCaller, CallerInv, LoopInv
  <2>2. LoopInv'
    BY <1>2 DEF QueueCopy, CallerInv, LoopInv, SessionInv
  <2>3. SessionInv'
    BY <1>2 DEF QueueCopy, LoopInv, SessionInv
  <2> QED
    BY <2>1, <2>2, <2>3
<1>3. ASSUME NEW p \in Producers, QueueChr(p) PROVE SlotInv'
  <2>1. CallerInv'
    BY <1>3 DEF QueueChr, OneCaller, CallerInv, LoopInv
  <2>2. LoopInv'
    BY <1>3 DEF QueueChr, CallerInv, LoopInv, SessionInv
  <2>3. SessionInv'
    BY <1>3 DEF QueueChr, LoopInv, SessionInv
  <2> QED
    BY <2>1, <2>2, <2>3
<1>4. ASSUME NEW p \in Producers, QueueKind(p) PROVE SlotInv'
  <2>1. CallerInv'
    BY <1>4 DEF QueueKind, OneCaller, CallerInv, LoopInv
  <2>2. LoopInv'
    BY <1>4 DEF QueueKind, CallerInv, LoopInv, SessionInv
  <2>3. SessionInv'
    BY <1>4 DEF QueueKind, LoopInv, SessionInv
  <2> QED
    BY <2>1, <2>2, <2>3
<1>5. ASSUME NEW p \in Producers, QueueLen(p) PROVE SlotInv'
  <2>1. CallerInv'
    BY <1>5 DEF QueueLen, OneCaller, CallerInv, LoopInv
  <2>2. LoopInv'
    BY <1>5 DEF QueueLen, CallerInv, LoopInv, SessionInv
  <2>3. SessionInv'
    BY <1>5 DEF QueueLen, LoopInv, SessionInv
  <2> QED
    BY <2>1, <2>2, <2>3
<1>6. ASSUME NEW p \in Producers, QueueRaise(p) PROVE SlotInv'
  <2>1. CallerInv'
    BY <1>6 DEF QueueRaise, OneCaller, CallerInv, LoopInv
  <2>2. LoopInv'
    BY <1>6 DEF QueueRaise, CallerInv, LoopInv, SessionInv
  <2>3. SessionInv'
    BY <1>6 DEF QueueRaise, LoopInv, SessionInv
  <2> QED
    BY <2>1, <2>2, <2>3
<1>7. ASSUME NEW p \in Producers, CentralWrite(p) PROVE SlotInv'
  <2>1. CallerInv'
    BY <1>7 DEF CentralWrite, CallerInv
  <2>2. LoopInv'
    BY <1>7 DEF CentralWrite, LoopInv
  <2>3. SessionInv'
    BY <1>7 DEF CentralWrite, SessionInv
  <2> QED
    BY <2>1, <2>2, <2>3
<1>8. CASE TxCheck
  <2>1. CallerInv'
    BY <1>8 DEF TxCheck, CallerInv, LoopInv
  <2>2. LoopInv'
    BY <1>8 DEF TxCheck, CallerInv, LoopInv, SessionInv
  <2>3. SessionInv'
    BY <1>8 DEF TxCheck, LoopInv, SessionInv
  <2> QED
    BY <2>1, <2>2, <2>3
<1>9. CASE TxChr
  <2>1. CallerInv'
    BY <1>9 DEF TxChr, CallerInv, LoopInv
  <2>2. LoopInv'
    BY <1>9 DEF TxChr, CallerInv, LoopInv, SessionInv
  <2>3. SessionInv'
    BY <1>9 DEF TxChr, LoopInv, SessionInv
  <2> QED
    BY <2>1, <2>2, <2>3
<1>10. CASE TxKind
  <2>1. CallerInv'
    BY <1>10 DEF TxKind, CallerInv, LoopInv
  <2>2. LoopInv'
    BY <1>10 DEF TxKind, CallerInv, LoopInv, SessionInv
  <2>3. SessionInv'
    BY <1>10 DEF TxKind, LoopInv, SessionInv
  <2> QED
    BY <2>1, <2>2, <2>3
<1>11. CASE TxLen
  <2>1. CallerInv'
    BY <1>11 DEF TxLen, CallerInv, LoopInv
  <2>2. LoopInv'
    BY <1>11 DEF TxLen, CallerInv, LoopInv, SessionInv
  <2>3. SessionInv'
    BY <1>11 DEF TxLen, LoopInv, SessionInv
  <2> QED
    BY <2>1, <2>2, <2>3
<1>12. CASE TxCopy
  <2>1. CallerInv'
    BY <1>12 DEF TxCopy, CallerInv, LoopInv
  <2>2. LoopInv'
    BY <1>12 DEF TxCopy, CallerInv, LoopInv, SessionInv
  <2>3. SessionInv'
    BY <1>12 DEF TxCopy, LoopInv, SessionInv
  <2> QED
    BY <2>1, <2>2, <2>3
<1>13. CASE TxClear
  <2>1. CallerInv'
    BY <1>13 DEF TxClear, CallerInv, LoopInv
  <2>2. LoopInv'
    BY <1>13 DEF TxClear, CallerInv, LoopInv, SessionInv
  <2>3. SessionInv'
    BY <1>13 DEF TxClear, LoopInv, SessionInv
  <2> QED
    BY <2>1, <2>2, <2>3
<1>14. CASE TxSend
  <2>1. CallerInv'
    BY <1>14 DEF TxSend, CallerInv, LoopInv
  <2>2. LoopInv'
    BY <1>14 DEF TxSend, CallerInv, LoopInv, SessionInv
  <2>3. SessionInv'
    BY <1>14 DEF TxSend, LoopInv, SessionInv
  <2> QED
    BY <2>1, <2>2, <2>3
<1>15. CASE TxSleep
  <2>1. CallerInv'
    BY <1>15 DEF TxSleep, CallerInv, LoopInv
  <2>2. LoopInv'
    BY <1>15 DEF TxSleep, CallerInv, LoopInv, SessionInv
  <2>3. SessionInv'
    BY <1>15 DEF TxSleep, LoopInv, SessionInv
  <2> QED
    BY <2>1, <2>2, <2>3
<1>16. CASE ClientWrite
  <2>1. CallerInv'
    BY <1>16 DEF ClientWrite, CallerInv, LoopInv
  <2>2. LoopInv'
    BY <1>16 DEF ClientWrite, CallerInv, LoopInv, SessionInv
  <2>3. SessionInv'
    BY <1>16 DEF ClientWrite, LoopInv, SessionInv
  <2> QED
    BY <2>1, <2>2, <2>3
<1>17. CASE Connect
  <2>1. CallerInv'
    BY <1>17 DEF Connect, CallerInv, LoopInv
  <2>2. LoopInv'
    BY <1>17 DEF Connect, CallerInv, LoopInv, SessionInv
  <2>3. SessionInv'
    BY <1>17 DEF Connect, LoopInv, SessionInv
  <2> QED
    BY <2>1, <2>2, <2>3
<1>18. CASE Disconnect
  <2>1. CallerInv'
    BY <1>18 DEF Disconnect, CallerInv, LoopInv
  <2>2. LoopInv'
    BY <1>18 DEF Disconnect, CallerInv, LoopInv, SessionInv
  <2>3. SessionInv'
    BY <1>18 DEF Disconnect, LoopInv, SessionInv
  <2> QED
    BY <2>1, <2>2, <2>3
<1>19. CASE SessionStart
  <2>1. CallerInv'
    BY <1>19 DEF SessionStart, CallerInv, LoopInv
  <2>2. LoopInv'
    BY <1>19 DEF SessionStart, CallerInv, LoopInv, SessionInv
  <2>3. SessionInv'
    BY <1>19 DEF SessionStart, LoopInv, SessionInv
  <2> QED
    BY <2>1, <2>2, <2>3
<1>20. CASE SessionEnd
  <2>1. CallerInv'
    BY <1>20 DEF SessionEnd, CallerInv, LoopInv
  <2>2. LoopInv'
    BY <1>20 DEF SessionEnd, CallerInv, LoopInv, SessionInv
  <2>3. SessionInv'
    BY <1>20 DEF SessionEnd, LoopInv, SessionInv
  <2> QED
    BY <2>1, <2>2, <2>3
<1>21. CASE UNCHANGED vars
  BY <1>21 DEF vars, CallerInv, LoopInv, SessionInv
<1> QED
  BY <1>1, <1>2, <1>3, <1>4, <1>5, <1>6, <1>7, <1>8, <1>9, <1>10, <1>11, <1>12, <1>13, <1>14, <1>15, <1>16, <1>17, <1>18, <1>19, <1>20, <1>21
     DEF Next, QueueTx, Transmit, Session

LEMMA Inductive == ASSUME OneCaller PROVE Spec => []SlotInv
<1>1. TypeOK' /\ SlotInv /\ [Next]_vars => SlotInv'
  BY StepSlot
<1> QED
  BY <1>1, InitSlot, TypeCorrect, PTL DEF Spec

(***************************************************************************)
(* The message behind a raised SEND_REQ is not overwritten: what one       *)
(* caller queued stays as it is until the transmit loop clears the flag.   *)
(***************************************************************************)
THEOREM NotOverwritten == ASSUME OneCaller PROVE Spec => NoOverwrite
<1> USE DEF callers, linkVars, txVars, CallerStep, LoopStep
<1>1. SlotInv /\ [Next]_vars => [~dual /\ sendReq /\ sendReq' => cell' = cell]_vars
  <2> SUFFICES ASSUME SlotInv, Next, ~dual, sendReq, sendReq' PROVE cell' = cell
    BY DEF vars
  <2>1. ASSUME NEW p \in Producers, QueueTx(p) PROVE cell' = cell
    <3>1. pc[p] = "idle"
      BY DEF SlotInv, CallerInv
    <3>2. QueueCheck(p)
      BY <2>1, <3>1 DEF QueueTx, QueueCopy, QueueChr, QueueKind, QueueLen, QueueRaise
    <3> QED
      BY <3>2 DEF QueueCheck
  <2>2. ASSUME NEW p \in Producers PROVE ~CentralWrite(p)
    BY DEF CentralWrite
  <2>3. CASE Transmit
    BY <2>3 DEF Transmit, TxCheck, TxChr, TxKind, TxLen, TxCopy, TxClear, TxSend,
                TxSleep
  <2>4. CASE ClientWrite
    BY <2>4 DEF ClientWrite
  <2>5. CASE Session
    BY <2>5 DEF Session, Connect, Disconnect, SessionStart, SessionEnd
  <2> QED
    BY <2>1, <2>2, <2>3, <2>4, <2>5 DEF Next
<1> QED
  BY <1>1, Inductive, PTL DEF Spec, NoOverwrite

(***************************************************************************)
(* The transmit loop picks up no message raised outside its own session:   *)
(* runtime_ble_run clears SEND_REQ first (lib.rs:1265).                    *)
(***************************************************************************)
THEOREM OwnSession == ASSUME OneCaller PROVE Spec => []SentInOwnSession
<1>1. SlotInv => SentInOwnSession
  BY DEF SlotInv, LoopInv, SessionInv, Reading, SentInOwnSession
<1> QED
  BY <1>1, Inductive, PTL

(***************************************************************************)
(* The detailed slot implements the mailbox: raising SEND_REQ accepts a    *)
(* whole message, clearing it in the transmit loop takes that message cut  *)
(* to VALUE_LEN, a new session may drop it, and every other step stutters. *)
(***************************************************************************)
THEOREM ImplementsMailbox == ASSUME OneCaller PROVE Spec => MailboxSpec
<1> DEFINE slot == IF sendReq /\ ~dual THEN cell ELSE None
<1> DEFINE took == IF dual THEN None ELSE taken
<1> USE DEF callers, linkVars, txVars, CallerStep, LoopStep
<1>1. Init => Mailbox!Init
  BY DEF Init, Mailbox!Init
<1>2. SlotInv /\ [Next]_vars => [Mailbox!Next]_<<slot, took>>
  <2>0. SlotInv /\ [Next]_vars /\ dual => UNCHANGED <<slot, took>>
    BY RoleFixed
  <2> SUFFICES ASSUME SlotInv, [Next]_vars, ~dual, ~dual'
               PROVE  Mailbox!Next \/ UNCHANGED <<slot, took>>
    BY <2>0, RoleFixed
  <2>1. cell \in Cell /\ reg \in Cell /\ cell # None
    BY MsgAssumption DEF SlotInv, TypeOK, ValuesOK
  <2>2. ASSUME NEW p \in Producers, QueueTx(p)
        PROVE  Mailbox!Next \/ UNCHANGED <<slot, took>>
    <3>1. CASE QueueRaise(p)
      <4>1. ~sendReq /\ arg[p] \in Msgs /\ cell = arg[p]
        BY <3>1, <2>1, MsgAssumption DEF QueueRaise, SlotInv, CallerInv, Cell
      <4> QED
        BY <4>1, <3>1 DEF QueueRaise, Mailbox!Next, Mailbox!Accept
    <3>2. CASE QueueCheck(p)
      BY <3>2 DEF QueueCheck
    <3>3. CASE QueueCopy(p) \/ QueueChr(p) \/ QueueKind(p) \/ QueueLen(p)
      <4>1. ~sendReq
        BY <3>3 DEF QueueCopy, QueueChr, QueueKind, QueueLen, SlotInv, CallerInv
      <4> QED
        BY <4>1, <3>3 DEF QueueCopy, QueueChr, QueueKind, QueueLen
    <3> QED
      BY <2>2, <3>1, <3>2, <3>3 DEF QueueTx
  <2>3. ASSUME NEW p \in Producers PROVE ~CentralWrite(p)
    BY DEF CentralWrite
  <2>4. CASE TxClear
    <3>1. sendReq /\ reg.chr = cell.chr /\ reg.kind = cell.kind
          /\ reg.len = Mailbox!Cut(cell).len /\ reg.data = cell.data
      BY <2>4 DEF TxClear, SlotInv, LoopInv, Reading
    <3>2. reg = Mailbox!Cut(cell)
      BY <2>1, <3>1 DEF Mailbox!Cut, Cell
    <3> QED
      BY <2>1, <2>4, <3>1, <3>2 DEF TxClear, Mailbox!Next, Mailbox!Take
  <2>5. CASE TxCheck \/ TxChr \/ TxKind \/ TxLen \/ TxCopy \/ TxSend \/ TxSleep
    BY <2>5 DEF TxCheck, TxChr, TxKind, TxLen, TxCopy, TxSend, TxSleep
  <2>6. CASE ClientWrite
    BY <2>6 DEF ClientWrite
  <2>7. CASE Connect \/ Disconnect \/ SessionEnd
    BY <2>7 DEF Connect, Disconnect, SessionEnd
  <2>8. CASE SessionStart
    BY <2>1, <2>8 DEF SessionStart, Mailbox!Next, Mailbox!Drop
  <2>9. CASE UNCHANGED vars
    BY <2>9 DEF vars
  <2> QED
    BY <2>2, <2>3, <2>4, <2>5, <2>6, <2>7, <2>8, <2>9 DEF Next, Transmit, Session
<1> QED
  BY <1>1, <1>2, Inductive, PTL DEF Spec, MailboxSpec, Mailbox!Spec

(***************************************************************************)
(* The mode chosen for a message is one its characteristic has, and an     *)
(* explicit indication stays one.                                          *)
(***************************************************************************)
LEMMA ModeFits ==
  ASSUME NEW m, Mode(m) # "dropped"
  PROVE  /\ Mode(m) \in PropsOf(Target(m.chr))
         /\ m.kind = "indicate" => Mode(m) = "indicate"
<1> DEFINE props == PropsOf(Target(m.chr))
<1>1. CASE m.kind = "indicate" /\ "indicate" \in props
  <2>1. Mode(m) = "indicate"
    BY <1>1 DEF Mode
  <2> QED
    BY <1>1, <2>1
<1>2. CASE m.kind = "auto" /\ "notify" \in props
  <2>1. Mode(m) = "notify"
    BY <1>2 DEF Mode
  <2> QED
    BY <1>2, <2>1
<1>3. CASE m.kind = "auto" /\ "notify" \notin props /\ props = {"indicate"}
  <2>1. Mode(m) = "indicate"
    BY <1>3 DEF Mode
  <2> QED
    BY <1>3, <2>1
<1>4. CASE /\ ~(m.kind = "indicate" /\ "indicate" \in props)
           /\ ~(m.kind = "auto" /\ "notify" \in props)
           /\ ~(m.kind = "auto" /\ props = {"indicate"})
  BY <1>4 DEF Mode
<1> QED
  BY <1>1, <1>2, <1>3, <1>4

(***************************************************************************)
(* What the transmit loop hands to the host leaves as its characteristic   *)
(* allows and as it was asked (radio.rs:3205-3216), for any callers, roles *)
(* and properties.                                                         *)
(***************************************************************************)
THEOREM LeavesAsAsked == Spec => []SentAsAsked
<1>1. Init => SentAsAsked
  BY DEF Init, SentAsAsked
<1>2. SentAsAsked /\ [Next]_vars => SentAsAsked'
  <2> SUFFICES ASSUME SentAsAsked, [Next]_vars PROVE SentAsAsked'
    OBVIOUS
  <2> USE DEF callers, linkVars, txVars
  <2>1. CASE TxSend
    <3>1. CASE Mode(taken) = "dropped"
      BY <2>1, <3>1 DEF TxSend, SentAsAsked
    <3>2. CASE Mode(taken) # "dropped"
      <4>1. air' = [mode |-> Mode(taken), msg |-> taken]
        BY <2>1, <3>2 DEF TxSend
      <4>2. air'.mode = Mode(taken) /\ air'.msg = taken
        BY <4>1
      <4> QED
        BY <3>2, <4>2, ModeFits DEF SentAsAsked
    <3> QED
      BY <3>1, <3>2
  <2>2. CASE \E p \in Producers : QueueTx(p) \/ CentralWrite(p)
    <3>1. UNCHANGED air
      BY <2>2 DEF QueueTx, QueueCheck, QueueCopy, QueueChr, QueueKind, QueueLen, QueueRaise,
                  CentralWrite
    <3> QED
      BY <3>1 DEF SentAsAsked
  <2>3. CASE TxCheck \/ TxChr \/ TxKind \/ TxLen \/ TxCopy \/ TxClear \/ TxSleep
    <3>1. UNCHANGED air
      BY <2>3 DEF TxCheck, TxChr, TxKind, TxLen, TxCopy, TxClear, TxSleep
    <3> QED
      BY <3>1 DEF SentAsAsked
  <2>4. CASE ClientWrite \/ Session \/ UNCHANGED vars
    <3>1. UNCHANGED air
      BY <2>4 DEF ClientWrite, Session, Connect, Disconnect, SessionStart, SessionEnd, vars
    <3> QED
      BY <3>1 DEF SentAsAsked
  <2> QED
    BY <2>1, <2>2, <2>3, <2>4 DEF Next, Transmit
<1> QED
  BY <1>1, <1>2, PTL DEF Spec
=============================================================================
