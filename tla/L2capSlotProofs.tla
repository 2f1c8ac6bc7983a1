-------------------------- MODULE L2capSlotProofs --------------------------
(***************************************************************************)
(* An L2CAP channel gets its own disconnects and its own SDUs only, for    *)
(* any number of callers; and with one caller the SDU slot, written and    *)
(* read piece by piece, is the mailbox TxMailbox.                          *)
(*                                                                         *)
(* The first part follows the two flags from the announcement of a channel *)
(* (ChannelInv); the second the copies on either side of the slot.         *)
(***************************************************************************)
EXTENDS L2capSlot, TLAPS

\* The places of the loop between the announcement of a channel and its end.
Serving == {"clearSend", "clearDisc", "disc", "check"} \cup Reads \cup Yields

\* While it serves a channel the application knows of it; once the flags were reset
\* whatever they say was said to this channel.
ChannelInv ==
  /\ rpc \in Serving => appOpen
  /\ rpc \in Serving \ {"clearSend", "clearDisc"} /\ discReq => ~discStale
  /\ rpc \in Serving \ {"clearSend"} /\ sendReq => ~stale

\* Callers that keep out of the opening of a channel find the slot as it was.
OpeningInv ==
  /\ rpc \in {"clearSend", "clearDisc"} => \A p \in Callers : pc[p] = "idle"
  /\ rpc = "clearSend" => stale

LEMMA ChannelSteps ==
  ASSUME ChannelInv, [Next]_vars
  PROVE  ChannelInv'
<1> USE DEF ChannelInv, Serving, Reads, Yields, channel, callers, history, setup, LoopStep
<1>1. ASSUME NEW p \in Callers, Send(p) PROVE ChannelInv'
  <2>1. CASE SendCheck(p) \/ SendCopy(p) \/ SendLen(p)
    BY <2>1 DEF SendCheck, SendCopy, SendLen
  <2>2. CASE SendRaise(p)
    <3>1. appOpen => ~stale'
      BY <2>2, Zenon DEF SendRaise
    <3>2. QED
      BY <2>2, <3>1 DEF SendRaise
  <2>3. QED
    BY <1>1, <2>1, <2>2 DEF Send
<1>2. CASE EchoSend \/ AskDisconnect
  <2>1. AskDisconnect /\ appOpen => ~discStale'
    BY Zenon DEF AskDisconnect
  <2>2. QED
    BY <1>2, <2>1 DEF EchoSend, AskDisconnect
<1>3. CASE ClearSend \/ ClearDisc \/ PumpDisc \/ PumpCheck
  BY <1>3 DEF ClearSend, ClearDisc, PumpDisc, PumpCheck
<1>4. CASE PumpLen \/ PumpCopy \/ PumpClear \/ PumpSend \/ PumpSleep
  BY <1>4 DEF PumpLen, PumpCopy, PumpClear, PumpSend, PumpSleep
<1>5. CASE RecvEnds \/ LinkEnds \/ PeerCloses \/ LinkLost
  BY <1>5 DEF RecvEnds, LinkEnds, PeerCloses, LinkLost
<1>6. CASE Connect \/ Announce \/ CreateFails
  BY <1>6 DEF Connect, Announce, CreateFails
<1>7. CASE UNCHANGED vars
  BY <1>7 DEF vars
<1>8. QED
  BY <1>1, <1>2, <1>3, <1>4, <1>5, <1>6, <1>7 DEF Next, Pump

LEMMA ChannelHolds == Spec => []ChannelInv
<1>1. Init => ChannelInv
  BY DEF Init, ChannelInv, Serving, Reads, Yields
<1>2. QED
  BY <1>1, ChannelSteps, PTL DEF Spec

LEMMA OpeningSteps ==
  ASSUME OpeningInv, ~Eager, [Next]_vars
  PROVE  OpeningInv'
<1> USE DEF OpeningInv, Reads, Yields, channel, callers, history, setup, LoopStep, CallerStep
<1>1. ASSUME NEW p \in Callers, Send(p) PROVE OpeningInv'
  BY <1>1 DEF Send, SendCheck, SendCopy, SendLen, SendRaise
<1>2. CASE EchoSend \/ AskDisconnect
  BY <1>2 DEF EchoSend, AskDisconnect
<1>3. CASE ClearSend \/ ClearDisc \/ PumpDisc \/ PumpCheck
  BY <1>3 DEF ClearSend, ClearDisc, PumpDisc, PumpCheck
<1>4. CASE PumpLen \/ PumpCopy \/ PumpClear \/ PumpSend \/ PumpSleep
  BY <1>4 DEF PumpLen, PumpCopy, PumpClear, PumpSend, PumpSleep
<1>5. CASE RecvEnds \/ LinkEnds \/ PeerCloses \/ LinkLost
  BY <1>5 DEF RecvEnds, LinkEnds, PeerCloses, LinkLost
<1>6. CASE Connect \/ Announce \/ CreateFails
  BY <1>6 DEF Connect, Announce, CreateFails
<1>7. CASE UNCHANGED vars
  BY <1>7 DEF vars
<1>8. QED
  BY <1>1, <1>2, <1>3, <1>4, <1>5, <1>6, <1>7 DEF Next, Pump

LEMMA OpeningHolds ==
  ASSUME ~Eager
  PROVE  Spec => []OpeningInv
<1>1. Init => OpeningInv
  BY DEF Init, OpeningInv
<1>2. OpeningInv /\ [Next]_vars => OpeningInv'
  BY OpeningSteps
<1>3. QED
  BY <1>1, <1>2, PTL DEF Spec

\* A disconnect asked for before a channel was announced never closes it
\* (l2cap_serve, radio.rs), whenever and by whomever it was asked for.
THEOREM NoStray == Spec => NoStrayDisconnect
<1> DEFINE Step == open /\ ~open' /\ rpc = "disc" => ~discStale
<1>1. ChannelInv /\ [Next]_vars => [Step]_vars
  <2> SUFFICES ASSUME ChannelInv, Next, open, ~open', rpc = "disc" PROVE ~discStale
    OBVIOUS
  <2> USE DEF channel, callers, history, setup, LoopStep, Reads, Yields
  <2>1. ~\E p \in Callers : Send(p)
    BY DEF Send, SendCheck, SendCopy, SendLen, SendRaise
  <2>2. ~(EchoSend \/ AskDisconnect \/ ClearSend \/ ClearDisc \/ PumpCheck)
    BY DEF EchoSend, AskDisconnect, ClearSend, ClearDisc, PumpCheck
  <2>3. ~(PumpLen \/ PumpCopy \/ PumpClear \/ PumpSend \/ PumpSleep)
    BY DEF PumpLen, PumpCopy, PumpClear, PumpSend, PumpSleep
  <2>4. ~(RecvEnds \/ LinkEnds \/ PeerCloses \/ LinkLost \/ Connect \/ Announce \/ CreateFails)
    BY DEF RecvEnds, LinkEnds, PeerCloses, LinkLost, Connect, Announce, CreateFails
  <2>5. PumpDisc
    BY <2>1, <2>2, <2>3, <2>4 DEF Next, Pump
  <2>6. QED
    BY <2>5 DEF PumpDisc, ChannelInv, Serving
<1>2. QED
  BY <1>1, ChannelHolds, PTL DEF Spec, NoStrayDisconnect

\* An SDU accepted on an announced channel leaves the slot to be sent there or with
\* the channel, and no other is sent on it (l2cap_serve, radio.rs), as long as callers
\* keep out of the opening of a channel.
THEOREM SentOnOwn ==
  ASSUME ~Eager
  PROVE  Spec => SentOnOwnChannel
<1> DEFINE sent == taken' = reg /\ rpc' = "send"
           Step == sendReq /\ ~sendReq' => IF stale THEN ~sent ELSE sent \/ ~open'
<1>1. ChannelInv /\ OpeningInv /\ [Next]_vars => [Step]_vars
  <2> SUFFICES ASSUME ChannelInv, OpeningInv, Next, sendReq, ~sendReq'
               PROVE  IF stale THEN ~sent ELSE sent \/ ~open'
    OBVIOUS
  <2> USE DEF channel, callers, history, setup, LoopStep, Reads, Yields
  <2>1. ~\E p \in Callers : Send(p)
    BY DEF Send, SendCheck, SendCopy, SendLen, SendRaise
  <2>2. ~(EchoSend \/ AskDisconnect \/ ClearDisc \/ PumpCheck)
    BY DEF EchoSend, AskDisconnect, ClearDisc, PumpCheck
  <2>3. ~(PumpLen \/ PumpCopy \/ PumpSend \/ PumpSleep)
    BY DEF PumpLen, PumpCopy, PumpSend, PumpSleep
  <2>4. ~(RecvEnds \/ LinkEnds \/ PeerCloses \/ LinkLost \/ Connect \/ Announce \/ CreateFails)
    BY DEF RecvEnds, LinkEnds, PeerCloses, LinkLost, Connect, Announce, CreateFails
  <2>5. CASE ClearSend
    BY <2>5 DEF ClearSend, OpeningInv
  <2>6. CASE PumpDisc
    BY <2>6 DEF PumpDisc
  <2>7. CASE PumpClear
    BY <2>7 DEF PumpClear, ChannelInv, Serving
  <2>8. QED
    BY <2>1, <2>2, <2>3, <2>4, <2>5, <2>6, <2>7 DEF Next, Pump
<1>2. QED
  BY <1>1, ChannelHolds, OpeningHolds, PTL DEF Spec, SentOnOwnChannel
-----------------------------------------------------------------------------
(***************************************************************************)
(* One caller: the slot is a mailbox.                                      *)
(***************************************************************************)
OneCaller == \A p, q \in Callers : p = q

\* What a caller has put into the cells so far.  A callback runs to its end, so that
\* a caller that is somewhere in its call is a thread.
CallerInv ==
  \A p \in Callers : pc[p] # "idle" =>
    /\ sender = "thread" /\ ~sendReq /\ arg[p] \in Sdus
    /\ pc[p] \in {"len", "raise"} => cell.data = arg[p].data
    /\ pc[p] = "raise" => cell.len = arg[p].len

\* What the pump has copied so far.
PumpInv ==
  /\ sendReq => cell \in Sdus
  /\ rpc \in Reads => sendReq
  /\ rpc \in {"copy", "clear"} => reg.len = Mailbox!Cut(cell).len
  /\ rpc = "clear" => reg.data = cell.data

Record(r) == r = [data |-> r.data, len |-> r.len]

SlotInv == TypeOK /\ CallerInv /\ PumpInv /\ Record(cell) /\ Record(reg)

\* What the pump hands over is a payload with a length that fits the buffer.
LEMMA CutFits ==
  ASSUME NEW m \in Sdus
  PROVE  /\ Mailbox!Cut(m) = [data |-> m.data, len |-> Mailbox!Cut(m).len]
         /\ Mailbox!Cut(m) \in [data : Data, len : 1 .. ValueLen]
         /\ Mailbox!Cut(m).len = IF m.len < ValueLen THEN m.len ELSE ValueLen
<1>1. m \in [data : Data, len : Nat \ {0}] /\ ValueLen \in Nat \ {0}
  BY SduAssumption
<1>2. QED
  BY <1>1 DEF Mailbox!Cut

LEMMA SendSteps ==
  ASSUME SlotInv, OneCaller, NEW p \in Callers, Send(p)
  PROVE  SlotInv'
<1> USE DEF channel, callers, history, setup, CallerStep, Reads, Yields, Record
<1>1. \A q \in Callers : q = p
  BY DEF OneCaller
<1>2. pc \in [Callers -> {"idle", "copy", "len", "raise"}] /\ arg \in [Callers -> Sdus \cup {NoSdu}]
  BY DEF SlotInv, TypeOK
<1>3. CASE SendCheck(p)
  <2>1. TypeOK'
    BY <1>2, <1>3 DEF SendCheck, SlotInv, TypeOK
  <2>2. CallerInv'
    BY <1>1, <1>2, <1>3 DEF SendCheck, CallerInv
  <2>3. QED
    BY <1>3, <2>1, <2>2 DEF SendCheck, SlotInv, PumpInv
<1>4. CASE SendCopy(p)
  <2>1. TypeOK'
    BY <1>2, <1>4 DEF SendCopy, SlotInv, TypeOK
  <2>2. ~sendReq /\ sender = "thread" /\ arg[p] \in Sdus
    BY <1>4 DEF SendCopy, SlotInv, CallerInv
  <2>3. cell' = [data |-> arg[p].data, len |-> cell.len]
    BY <1>4 DEF SendCopy, SlotInv
  <2>4. CallerInv'
    BY <1>1, <1>2, <1>4, <2>2, <2>3 DEF SendCopy, CallerInv
  <2>5. QED
    BY <1>4, <2>1, <2>2, <2>3, <2>4 DEF SendCopy, SlotInv, PumpInv
<1>5. CASE SendLen(p)
  <2>1. TypeOK'
    BY <1>2, <1>5 DEF SendLen, SlotInv, TypeOK
  <2>2. ~sendReq /\ sender = "thread" /\ arg[p] \in Sdus /\ cell.data = arg[p].data
    BY <1>5 DEF SendLen, SlotInv, CallerInv
  <2>3. cell' = [data |-> cell.data, len |-> arg[p].len]
    BY <1>5 DEF SendLen, SlotInv
  <2>4. CallerInv'
    BY <1>1, <1>2, <1>5, <2>2, <2>3 DEF SendLen, CallerInv
  <2>5. QED
    BY <1>5, <2>1, <2>2, <2>3, <2>4 DEF SendLen, SlotInv, PumpInv
<1>6. CASE SendRaise(p)
  <2>1. TypeOK'
    BY <1>2, <1>6 DEF SendRaise, SlotInv, TypeOK
  <2>2. /\ ~sendReq /\ sender = "thread" /\ arg[p] \in Sdus
        /\ cell.data = arg[p].data /\ cell.len = arg[p].len
    BY <1>6 DEF SendRaise, SlotInv, CallerInv
  <2>3. arg[p] = [data |-> arg[p].data, len |-> arg[p].len]
    BY <2>2, SduAssumption
  <2>4. cell \in Sdus
    BY <2>2, <2>3 DEF SlotInv
  <2>5. CallerInv'
    BY <1>1, <1>2, <1>6 DEF SendRaise, CallerInv
  <2>6. QED
    BY <1>6, <2>1, <2>2, <2>4, <2>5 DEF SendRaise, SlotInv, PumpInv
<1>7. QED
  BY <1>3, <1>4, <1>5, <1>6 DEF Send

LEMMA EchoSteps ==
  ASSUME SlotInv, EchoSend \/ AskDisconnect
  PROVE  SlotInv'
<1> USE DEF channel, callers, history, setup, Reads, Yields, Record
<1>1. CASE EchoSend
  <2>1. TypeOK'
    BY <1>1 DEF EchoSend, SlotInv, TypeOK
  <2>2. \A p \in Callers : pc[p] = "idle"
    BY <1>1 DEF EchoSend, SlotInv, CallerInv
  <2>3. cell' = [data |-> cell'.data, len |-> cell'.len]
    BY <1>1, SduAssumption DEF EchoSend
  <2>4. QED
    BY <1>1, <2>1, <2>2, <2>3 DEF EchoSend, SlotInv, CallerInv, PumpInv
<1>2. CASE AskDisconnect
  <2>1. TypeOK'
    BY <1>2 DEF AskDisconnect, SlotInv, TypeOK
  <2>2. QED
    BY <1>2, <2>1 DEF AskDisconnect, SlotInv, CallerInv, PumpInv
<1>3. QED
  BY <1>1, <1>2

\* Steps that leave the cells and the copies alone, do not raise the flag and do not
\* start to read.
LEMMA CopiesKept ==
  ASSUME SlotInv, TypeOK', UNCHANGED <<reg, cell, pc, arg, sender>>,
         sendReq' = sendReq \/ ~sendReq', rpc' \notin Reads
  PROVE  SlotInv'
<1>1. sendReq' => sendReq
  OBVIOUS
<1>2. CallerInv' /\ PumpInv'
  BY <1>1 DEF SlotInv, CallerInv, PumpInv, Reads
<1>3. QED
  BY <1>2 DEF SlotInv, Record

LEMMA PumpSteps ==
  ASSUME SlotInv, Pump \/ PumpSend
  PROVE  SlotInv'
<1> USE DEF channel, callers, history, setup, Reads, Yields, Record, LoopStep
<1>1. CASE ClearSend \/ ClearDisc \/ PumpDisc \/ PumpSend \/ PumpSleep
  <2>1. TypeOK'
    <3>1. CASE ClearSend
      BY <3>1 DEF ClearSend, SlotInv, TypeOK
    <3>2. CASE ClearDisc
      BY <3>2 DEF ClearDisc, SlotInv, TypeOK
    <3>3. CASE PumpDisc
      BY <3>3 DEF PumpDisc, SlotInv, TypeOK
    <3>4. CASE PumpSend
      BY <3>4 DEF PumpSend, SlotInv, TypeOK
    <3>5. CASE PumpSleep
      BY <3>5 DEF PumpSleep, SlotInv, TypeOK
    <3>6. QED
      BY <1>1, <3>1, <3>2, <3>3, <3>4, <3>5
  <2>2. QED
    BY <1>1, <2>1, CopiesKept DEF ClearSend, ClearDisc, PumpDisc, PumpSend, PumpSleep
<1>2. CASE RecvEnds \/ LinkEnds
  <2>1. TypeOK'
    <3>1. CASE RecvEnds
      <4>1. acl' \in BOOLEAN
        BY <3>1, Zenon DEF RecvEnds
      <4>2. ~open /\ ~open'
        BY <3>1 DEF RecvEnds
      <4>3. QED
        BY <3>1, <4>1, <4>2 DEF RecvEnds, SlotInv, TypeOK
    <3>2. CASE LinkEnds
      BY <3>2 DEF LinkEnds, SlotInv, TypeOK
    <3>3. QED
      BY <1>2, <3>1, <3>2
  <2>2. QED
    BY <1>2, <2>1, CopiesKept DEF RecvEnds, LinkEnds
<1>3. CASE PumpCheck
  <2>1. TypeOK'
    BY <1>3 DEF PumpCheck, SlotInv, TypeOK
  <2>2. QED
    BY <1>3, <2>1 DEF PumpCheck, SlotInv, CallerInv, PumpInv
<1>4. CASE PumpLen
  <2>1. TypeOK'
    BY <1>4 DEF PumpLen, SlotInv, TypeOK
  <2>2. cell \in Sdus
    BY <1>4 DEF PumpLen, SlotInv, PumpInv
  <2>3. reg' = [data |-> reg.data, len |-> Mailbox!Cut(cell).len]
    BY <1>4, <2>2, CutFits DEF PumpLen, SlotInv
  <2>4. QED
    BY <1>4, <2>1, <2>3 DEF PumpLen, SlotInv, CallerInv, PumpInv
<1>5. CASE PumpCopy
  <2>1. TypeOK'
    BY <1>5 DEF PumpCopy, SlotInv, TypeOK
  <2>2. reg' = [data |-> cell.data, len |-> reg.len]
    BY <1>5 DEF PumpCopy, SlotInv
  <2>3. QED
    BY <1>5, <2>1, <2>2 DEF PumpCopy, SlotInv, CallerInv, PumpInv
<1>6. CASE PumpClear
  <2>1. cell \in Sdus /\ reg = Mailbox!Cut(cell)
    BY <1>6, CutFits DEF PumpClear, SlotInv, PumpInv
  <2>2. TypeOK'
    BY <1>6, <2>1, CutFits DEF PumpClear, SlotInv, TypeOK
  <2>3. QED
    BY <1>6, <2>2, CopiesKept DEF PumpClear
<1>7. QED
  BY <1>1, <1>2, <1>3, <1>4, <1>5, <1>6 DEF Pump

LEMMA LinkSteps ==
  ASSUME SlotInv, Connect \/ Announce \/ CreateFails \/ PeerCloses \/ LinkLost
  PROVE  SlotInv'
<1> USE DEF channel, callers, history, setup, Reads, Yields, LoopStep
<1>1. TypeOK'
  <2>1. CASE Connect
    BY <2>1 DEF Connect, SlotInv, TypeOK
  <2>2. CASE Announce
    BY <2>2 DEF Announce, SlotInv, TypeOK
  <2>3. CASE CreateFails
    BY <2>3 DEF CreateFails, SlotInv, TypeOK
  <2>4. CASE PeerCloses
    BY <2>4 DEF PeerCloses, SlotInv, TypeOK
  <2>5. CASE LinkLost
    BY <2>5 DEF LinkLost, SlotInv, TypeOK
  <2>6. QED
    BY <2>1, <2>2, <2>3, <2>4, <2>5
<1>2. QED
  BY <1>1, CopiesKept DEF Connect, Announce, CreateFails, PeerCloses, LinkLost

LEMMA SlotHolds ==
  ASSUME OneCaller
  PROVE  Spec => []SlotInv
<1>1. Init => SlotInv
  BY DEF Init, SlotInv, TypeOK, CallerInv, PumpInv, Record, NoSdu, Reads, Yields
<1>2. SlotInv /\ [Next]_vars => SlotInv'
  <2> SUFFICES ASSUME SlotInv, [Next]_vars PROVE SlotInv'
    OBVIOUS
  <2>1. CASE UNCHANGED vars
    BY <2>1 DEF vars, SlotInv, TypeOK, CallerInv, PumpInv, Record
  <2>2. QED
    BY <2>1, SendSteps, EchoSteps, PumpSteps, LinkSteps DEF Next
<1>3. QED
  BY <1>1, <1>2, PTL DEF Spec

\* The flags, the places and the copies keep their types; above all the SDU handed to
\* the channel never exceeds the local buffer of VALUE_LEN bytes (radio.rs).
THEOREM TypeCorrect ==
  ASSUME OneCaller
  PROVE  Spec => []TypeOK
<1>1. SlotInv => TypeOK
  BY DEF SlotInv
<1>2. QED
  BY <1>1, SlotHolds, PTL

\* One caller's SDU is taken whole, cut to VALUE_LEN at most, once, or dropped with its
\* channel: the piecewise cells of runtime_ble_l2cap_send (lib.rs) and l2cap_serve
\* (radio.rs) are a mailbox.
THEOREM SlotIsMailbox ==
  ASSUME OneCaller
  PROVE  Spec => MailboxSpec
<1> DEFINE slot == IF sendReq THEN cell ELSE None
<1>1. Init => Mailbox!Init
  BY DEF Init, Mailbox!Init
<1>2. SlotInv /\ [Next]_vars => [Mailbox!Next]_<<slot, taken>>
  <2> SUFFICES ASSUME SlotInv, [Next]_vars PROVE [Mailbox!Next]_<<slot, taken>>
    OBVIOUS
  <2> USE SduAssumption
      DEF channel, callers, history, setup, CallerStep, LoopStep, Reads, Yields
  <2>1. ASSUME NEW p \in Callers, SendCheck(p) \/ SendCopy(p) \/ SendLen(p)
        PROVE  UNCHANGED <<slot, taken>>
    BY <2>1 DEF SendCheck, SendCopy, SendLen, SlotInv, CallerInv
  <2>2. ASSUME NEW p \in Callers, SendRaise(p) PROVE Mailbox!Accept
    <3>1. ~sendReq /\ sendReq' /\ UNCHANGED <<cell, taken>>
      BY <2>2 DEF SendRaise, SlotInv, CallerInv
    <3>2. arg[p] \in Sdus /\ cell = [data |-> arg[p].data, len |-> arg[p].len]
      BY <2>2 DEF SendRaise, SlotInv, CallerInv, Record
    <3>3. cell \in Sdus
      BY <3>2
    <3>4. QED
      BY <3>1, <3>3 DEF Mailbox!Accept
  <2>3. CASE EchoSend
    BY <2>3 DEF EchoSend, Mailbox!Next, Mailbox!Accept
  <2>4. CASE ClearSend
    BY <2>4 DEF ClearSend, SlotInv, PumpInv, Mailbox!Next, Mailbox!Drop
  <2>5. CASE PumpDisc
    BY <2>5 DEF PumpDisc, SlotInv, PumpInv, Mailbox!Next, Mailbox!Drop
  <2>6. CASE PumpClear
    <3>1. sendReq /\ cell \in Sdus /\ reg = Mailbox!Cut(cell)
      BY <2>6, CutFits DEF PumpClear, SlotInv, PumpInv, Record
    <3>2. ~sendReq' /\ taken' = reg
      BY <2>6 DEF PumpClear
    <3>3. QED
      BY <3>1, <3>2 DEF Mailbox!Next, Mailbox!Take
  <2>7. CASE AskDisconnect \/ ClearDisc \/ PumpCheck \/ PumpLen \/ PumpCopy \/ PumpSend \/ PumpSleep
    BY <2>7 DEF AskDisconnect, ClearDisc, PumpCheck, PumpLen, PumpCopy, PumpSend, PumpSleep
  <2>8. CASE RecvEnds \/ LinkEnds \/ Connect \/ Announce \/ CreateFails \/ PeerCloses \/ LinkLost
    BY <2>8 DEF RecvEnds, LinkEnds, Connect, Announce, CreateFails, PeerCloses, LinkLost
  <2>9. CASE UNCHANGED vars
    BY <2>9 DEF vars
  <2>10. QED
    BY <2>1, <2>2, <2>3, <2>4, <2>5, <2>6, <2>7, <2>8, <2>9 DEF Next, Send, Pump, Mailbox!Next
<1>3. QED
  BY <1>1, <1>2, SlotHolds, PTL DEF Spec, MailboxSpec, Mailbox!Spec
=============================================================================
