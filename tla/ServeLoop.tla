------------------------------ MODULE ServeLoop ------------------------------
(***************************************************************************)
(* The peripheral side of a session (rust/src/radio.rs): serve, which      *)
(* advertises, hands a connection to connection_task and advertises again, *)
(* and connection_task's event loop, which answers what a central writes   *)
(* and reports it to the application.  GattTable says which attributes     *)
(* there are, AdvPayload whether there is something to advertise.          *)
(*                                                                         *)
(* A step ends where the future awaits.  There a link may be lost and a    *)
(* future dropped: by wait_unload beside the connection, by the one around *)
(* the whole session, and by the end of an L2CAP channel.  The host may    *)
(* refuse whatever it is asked.                                            *)
(***************************************************************************)
EXTENDS GattTable, AdvPayload

CONSTANTS
  Configs,   \* the configurations, see Config
  Values,    \* what a central writes
  Initial    \* what is in an attribute before

\* directed is "none", "low" or "high", for the duty; accept: there is a filter policy
\* and an address for it; l2cap: there is a PSM.
Config == [services : Seq(Seq([uuid : STRING, write : BOOLEAN, cccd : BOOLEAN, descs : Nat])),
           adv : [raw : Nat, man : Nat, uuid : Nat, sdata : Nat, appearance : BOOLEAN,
                  txPower : BOOLEAN, name : Nat, scan : Nat],
           ext : BOOLEAN, nonconnectable : BOOLEAN, directed : {"none", "low", "high"},
           periodic : BOOLEAN, accept : BOOLEAN, l2cap : BOOLEAN]

ASSUME ConfigAssumption == Configs \subseteq Config
ASSUME ValueAssumption == Initial \notin Values

\* usize::MAX is no index: a configuration counts services and their characteristics
\* in one byte each.
ASSUME IndexAssumption ==
  NoIndex \in Nat /\ \A c \in Configs : Len(Chars(c.services)) <= NoIndex

VARIABLES
  cfg,     \* the configuration, fixed for a behaviour
  pc,      \* where serve is; "off": no session; "idle": it has returned
  unload,  \* UNLOAD_REQ
  app,     \* in this session, or the last, the application was told of a connection
           \* and not of its end
  table,   \* the values in the attribute table
  told,    \* the value last reported by each callback
  req,     \* the write that is being handled
  lost     \* history: attributes whose last write was not both applied and reported

vars == <<cfg, pc, unload, app, table, told, req, lost>>
gatt == <<table, told, req, lost>>

Linked == {"attach", "next", "reply", "callback"}
Awaits == {"accept", "setup", "periodic", "advertising", "retry", "next", "reply", "idle"}

Attrs == Attributes(cfg.services)
Reports == {Callback(cfg.services, a.handle) : a \in Attrs}
NoAttr == [kind |-> "none", chr |-> 0, desc |-> 0, handle |-> 0]
NoReq == [attr |-> NoAttr, value |-> Initial]

\* While a session runs the application believes in a link just when there is one:
\* only an unload can leave it believing in a link that has gone.
LinkKnown ==
  /\ pc \in Linked => app
  /\ app => pc \in Linked \/ (pc = "off" /\ unload)

\* The types of the variables, the callback's write, and LinkKnown.
TypeOK ==
  /\ cfg \in Configs
  /\ pc \in {"off", "top", "prepare"} \cup Linked \cup Awaits
  /\ unload \in BOOLEAN
  /\ table \in [Attrs -> Values \cup {Initial}]
  /\ told \in [Reports -> Values \cup {Initial}]
  /\ req = NoReq \/ req \in [attr : Attrs, value : Values]
  /\ pc = "callback" => req # NoReq
  /\ lost \subseteq Attrs
  /\ app \in BOOLEAN /\ LinkKnown

Init ==
  /\ cfg \in Configs /\ pc = "off" /\ unload = FALSE /\ app = FALSE
  /\ table = [a \in Attrs |-> Initial] /\ told = [r \in Reports |-> Initial]
  /\ req = NoReq /\ lost = {}
-----------------------------------------------------------------------------
(***************************************************************************)
(* The session.                                                            *)
(***************************************************************************)
\* build_gatt gives each session a table of its own.
Load ==
  /\ pc = "off" /\ pc' = "top" /\ unload' = FALSE
  /\ table' = [a \in Attrs |-> Initial] /\ told' = [r \in Reports |-> Initial]
  /\ req' = NoReq /\ lost' = {} /\ app' = FALSE
  /\ UNCHANGED cfg

Unload ==
  /\ pc # "off" /\ ~unload /\ unload' = TRUE
  /\ UNCHANGED <<cfg, pc, app, gatt>>

\* The wait_unload of serve_session drops whatever serve awaits; on_disconnected is
\* not called: of a link that ends so the application is not told.
SessionEnds ==
  /\ unload /\ pc \in Awaits /\ pc' = "off"
  /\ req' = NoReq
  /\ UNCHANGED <<cfg, unload, app, table, told, lost>>
-----------------------------------------------------------------------------
(***************************************************************************)
(* Advertising.                                                            *)
(***************************************************************************)
\* The head of serve's loops: only the one that takes no connections looks at the
\* request to unload.
Top ==
  /\ pc = "top"
  /\ pc' = IF cfg.nonconnectable /\ unload THEN "idle"
           ELSE IF cfg.accept THEN "accept" ELSE "prepare"
  /\ UNCHANGED <<cfg, unload, app, gatt>>

\* Whether the advertising goes out as an extended one: a high duty cycle never does.
Extended == cfg.ext /\ (cfg.nonconnectable \/ cfg.directed # "high")

\* advertising_parts, advertising_parts_ext: an extended advertising also needs its
\* scan response to fit, together with the payload if it takes no connections; a
\* legacy one cuts it.  A directed legacy one has no payload.
HasPayload ==
  LET pay == IF Extended THEN ExtPayload(cfg.adv) ELSE LegacyPayload(cfg.adv)
  IN  IF cfg.nonconnectable \/ Extended \/ cfg.directed = "none"
      THEN /\ pay # Never
           /\ Extended => cfg.adv.scan <= ExtMax
           /\ Extended /\ cfg.nonconnectable => pay + cfg.adv.scan <= ExtMax
      ELSE TRUE

Prepare ==
  /\ pc = "prepare" /\ pc' = IF HasPayload THEN "setup" ELSE "retry"
  /\ UNCHANGED <<cfg, unload, app, gatt>>

\* The host does what it is asked ...
HostSucceeds ==
  /\ \/ pc = "accept" /\ pc' = "prepare"
     \/ pc = "setup" /\ pc' = IF Extended /\ cfg.periodic THEN "periodic" ELSE "advertising"
     \/ pc = "periodic" /\ pc' = "advertising"
  /\ UNCHANGED <<cfg, unload, app, gatt>>

\* ... or not; an advertising for a connection may end without one.
HostFails ==
  /\ pc \in {"accept", "setup", "periodic"} \cup IF cfg.nonconnectable THEN {} ELSE {"advertising"}
  /\ pc' = "retry"
  /\ UNCHANGED <<cfg, unload, app, gatt>>

\* The second between two attempts.
Timer ==
  /\ pc = "retry" /\ pc' = "top"
  /\ UNCHANGED <<cfg, unload, app, gatt>>

\* The wait_unload of advertise_nonconnectable: serve returns.
StopsAdvertising ==
  /\ pc = "advertising" /\ cfg.nonconnectable /\ unload /\ pc' = "idle"
  /\ UNCHANGED <<cfg, unload, app, gatt>>

\* accept() gives a connection, on_connected is called.
Accept ==
  /\ pc = "advertising" /\ ~cfg.nonconnectable
  /\ pc' = "attach" /\ app' = TRUE
  /\ UNCHANGED <<cfg, unload, gatt>>
-----------------------------------------------------------------------------
(***************************************************************************)
(* A connection.                                                           *)
(***************************************************************************)
\* Mutant: run_connection is left without on_disconnected.
LeaveSilently ==
  /\ pc' = "top" /\ req' = NoReq
  /\ table' = [a \in Attrs |-> IF a.kind = "cccd" THEN Initial ELSE table[a]]
  /\ told' = [r \in Reports |-> IF r.cb = "subscription" THEN Initial ELSE told[r]]
  /\ lost' = {a \in lost : a.kind # "cccd"}
  /\ UNCHANGED <<cfg, unload, app>>

\* run_connection is over and on_disconnected is called.  The subscriptions go with
\* the link, which the application knows.
Leave ==
  /\ pc' = "top" /\ app' = FALSE /\ req' = NoReq
  /\ table' = [a \in Attrs |-> IF a.kind = "cccd" THEN Initial ELSE table[a]]
  /\ told' = [r \in Reports |-> IF r.cb = "subscription" THEN Initial ELSE told[r]]
  /\ lost' = {a \in lost : a.kind # "cccd"}
  /\ UNCHANGED <<cfg, unload>>

\* with_attribute_server.
Attach ==
  /\ pc = "attach" /\ pc' = "next"
  /\ UNCHANGED <<cfg, unload, app, gatt>>

AttachFails == pc = "attach" /\ Leave

\* A central writes: the loop finds out what was written, and accept() puts it in
\* the table; what is left is to send the reply.
Write ==
  /\ pc = "next" /\ pc' = "reply"
  /\ \E a \in Attrs, v \in Values :
       /\ req' = [attr |-> a, value |-> v]
       /\ table' = [table EXCEPT ![a] = v]
       /\ lost' = lost \cup {a}
  /\ UNCHANGED <<cfg, unload, app, told>>

\* accept() fails, for want of a buffer: nothing is written nor sent, but reported.
WriteRefused ==
  /\ pc = "next" /\ pc' = "callback"
  /\ \E a \in Attrs, v \in Values : req' = [attr |-> a, value |-> v]
  /\ UNCHANGED <<cfg, unload, app, table, told, lost>>

\* Reads and other requests, and new connection parameters: answered only.
OtherRequest ==
  /\ pc = "next" /\ pc' = "reply" /\ req' = NoReq
  /\ UNCHANGED <<cfg, unload, app, table, told, lost>>

\* Mutant: when the reply cannot be sent the write is not reported.
ReplySentOrDone ==
  /\ pc = "reply" /\ pc' \in IF req = NoReq THEN {"next"} ELSE {"callback", "next"}
  /\ lost' = lost \ {req.attr}
  /\ UNCHANGED <<cfg, unload, app, table, told, req>>

\* send().await is over, well or badly.
ReplySent ==
  /\ pc = "reply" /\ pc' = IF req = NoReq THEN "next" ELSE "callback"
  /\ lost' = lost \ {req.attr}
  /\ UNCHANGED <<cfg, unload, app, table, told, req>>

\* on_data, on_write, on_subscription or on_descriptor_write.
Report ==
  /\ pc = "callback" /\ pc' = "next"
  /\ told' = [told EXCEPT ![Callback(cfg.services, req.attr.handle)] = req.value]
  /\ lost' = IF table[req.attr] = req.value THEN lost \ {req.attr} ELSE lost \cup {req.attr}
  /\ req' = NoReq
  /\ UNCHANGED <<cfg, unload, app, table>>

\* The link is lost: the loop sees it when it asks for the next event.
Disconnected == pc = "next" /\ Leave

\* The connection's futures are dropped: for an unload, or because its L2CAP channel
\* is over.
Dropped ==
  /\ pc \in {"next", "reply"} /\ (unload \/ cfg.l2cap)
  /\ Leave
-----------------------------------------------------------------------------
Loop == Top \/ Prepare \/ Timer \/ Attach \/ AttachFails \/ Report

Next ==
  \/ Load \/ Unload \/ SessionEnds
  \/ Loop \/ HostSucceeds \/ HostFails \/ StopsAdvertising \/ Accept
  \/ Write \/ WriteRefused \/ OtherRequest \/ ReplySent \/ Disconnected \/ Dropped

Spec == Init /\ [][Next]_vars

\* The BLE thread runs, its timers fire, and the host does not refuse for ever what
\* it is asked again and again.
FairSpec ==
  /\ Spec /\ WF_vars(Loop)
  /\ SF_vars(pc = "accept" /\ HostSucceeds) /\ SF_vars(pc = "setup" /\ HostSucceeds)
  /\ SF_vars(pc = "periodic" /\ HostSucceeds)
-----------------------------------------------------------------------------
\* No two characteristics of a configuration have the same UUID: runtime_ble_char_index
\* finds only one of them.
Distinct ==
  \A c \in Configs : \A m, n \in DOMAIN Chars(c.services) :
    Chars(c.services)[m].uuid = Chars(c.services)[n].uuid => m = n

\* The callbacks of different attributes differ, are the ones that the application
\* expects, and subscriptions are those of CCCDs.
Indexed ==
  \A c \in Configs : \A a \in Attributes(c.services) :
    /\ Expected(c.services, a) = Callback(c.services, a.handle)
    /\ a.kind = "cccd" <=> Callback(c.services, a.handle).cb = "subscription"
    /\ \A b \in Attributes(c.services) :
         Callback(c.services, a.handle) = Callback(c.services, b.handle) => a = b

\* Between two events the value last reported for an attribute, by the callback and
\* with the index that the application knows it by, is the value in the table, on
\* this and on later links.  The exceptions are writes whose reply was dropped and
\* writes that accept() refused.
AppKnowsTable ==
  pc # "callback" =>
    \A a \in Attrs \ lost : /\ Expected(cfg.services, a) \in Reports
                            /\ told[Expected(cfg.services, a)] = table[a]

\* Whether what is configured can be advertised at all.
CanAdvertise ==
  IF Extended THEN FitsExt(cfg.adv) /\ cfg.adv.scan <= ExtMax
                   /\ (cfg.nonconnectable => FitsExtWith(cfg.adv, cfg.adv.scan))
  ELSE cfg.nonconnectable \/ cfg.directed = "none" => FitsLegacy(cfg.adv)

\* After load(), after each connection and after each failure the device comes to
\* advertise, unless it is told to unload, if what is configured fits.
AdvertisesAgain ==
  CanAdvertise => (pc = "top" ~> pc = "advertising" \/ unload)
=============================================================================
