---------------------------- MODULE MCCentralLoop ----------------------------
(* TLC instances of CentralLoop: two peers that keep the CCCD of one          *)
(* characteristic in different places.                                        *)
EXTENDS CentralLoop, TLC

CONSTANTS t1, t2

MCCmds == {"scanStart", "scanStop", "connect", "disconnect", "discoverAll", "write", "subscribe"}

MCArgs == [c \in MCCmds |-> {t1}]

\* For the run about the store: services are discovered one by one.
StoreCmds == {"connect", "discover", "subscribe"}

StoreArgs == [c \in StoreCmds |-> {t1, t2}]

MCConfigs == {[role |-> "central", auto |-> None, l2cap |-> TRUE],
              [role |-> "dual", auto |-> t2, l2cap |-> FALSE]}

MCChrs == <<t1>>

MCCccd == (t1 :> (t1 :> "far" @@ t2 :> "next")) @@ (t2 :> (t1 :> "next" @@ t2 :> "far"))
=============================================================================
