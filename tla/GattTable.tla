------------------------------ MODULE GattTable ------------------------------
(***************************************************************************)
(* The attribute table that build_gatt (rust/src/radio.rs) declares, and   *)
(* the three ways to name a characteristic: the handle a central uses, the *)
(* flat index of the callbacks, and the UUID that runtime_ble_char_index   *)
(* (rust/src/lib.rs) turns into an index.                                  *)
(*                                                                         *)
(* config.services is a sequence of services, a service is a sequence of   *)
(* characteristics [uuid, write, cccd, descs]: its UUID, whether a central *)
(* may write it, whether it notifies or indicates, and how many writable   *)
(* descriptors it has.  No services: the built-in Nordic UART service.     *)
(* Indices count from 0 as in the code.                                    *)
(***************************************************************************)
EXTENDS Naturals, Sequences

CONSTANTS
  GapEnd,    \* the last handle of the GAP service
  NoIndex    \* usize::MAX, RUNTIME_BLE_ERR_INVALID

ASSUME GapAssumption == GapEnd \in Nat

NusRx == [uuid |-> "nusRx", write |-> TRUE, cccd |-> FALSE, descs |-> 0]
NusTx == [uuid |-> "nusTx", write |-> FALSE, cccd |-> TRUE, descs |-> 0]

Built(services) == IF services = <<>> THEN <<<<NusRx, NusTx>>>> ELSE services

\* The characteristics of the first k services, in declaration order.
Upto(services) ==
  LET chars[k \in 0 .. Len(Built(services))] ==
        IF k = 0 THEN <<>> ELSE chars[k - 1] \o Built(services)[k]
  IN  chars

Chars(services) == Upto(services)[Len(Built(services))]

NusRxIndex(services) == IF services = <<>> THEN 0 ELSE NoIndex

\* The service of the n-th characteristic.
ServiceOf(services, n) ==
  CHOOSE s \in DOMAIN Built(services) :
    Len(Upto(services)[s - 1]) < n /\ n <= Len(Upto(services)[s])

\* A characteristic takes two handles, one more for its CCCD, and one for each descriptor.
Size(c) == 2 + (IF c.cccd THEN 1 ELSE 0) + c.descs

\* The handles that the first k characteristics take.
Sizes(services) ==
  LET sum[k \in 0 .. Len(Chars(services))] ==
        IF k = 0 THEN 0 ELSE sum[k - 1] + Size(Chars(services)[k])
  IN  sum

\* The value handle of the n-th characteristic: each service declaration takes one too.
Handle(services, n) == GapEnd + ServiceOf(services, n) + Sizes(services)[n - 1] + 2

\* The attributes that a central may write, with their handles: the CCCD follows
\* the value, the descriptors follow both.
AttributesOf(services, n) ==
  LET c    == Chars(services)[n]
      h    == Handle(services, n)
      desc == h + (IF c.cccd THEN 1 ELSE 0)
  IN  {a \in [kind : {"value"}, chr : {n}, desc : {0}, handle : {h}] : c.write}
      \cup {a \in [kind : {"cccd"}, chr : {n}, desc : {0}, handle : {h + 1}] : c.cccd}
      \cup {[kind |-> "desc", chr |-> n, desc |-> k, handle |-> desc + k] : k \in 1 .. c.descs}

Attributes(services) == UNION {AttributesOf(services, n) : n \in DOMAIN Chars(services)}

(***************************************************************************)
(* The connection's event loop: which callback, with which indices, a      *)
(* handle stands for.  Value and CCCD handles are looked for first.        *)
(***************************************************************************)
Callback(services, h) ==
  LET chars   == Chars(services)
      hits    == {n \in DOMAIN chars : \/ Handle(services, n) = h
                                       \/ chars[n].cccd /\ Handle(services, n) + 1 = h}
      first   == CHOOSE n \in hits : \A m \in hits : n <= m
      descs   == {a \in Attributes(services) : a.kind = "desc" /\ a.handle = h}
      desc    == CHOOSE a \in descs : TRUE
  IN  IF hits # {} THEN
        IF Handle(services, first) = h
        THEN [cb |-> IF first - 1 = NusRxIndex(services) THEN "data" ELSE "write",
              chr |-> first - 1, desc |-> 0]
        ELSE [cb |-> "subscription", chr |-> first - 1, desc |-> 0]
      ELSE IF descs # {} THEN [cb |-> "descriptor", chr |-> desc.chr - 1, desc |-> desc.desc - 1]
      ELSE [cb |-> "none", chr |-> NoIndex, desc |-> 0]

\* runtime_ble_char_index: the first characteristic with that UUID; none of the
\* built-in service.
CharIndex(services, uuid) ==
  LET hits == {n \in DOMAIN Chars(services) : Chars(services)[n].uuid = uuid}
  IN  IF services = <<>> \/ hits = {} THEN NoIndex
      ELSE (CHOOSE n \in hits : \A m \in hits : n <= m) - 1

\* Where an application that knows its own declarations expects to hear of a write
\* to an attribute.
Expected(services, a) ==
  LET c == Chars(services)[a.chr]
  IN  IF services = <<>> THEN [cb |-> IF a.kind = "value" THEN "data" ELSE "subscription",
                               chr |-> a.chr - 1, desc |-> 0]
      ELSE [cb |-> CASE a.kind = "value" -> "write" [] a.kind = "cccd" -> "subscription"
                   [] a.kind = "desc" -> "descriptor",
            chr |-> CharIndex(services, c.uuid),
            desc |-> IF a.kind = "desc" THEN a.desc - 1 ELSE 0]
=============================================================================
