-------------------------- MODULE ServeLoopProofs --------------------------
(***************************************************************************)
(* The peripheral side of a session for any values and configurations.     *)
(*                                                                         *)
(* The attribute table: the handles that build_gatt gives out, the search  *)
(* by handle and the search by UUID agree on what is which (CountsAlike),  *)
(* for any number of services and characteristics, if no two of these      *)
(* have one UUID.  The handles grow along the table, so an attribute is    *)
(* known by its own.                                                       *)
(*                                                                         *)
(* The event loop tells the application what it puts in the table.  The    *)
(* invariant excuses one attribute more than the property: the one whose   *)
(* callback is next.                                                       *)
(*                                                                         *)
(* The payload: there is one if and only if what is configured fits.       *)
(***************************************************************************)
EXTENDS ServeLoop, WellFoundedInduction, SequenceTheorems, TLAPS

\* The callback and the index for the handle of an attribute.
Cb(a) == Callback(cfg.services, a.handle)

\* An attribute differs from the application's view only if its write was lost or its
\* callback is next.
KnowInv ==
  \A a \in Attrs \ lost : told[Cb(a)] = table[a] \/ (pc = "callback" /\ a = req.attr)

LEMMA RealAttr ==
  ASSUME NEW services
  PROVE  NoAttr \notin Attributes(services)
<1>1. ASSUME NEW n, NEW a \in AttributesOf(services, n) PROVE a.kind # "none"
  BY DEF AttributesOf
<1>2. \A a \in Attributes(services) : a.kind # "none"
  BY <1>1 DEF Attributes
<1>3. QED
  BY <1>2 DEF NoAttr

LEMMA RealReq ==
  ASSUME NEW a \in Attrs, NEW v
  PROVE  [attr |-> a, value |-> v] # NoReq
  BY RealAttr DEF Attrs, NoReq
-----------------------------------------------------------------------------
(***************************************************************************)
(* Types.                                                                  *)
(***************************************************************************)
Pcs == {"off", "top", "prepare"} \cup Linked \cup Awaits

\* The steps that leave the table and what was told alone.
LEMMA TypeKept ==
  ASSUME TypeOK, UNCHANGED <<cfg, table, told, lost>>, unload' \in BOOLEAN, pc' \in Pcs,
         req' = req \/ req' = NoReq, pc' # "callback", app' \in BOOLEAN, LinkKnown'
  PROVE  TypeOK'
<1>1. Attrs' = Attrs /\ Reports' = Reports
  BY DEF Attrs, Reports
<1>2. QED
  BY <1>1 DEF TypeOK, Pcs

LEMMA LeaveType ==
  ASSUME TypeOK, Leave
  PROVE  TypeOK'
<1>1. Attrs' = Attrs /\ Reports' = Reports
  BY DEF Leave, Attrs, Reports
<1>2. table' \in [Attrs -> Values \cup {Initial}] /\ told' \in [Reports -> Values \cup {Initial}]
  BY DEF Leave, TypeOK
<1>3. app' = FALSE /\ pc' = "top"
  BY DEF Leave
<1>4. app' \in BOOLEAN /\ LinkKnown'
  BY <1>3 DEF Linked, LinkKnown
<1>5. lost' \subseteq Attrs' /\ req' = NoReq
  BY <1>1 DEF Leave, TypeOK
<1>6. table' \in [Attrs' -> Values \cup {Initial}] /\ told' \in [Reports' -> Values \cup {Initial}]
  BY <1>1, <1>2
<1>7. cfg' \in Configs /\ unload' \in BOOLEAN
  BY DEF Leave, TypeOK
<1>8. pc' \in {"off", "top", "prepare"} \cup Linked \cup Awaits /\ pc' # "callback"
  BY <1>3
<1>9. QED
  BY <1>4, <1>5, <1>6, <1>7, <1>8, Zenon DEF TypeOK

LEMMA SessionType ==
  ASSUME TypeOK, Load \/ Unload \/ SessionEnds
  PROVE  TypeOK'
<1> USE DEF gatt, Pcs, Linked, Awaits, LinkKnown
<1>1. CASE Load
  <2>1. Attrs' = Attrs /\ Reports' = Reports
    BY <1>1 DEF Load, Attrs, Reports
  <2>2. table' \in [Attrs -> Values \cup {Initial}] /\ told' \in [Reports -> Values \cup {Initial}]
    BY <1>1 DEF Load
  <2>3. pc \notin Linked /\ pc' \notin Linked
    BY <1>1 DEF Load
  <2>4. app' \in BOOLEAN /\ LinkKnown'
    BY <1>1, <2>3 DEF Load, TypeOK
  <2>5. table' \in [Attrs' -> Values \cup {Initial}] /\ told' \in [Reports' -> Values \cup {Initial}]
    BY <2>1, <2>2
  <2>6. cfg' \in Configs /\ unload' \in BOOLEAN /\ req' = NoReq /\ lost' \subseteq Attrs'
    BY <1>1 DEF Load, TypeOK
  <2>7. pc' \in {"off", "top", "prepare"} \cup Linked \cup Awaits /\ pc' # "callback"
    BY <1>1 DEF Load
  <2>8. QED
    BY <2>4, <2>5, <2>6, <2>7, Zenon DEF TypeOK
<1>2. CASE Unload
  <2>1. Attrs' = Attrs /\ Reports' = Reports
    BY <1>2 DEF Unload, Attrs, Reports
  <2>2. QED
    BY <1>2, <2>1 DEF Unload, TypeOK
<1>3. CASE SessionEnds
  BY <1>3, TypeKept DEF SessionEnds, TypeOK
<1>4. QED
  BY <1>1, <1>2, <1>3

LEMMA AdvertisingType ==
  ASSUME TypeOK,
         \/ Top \/ Prepare \/ Timer \/ Attach \/ HostSucceeds \/ HostFails
         \/ StopsAdvertising \/ Accept
  PROVE  TypeOK'
<1> USE DEF gatt, Pcs, Linked, Awaits, LinkKnown
<1>1. CASE Top
  BY <1>1, TypeKept DEF Top, TypeOK
<1>2. CASE Prepare
  BY <1>2, TypeKept DEF Prepare, TypeOK
<1>3. CASE Timer \/ StopsAdvertising
  BY <1>3, TypeKept DEF Timer, StopsAdvertising, TypeOK
<1>4. CASE Attach
  BY <1>4, TypeKept DEF Attach, TypeOK
<1>5. CASE HostSucceeds \/ HostFails
  BY <1>5, TypeKept DEF HostSucceeds, HostFails, TypeOK
<1>6. CASE Accept
  BY <1>6, TypeKept DEF Accept, TypeOK
<1>7. QED
  BY <1>1, <1>2, <1>3, <1>4, <1>5, <1>6

LEMMA EventType ==
  ASSUME TypeOK, Write \/ WriteRefused \/ OtherRequest \/ ReplySent \/ Report
  PROVE  TypeOK'
<1> USE DEF gatt, Pcs, Linked, Awaits, LinkKnown
<1>1. Attrs' = Attrs /\ Reports' = Reports
  BY DEF Write, WriteRefused, OtherRequest, ReplySent, Report, Attrs, Reports
<1>2. CASE Write
  <2>1. PICK a \in Attrs, v \in Values :
          /\ req' = [attr |-> a, value |-> v] /\ table' = [table EXCEPT ![a] = v]
          /\ lost' = lost \cup {a}
    BY <1>2 DEF Write
  <2>2. QED
    BY <1>1, <1>2, <2>1 DEF Write, TypeOK
<1>3. CASE WriteRefused
  <2>1. PICK a \in Attrs, v \in Values : req' = [attr |-> a, value |-> v]
    BY <1>3 DEF WriteRefused
  <2>2. QED
    BY <1>1, <1>3, <2>1, RealReq DEF WriteRefused, TypeOK
<1>4. CASE OtherRequest
  BY <1>1, <1>4 DEF OtherRequest, TypeOK
<1>5. CASE ReplySent
  BY <1>1, <1>5 DEF ReplySent, TypeOK
<1>6. CASE Report
  <2>1. req.attr \in Attrs /\ req.value \in Values
    BY <1>6 DEF Report, TypeOK
  <2>2. Callback(cfg.services, req.attr.handle) \in Reports
    BY <2>1 DEF Reports
  <2>3. told' \in [Reports -> Values \cup {Initial}] /\ lost' \subseteq Attrs
    BY <1>6, <2>1, <2>2 DEF Report, TypeOK
  <2>4. QED
    BY <1>1, <1>6, <2>3 DEF Report, TypeOK
<1>7. QED
  BY <1>2, <1>3, <1>4, <1>5, <1>6

\* The table, the callbacks' values and the write that is handled keep their types, and
\* while a session runs the application counts a connection exactly as long as
\* run_connection runs; an unload may leave it counting one (radio.rs).
THEOREM TypeCorrect == Spec => []TypeOK
<1>1. Init => TypeOK
  <2> SUFFICES ASSUME Init PROVE TypeOK
    OBVIOUS
  <2>1. app \in BOOLEAN /\ LinkKnown
    BY DEF Init, Linked, LinkKnown
  <2>2. table \in [Attrs -> Values \cup {Initial}] /\ told \in [Reports -> Values \cup {Initial}]
    BY DEF Init
  <2>3. cfg \in Configs /\ unload \in BOOLEAN /\ req = NoReq /\ lost \subseteq Attrs
    BY DEF Init
  <2>4. pc \in {"off", "top", "prepare"} \cup Linked \cup Awaits /\ pc # "callback"
    BY DEF Init
  <2>5. QED
    BY <2>1, <2>2, <2>3, <2>4, Zenon DEF TypeOK
<1>2. TypeOK /\ [Next]_vars => TypeOK'
  <2> SUFFICES ASSUME TypeOK, [Next]_vars PROVE TypeOK'
    OBVIOUS
  <2>1. CASE AttachFails \/ Disconnected \/ Dropped
    BY <2>1, LeaveType DEF AttachFails, Disconnected, Dropped
  <2>2. CASE UNCHANGED vars
    <3>1. Attrs' = Attrs /\ Reports' = Reports
      BY <2>2 DEF vars, Attrs, Reports
    <3>2. QED
      BY <2>2, <3>1 DEF vars, TypeOK, LinkKnown
  <2>3. QED
    BY <2>1, <2>2, SessionType, AdvertisingType, EventType DEF Next, Loop
<1>3. QED
  BY <1>1, <1>2, PTL DEF Spec
-----------------------------------------------------------------------------
(***************************************************************************)
(* Recursion over a sequence.  The library's induction theorems take a     *)
(* predicate; its theorem about least elements takes a set, which does as  *)
(* well.                                                                   *)
(***************************************************************************)
\* Induction up to N.
LEMMA UpTo ==
  ASSUME NEW N \in Nat, NEW T, 0 \in T, \A n \in 0 .. N - 1 : n \in T => n + 1 \in T
  PROVE  0 .. N \subseteq T
<1> DEFINE Bad == (0 .. N) \ T
           Less == OpToRel(<, Nat)
<1>1. IsWellFoundedOn(Less, Nat)
  BY NatLessThanWellFounded
<1>2. \A m, n \in Nat : m < n => <<m, n>> \in Less
  BY DEF OpToRel
<1>3. ASSUME Bad # {} PROVE FALSE
  <2>1. Bad \subseteq Nat
    OBVIOUS
  <2> HIDE DEF Less
  <2>2. PICK x \in Bad : \A y \in Bad : <<y, x>> \notin Less
    <3> HIDE DEF Bad
    <3>1. QED
      BY <1>1, <1>3, <2>1, WFMin
  <2>3. x # 0 /\ x - 1 \in 0 .. N - 1 /\ x \in Nat /\ x - 1 \in Nat
    BY <2>2
  <2>4. x - 1 \notin T
    BY <2>3
  <2>5. x - 1 \in Bad
    BY <2>3, <2>4
  <2>6. <<x - 1, x>> \in Less
    BY <1>2, <2>3
  <2>7. QED
    BY <2>2, <2>5, <2>6
<1>4. QED
  BY <1>3

\* What N steps of F from a go through.
Runs(N, D, a, F) ==
  {f \in [0 .. N -> D] : f[0] = a /\ \A n \in 1 .. N : f[n] = F[<<f[n - 1], n>>]}

\* A step function that stays in D can be repeated.
LEMMA Recursion ==
  ASSUME NEW N \in Nat, NEW D, NEW a \in D, NEW F \in [D \X (1 .. N) -> D]
  PROVE  Runs(N, D, a, F) # {}
<1> DEFINE T == {k \in 0 .. N : Runs(k, D, a, F) # {}}
<1>1. 0 \in T
  <2>1. [n \in 0 .. 0 |-> a] \in Runs(0, D, a, F)
    BY DEF Runs
  <2>2. QED
    BY <2>1
<1>2. ASSUME NEW k \in 0 .. N - 1, k \in T PROVE k + 1 \in T
  <2>1. PICK f \in [0 .. k -> D] : f[0] = a /\ \A n \in 1 .. k : f[n] = F[<<f[n - 1], n>>]
    BY <1>2 DEF Runs
  <2> DEFINE g == [n \in 0 .. k + 1 |-> IF n = k + 1 THEN F[<<f[k], k + 1>>] ELSE f[n]]
  <2>2. f[k] \in D /\ k + 1 \in 1 .. N
    OBVIOUS
  <2>3. F[<<f[k], k + 1>>] \in D
    BY <2>2
  <2>4. g \in [0 .. k + 1 -> D]
    BY <2>3
  <2>5. g[0] = a /\ g[k + 1] = F[<<g[k], k + 1>>]
    <3>1. /\ 0 \in 0 .. k + 1 /\ 0 # k + 1 /\ k \in 0 .. k + 1 /\ k # k + 1
          /\ k + 1 \in 0 .. k + 1
      OBVIOUS
    <3>2. QED
      BY <2>1, <3>1
  <2>6. ASSUME NEW n \in 1 .. k + 1 PROVE g[n] = F[<<g[n - 1], n>>]
    <3>1. CASE n = k + 1
      BY <2>5, <3>1
    <3>2. CASE n # k + 1
      <4>1. n \in 1 .. k /\ n \in 0 .. k + 1 /\ n - 1 \in 0 .. k + 1 /\ n - 1 # k + 1
        BY <3>2
      <4>2. g[n] = f[n] /\ g[n - 1] = f[n - 1]
        BY <3>2, <4>1
      <4>3. QED
        BY <2>1, <4>1, <4>2
    <3>3. QED
      BY <3>1, <3>2
  <2>7. g \in Runs(k + 1, D, a, F)
    <3> HIDE DEF g
    <3>1. QED
      BY <2>4, <2>5, <2>6 DEF Runs
  <2> HIDE DEF g
  <2>8. QED
    BY <2>2, <2>7
<1> HIDE DEF T
<1>3. N \in T
  BY <1>1, <1>2, UpTo
<1>4. QED
  BY <1>3 DEF T

-----------------------------------------------------------------------------
(***************************************************************************)
(* The attribute table.                                                    *)
(***************************************************************************)
Chr == [uuid : STRING \cup {"nusRx", "nusTx"}, write : BOOLEAN, cccd : BOOLEAN, descs : Nat]
Services == Seq(Seq(Chr))

LEMMA BuiltType ==
  ASSUME NEW services \in Services
  PROVE  /\ Len(Built(services)) \in Nat
         /\ DOMAIN Built(services) = 1 .. Len(Built(services))
         /\ \A k \in 1 .. Len(Built(services)) : Built(services)[k] \in Seq(Chr)
<1>1. NusRx \in Chr /\ NusTx \in Chr
  BY DEF NusRx, NusTx, Chr
<1>2. Built(services) \in Services
  <2>1. <<NusRx, NusTx>> \in Seq(Chr)
    BY <1>1
  <2>2. <<<<NusRx, NusTx>>>> \in Services
    <3> DEFINE nus == <<NusRx, NusTx>>
    <3> HIDE DEF nus
    <3>1. nus \in Seq(Chr)
      BY <2>1 DEF nus
    <3>2. QED
      BY <3>1 DEF Services, nus
  <2>3. QED
    BY <2>2 DEF Built
<1>3. ASSUME NEW q \in Services
      PROVE  /\ Len(q) \in Nat /\ DOMAIN q = 1 .. Len(q)
             /\ \A k \in 1 .. Len(q) : q[k] \in Seq(Chr)
  BY DEF Services
<1>4. QED
  BY <1>2, <1>3

\* build_gatt appends one service after the other.
LEMMA UptoGives ==
  ASSUME NEW services \in Services
  PROVE  /\ Upto(services) \in [0 .. Len(Built(services)) -> Seq(Chr)]
         /\ Upto(services)[0] = <<>>
         /\ \A k \in 1 .. Len(Built(services)) :
              Upto(services)[k] = Upto(services)[k - 1] \o Built(services)[k]
<1> DEFINE B == Built(services)
           N == Len(B)
           D == Seq(Chr)
           a == <<>>
           F == [p \in D \X (1 .. N) |-> p[1] \o B[p[2]]]
           upto == CHOOSE f : f = [k \in 0 .. Len(Built(services)) |->
                     IF k = 0 THEN <<>> ELSE f[k - 1] \o Built(services)[k]]
<1>1. N \in Nat /\ a \in D /\ \A k \in 1 .. N : B[k] \in D
  BY BuiltType
<1>2. F \in [D \X (1 .. N) -> D]
  BY <1>1
<1>3. PICK f \in [0 .. N -> D] : f[0] = a /\ \A k \in 1 .. N : f[k] = F[<<f[k - 1], k>>]
  <2> HIDE DEF F, D, N, a
  <2>1. Runs(N, D, a, F) # {}
    BY <1>1, <1>2, Recursion, Zenon
  <2>2. QED
    BY <2>1 DEF Runs
<1>4. \A k \in 1 .. N : f[k - 1] \in D
  BY <1>1
<1>5. \A k \in 1 .. N : f[k] = f[k - 1] \o B[k]
  BY <1>1, <1>3, <1>4
<1>6. f = [k \in 0 .. Len(Built(services)) |->
             IF k = 0 THEN <<>> ELSE f[k - 1] \o Built(services)[k]]
  <2> DEFINE g == [k \in 0 .. N |-> IF k = 0 THEN a ELSE f[k - 1] \o B[k]]
  <2>1. \A k \in 0 .. N : k = 0 \/ k \in 1 .. N
    BY <1>1
  <2>2. \A k \in 0 .. N : f[k] = g[k]
    BY <1>3, <1>5, <2>1
  <2>3. f = g
    <3> HIDE DEF D
    <3>1. QED
      BY <2>2
  <2>4. QED
    BY <2>3
<1>7. upto = [k \in 0 .. Len(Built(services)) |->
                IF k = 0 THEN <<>> ELSE upto[k - 1] \o Built(services)[k]]
  BY <1>6
<1>8. Upto(services) = upto
  BY DEF Upto
<1> HIDE DEF upto, F
<1>9. upto[0] = <<>> /\ DOMAIN upto = 0 .. N
  BY <1>1, <1>7
<1>10. \A k \in 1 .. N : upto[k] = upto[k - 1] \o B[k]
  <2>1. ASSUME NEW k \in 1 .. N PROVE upto[k] = upto[k - 1] \o B[k]
    <3>1. k \in 0 .. Len(Built(services)) /\ k # 0
      BY <1>1
    <3>2. QED
      BY <1>7, <3>1, Zenon
  <2>2. QED
    BY <2>1
<1> DEFINE T == {k \in 0 .. N : upto[k] \in D}
<1>11. 0 \in T
  <2> HIDE DEF D
  <2>1. QED
    BY <1>1, <1>9
<1>12. ASSUME NEW k \in 0 .. N - 1, k \in T PROVE k + 1 \in T
  <2>1. k + 1 \in 1 .. N /\ k + 1 \in 0 .. N /\ (k + 1) - 1 = k
    BY <1>1
  <2>2. upto[k + 1] = upto[k] \o B[k + 1]
    BY <1>10, <2>1
  <2>3. upto[k] \in D /\ B[k + 1] \in D
    BY <1>1, <1>12, <2>1
  <2>4. upto[k + 1] \in D
    <3> HIDE DEF upto, B
    <3>1. QED
      BY <2>2, <2>3
  <2>5. QED
    BY <2>1, <2>4
<1> HIDE DEF T
<1>13. 0 .. N \subseteq T
  <2> HIDE DEF N
  <2>1. QED
    BY <1>1, <1>11, <1>12, UpTo
<1>14. \A k \in 0 .. N : upto[k] \in D
  BY <1>13 DEF T
<1>15. upto \in [0 .. N -> D]
  <2>1. upto = [k \in 0 .. N |-> upto[k]]
    BY <1>7, <1>9
  <2>2. QED
    BY <1>14, <2>1
<1>16. QED
  BY <1>8, <1>9, <1>10, <1>15

LEMMA CharsType ==
  ASSUME NEW services \in Services
  PROVE  /\ Chars(services) \in Seq(Chr) /\ Len(Chars(services)) \in Nat
         /\ DOMAIN Chars(services) = 1 .. Len(Chars(services))
         /\ \A n \in DOMAIN Chars(services) : Chars(services)[n] \in Chr
<1>1. Len(Built(services)) \in 0 .. Len(Built(services))
  BY BuiltType
<1>2. Chars(services) \in Seq(Chr)
  BY <1>1, UptoGives DEF Chars
<1>3. QED
  BY <1>2

\* A later service does not begin before an earlier one.
LEMMA UptoGrows ==
  ASSUME NEW services \in Services,
         NEW t \in 0 .. Len(Built(services)), NEW s \in 0 .. t
  PROVE  Len(Upto(services)[s]) <= Len(Upto(services)[t])
<1> DEFINE N == Len(Built(services))
           len(k) == Len(Upto(services)[k])
           T == {j \in 0 .. N : \A i \in 0 .. j : len(i) <= len(j)}
<1>1. N \in Nat /\ \A k \in 0 .. N : len(k) \in Nat
  BY BuiltType, UptoGives
<1>2. \A k \in 1 .. N : len(k - 1) <= len(k)
  <2>1. ASSUME NEW k \in 1 .. N PROVE len(k - 1) <= len(k)
    <3>1. Upto(services)[k - 1] \in Seq(Chr) /\ Built(services)[k] \in Seq(Chr)
      <4>1. k - 1 \in 0 .. N
        BY <1>1
      <4>2. QED
        BY <4>1, UptoGives, BuiltType
    <3>2. Upto(services)[k] = Upto(services)[k - 1] \o Built(services)[k]
      BY UptoGives
    <3>3. len(k) = len(k - 1) + Len(Built(services)[k])
      BY <3>1, <3>2, ConcatProperties
    <3>4. len(k - 1) \in Nat /\ Len(Built(services)[k]) \in Nat
      BY <3>1
    <3> HIDE DEF len
    <3>5. QED
      BY <3>3, <3>4
  <2>2. QED
    BY <2>1
<1> HIDE DEF len, N
<1>3. 0 \in T
  BY <1>1
<1>4. ASSUME NEW j \in 0 .. N - 1, j \in T PROVE j + 1 \in T
  <2>1. j + 1 \in 1 .. N /\ j + 1 \in 0 .. N /\ j \in 0 .. N /\ (j + 1) - 1 = j
    BY <1>1
  <2>2. len(j) <= len(j + 1)
    BY <1>2, <2>1
  <2>3. ASSUME NEW i \in 0 .. j + 1 PROVE len(i) <= len(j + 1)
    <3>1. CASE i = j + 1
      BY <1>1, <2>1, <3>1
    <3>2. CASE i # j + 1
      <4>1. i \in 0 .. j /\ i \in 0 .. N
        BY <1>1, <2>1, <3>2
      <4>2. len(i) <= len(j)
        BY <1>4, <4>1
      <4>3. QED
        BY <1>1, <2>1, <2>2, <4>1, <4>2
    <3>3. QED
      BY <3>1, <3>2
  <2>4. QED
    BY <2>1, <2>3
<1> HIDE DEF T
<1>5. 0 .. N \subseteq T
  BY <1>1, <1>3, <1>4, UpTo
<1>6. QED
  BY <1>5 DEF T, N, len

\* Each characteristic is in a service.
LEMMA ServiceIs ==
  ASSUME NEW services \in Services, NEW n \in DOMAIN Chars(services)
  PROVE  /\ ServiceOf(services, n) \in 1 .. Len(Built(services))
         /\ Len(Upto(services)[ServiceOf(services, n) - 1]) < n
         /\ n <= Len(Upto(services)[ServiceOf(services, n)])
<1> DEFINE N == Len(Built(services))
           len(k) == Len(Upto(services)[k])
           T == {k \in 0 .. N : len(k) < n}
<1>1. N \in Nat /\ (\A k \in 0 .. N : len(k) \in Nat) /\ DOMAIN Built(services) = 1 .. N
  BY BuiltType, UptoGives
<1>2. n \in Nat /\ n > 0 /\ n <= len(N) /\ len(0) = 0
  <2>1. n \in 1 .. len(N)
    BY CharsType DEF Chars
  <2>2. len(0) = 0
    <3>1. Upto(services)[0] = <<>>
      BY UptoGives
    <3>2. QED
      BY <3>1
  <2> HIDE DEF len, N
  <2>3. QED
    BY <1>1, <2>1, <2>2
<1>3. \E s \in 1 .. N : len(s - 1) < n /\ n <= len(s)
  <2>1. SUFFICES ASSUME \A s \in 1 .. N : ~(len(s - 1) < n /\ n <= len(s)) PROVE FALSE
    OBVIOUS
  <2> HIDE DEF len, N
  <2>2. 0 \in T
    BY <1>1, <1>2
  <2>3. ASSUME NEW k \in 0 .. N - 1, k \in T PROVE k + 1 \in T
    <3>1. k + 1 \in 1 .. N /\ k + 1 \in 0 .. N /\ (k + 1) - 1 = k
      BY <1>1
    <3>2. len(k) < n
      BY <2>3
    <3>3. ~(n <= len(k + 1))
      BY <2>1, <3>1, <3>2
    <3>4. QED
      BY <1>1, <1>2, <3>1, <3>3
  <2> HIDE DEF T
  <2>4. 0 .. N \subseteq T
    BY <1>1, <2>2, <2>3, UpTo
  <2>5. N \in T
    BY <1>1, <2>4
  <2>6. QED
    BY <1>1, <1>2, <2>5 DEF T
<1>4. \E s \in DOMAIN Built(services) :
        Len(Upto(services)[s - 1]) < n /\ n <= Len(Upto(services)[s])
  BY <1>1, <1>3
<1>5. /\ ServiceOf(services, n) \in DOMAIN Built(services)
      /\ Len(Upto(services)[ServiceOf(services, n) - 1]) < n
      /\ n <= Len(Upto(services)[ServiceOf(services, n)])
  BY <1>4, Zenon DEF ServiceOf
<1>6. QED
  BY <1>1, <1>5

LEMMA ServiceGrows ==
  ASSUME NEW services \in Services,
         NEW m \in DOMAIN Chars(services), NEW n \in DOMAIN Chars(services), m <= n
  PROVE  ServiceOf(services, m) <= ServiceOf(services, n)
<1> DEFINE N == Len(Built(services))
           len(k) == Len(Upto(services)[k])
           s == ServiceOf(services, m)
           t == ServiceOf(services, n)
<1>1. N \in Nat /\ (\A k \in 0 .. N : len(k) \in Nat) /\ m \in Nat /\ n \in Nat
  BY BuiltType, UptoGives, CharsType
<1>2. s \in 1 .. N /\ len(s - 1) < m /\ t \in 1 .. N /\ n <= len(t)
  BY ServiceIs
<1>3. ASSUME t < s PROVE FALSE
  <2>1. s - 1 \in 0 .. N /\ t \in 0 .. s - 1 /\ t \in 0 .. N
    BY <1>1, <1>2, <1>3
  <2>2. len(t) <= len(s - 1)
    BY <2>1, UptoGrows
  <2> HIDE DEF len
  <2>3. QED
    BY <1>1, <1>2, <2>1, <2>2
<1>4. QED
  BY <1>1, <1>2, <1>3

LEMMA SizeIs ==
  ASSUME NEW c \in Chr
  PROVE  Size(c) \in Nat
  BY DEF Size, Chr

LEMMA SizesGive ==
  ASSUME NEW services \in Services
  PROVE  /\ Sizes(services) \in [0 .. Len(Chars(services)) -> Nat]
         /\ \A k \in 1 .. Len(Chars(services)) :
              Sizes(services)[k] = Sizes(services)[k - 1] + Size(Chars(services)[k])
<1> DEFINE C == Chars(services)
           N == Len(C)
           a == 0
           F == [p \in Nat \X (1 .. N) |-> p[1] + Size(C[p[2]])]
           sum == CHOOSE f : f = [k \in 0 .. Len(Chars(services)) |->
                    IF k = 0 THEN 0 ELSE f[k - 1] + Size(Chars(services)[k])]
<1>1. N \in Nat /\ a \in Nat /\ \A k \in 1 .. N : Size(C[k]) \in Nat
  BY CharsType, SizeIs
<1>2. F \in [Nat \X (1 .. N) -> Nat]
  BY <1>1
<1>3. PICK f \in [0 .. N -> Nat] : f[0] = a /\ \A k \in 1 .. N : f[k] = F[<<f[k - 1], k>>]
  <2> HIDE DEF F, N, a
  <2>1. Runs(N, Nat, a, F) # {}
    BY <1>1, <1>2, Recursion, Zenon
  <2>2. QED
    BY <2>1 DEF Runs
<1>4. \A k \in 1 .. N : f[k - 1] \in Nat
  <2> HIDE DEF N
  <2>1. QED
    BY <1>1
<1>5. \A k \in 1 .. N : f[k] = f[k - 1] + Size(C[k])
  <2>1. ASSUME NEW k \in 1 .. N PROVE f[k] = f[k - 1] + Size(C[k])
    <3>1. F[<<f[k - 1], k>>] = f[k - 1] + Size(C[k])
      <4> HIDE DEF N, C
      <4>1. <<f[k - 1], k>> \in Nat \X (1 .. N)
        BY <1>4
      <4>2. QED
        BY <4>1
    <3>2. QED
      BY <1>3, <3>1
  <2>2. QED
    BY <2>1
<1>6. f = [k \in 0 .. Len(Chars(services)) |->
             IF k = 0 THEN 0 ELSE f[k - 1] + Size(Chars(services)[k])]
  <2> DEFINE g == [k \in 0 .. N |-> IF k = 0 THEN a ELSE f[k - 1] + Size(C[k])]
  <2>1. \A k \in 0 .. N : k = 0 \/ k \in 1 .. N
    BY <1>1
  <2>2. \A k \in 0 .. N : f[k] = g[k]
    BY <1>3, <1>5, <2>1
  <2>3. f = g
    BY <2>2
  <2>4. QED
    BY <2>3
<1>7. sum = [k \in 0 .. Len(Chars(services)) |->
               IF k = 0 THEN 0 ELSE sum[k - 1] + Size(Chars(services)[k])]
  BY <1>6
<1>8. Sizes(services) = sum
  BY DEF Sizes
<1> HIDE DEF sum, F
<1>9. sum[0] = 0 /\ DOMAIN sum = 0 .. N
  BY <1>1, <1>7
<1>10. \A k \in 1 .. N : sum[k] = sum[k - 1] + Size(C[k])
  <2>1. ASSUME NEW k \in 1 .. N PROVE sum[k] = sum[k - 1] + Size(C[k])
    <3>1. k \in 0 .. Len(Chars(services)) /\ k # 0
      BY <1>1
    <3>2. QED
      BY <1>7, <3>1, Zenon
  <2>2. QED
    BY <2>1
<1> DEFINE T == {k \in 0 .. N : sum[k] \in Nat}
<1> HIDE DEF N
<1>11. 0 \in T
  BY <1>1, <1>9
<1>12. ASSUME NEW k \in 0 .. N - 1, k \in T PROVE k + 1 \in T
  <2>1. k + 1 \in 1 .. N /\ k + 1 \in 0 .. N /\ (k + 1) - 1 = k
    BY <1>1
  <2>2. sum[k + 1] = sum[k] + Size(C[k + 1])
    BY <1>10, <2>1
  <2>3. Size(C[k + 1]) \in Nat /\ sum[k] \in Nat
    BY <1>1, <1>12, <2>1
  <2>4. QED
    BY <2>1, <2>2, <2>3
<1> HIDE DEF T
<1>13. 0 .. N \subseteq T
  BY <1>1, <1>11, <1>12, UpTo
<1>14. \A k \in 0 .. N : sum[k] \in Nat
  BY <1>13 DEF T
<1> USE DEF N
<1>15. sum \in [0 .. N -> Nat]
  <2>1. sum = [k \in 0 .. N |-> sum[k]]
    BY <1>7, <1>9
  <2>2. QED
    BY <1>14, <2>1
<1>16. QED
  BY <1>8, <1>10, <1>15

\* A characteristic's handles come after those of all characteristics before.
LEMMA SizesGrow ==
  ASSUME NEW services \in Services, NEW n \in DOMAIN Chars(services), NEW m \in 1 .. n - 1
  PROVE  Sizes(services)[m - 1] + Size(Chars(services)[m]) <= Sizes(services)[n - 1]
<1> DEFINE N == Len(Chars(services))
           sum == Sizes(services)
           T == {k \in 0 .. N : m <= k => sum[m] <= sum[k]}
<1>1. N \in Nat /\ n \in 1 .. N /\ m \in 1 .. N /\ m < n
  BY CharsType
<1>2. \A k \in 0 .. N : sum[k] \in Nat
  BY SizesGive
<1>3. \A k \in 1 .. N : sum[k] = sum[k - 1] + Size(Chars(services)[k])
  BY SizesGive
<1>4. \A k \in 1 .. N : Size(Chars(services)[k]) \in Nat
  BY CharsType, SizeIs
<1> HIDE DEF N, sum
<1>5. 0 \in T
  BY <1>1
<1>6. ASSUME NEW k \in 0 .. N - 1, k \in T PROVE k + 1 \in T
  <2>1. k + 1 \in 1 .. N /\ k + 1 \in 0 .. N /\ k \in 0 .. N /\ (k + 1) - 1 = k /\ m \in 0 .. N
    BY <1>1
  <2>2. sum[k + 1] = sum[k] + Size(Chars(services)[k + 1])
    BY <1>3, <2>1
  <2>3. sum[k] \in Nat /\ sum[k + 1] \in Nat /\ sum[m] \in Nat
    BY <1>2, <2>1
  <2>4. sum[k] <= sum[k + 1]
    BY <1>4, <2>1, <2>2, <2>3
  <2>5. ASSUME m <= k + 1 PROVE sum[m] <= sum[k + 1]
    <3>1. CASE m = k + 1
      BY <2>3, <3>1
    <3>2. CASE m # k + 1
      <4>1. m <= k
        BY <2>1, <2>5, <3>2
      <4>2. QED
        BY <1>6, <2>3, <2>4, <4>1
    <3>3. QED
      BY <3>1, <3>2
  <2>6. QED
    BY <2>1, <2>5
<1> HIDE DEF T
<1>7. 0 .. N \subseteq T
  BY <1>1, <1>5, <1>6, UpTo
<1>8. n - 1 \in 0 .. N /\ m <= n - 1
  BY <1>1
<1>9. sum[m] <= sum[n - 1]
  BY <1>7, <1>8 DEF T
<1>10. sum[m] = sum[m - 1] + Size(Chars(services)[m])
  BY <1>1, <1>3
<1>11. QED
  BY <1>9, <1>10 DEF sum

\* Two characteristics have no handle in common, nor one with a service declaration.
LEMMA HandlesApart ==
  ASSUME NEW services \in Services, NEW n \in DOMAIN Chars(services)
  PROVE  /\ Handle(services, n) \in Nat
         /\ \A m \in 1 .. n - 1 :
              Handle(services, m) + Size(Chars(services)[m]) <= Handle(services, n)
<1>1. \A k \in DOMAIN Chars(services) :
        /\ ServiceOf(services, k) \in Nat /\ Sizes(services)[k - 1] \in Nat
        /\ Handle(services, k) = GapEnd + ServiceOf(services, k) + Sizes(services)[k - 1] + 2
        /\ Size(Chars(services)[k]) \in Nat
  <2>1. ASSUME NEW k \in DOMAIN Chars(services)
        PROVE  /\ ServiceOf(services, k) \in Nat /\ Sizes(services)[k - 1] \in Nat
               /\ Size(Chars(services)[k]) \in Nat
    <3>1. k - 1 \in 0 .. Len(Chars(services))
      BY CharsType
    <3>2. ServiceOf(services, k) \in Nat
      BY ServiceIs, BuiltType
    <3>3. QED
      BY <3>1, <3>2, SizesGive, CharsType, SizeIs
  <2>2. QED
    BY <2>1 DEF Handle
<1>2. ASSUME NEW m \in 1 .. n - 1
      PROVE  Handle(services, m) + Size(Chars(services)[m]) <= Handle(services, n)
  <2>1. m \in DOMAIN Chars(services) /\ m <= n
    BY CharsType
  <2>2. ServiceOf(services, m) <= ServiceOf(services, n)
    BY <2>1, ServiceGrows
  <2>3. Sizes(services)[m - 1] + Size(Chars(services)[m]) <= Sizes(services)[n - 1]
    BY SizesGrow
  <2>4. QED
    BY <1>1, <2>1, <2>2, <2>3, GapAssumption
<1>3. QED
  BY <1>1, <1>2, GapAssumption

LEMMA SameChr ==
  ASSUME NEW services \in Services, NEW h \in Nat,
         NEW m \in DOMAIN Chars(services), NEW n \in DOMAIN Chars(services),
         Handle(services, m) <= h, h < Handle(services, m) + Size(Chars(services)[m]),
         Handle(services, n) <= h, h < Handle(services, n) + Size(Chars(services)[n])
  PROVE  m = n
<1>1. /\ m \in Nat /\ n \in Nat /\ m >= 1 /\ n >= 1
      /\ Handle(services, m) \in Nat /\ Handle(services, n) \in Nat
      /\ Size(Chars(services)[m]) \in Nat /\ Size(Chars(services)[n]) \in Nat
  BY CharsType, HandlesApart, SizeIs
<1>2. ASSUME m < n PROVE FALSE
  <2>1. m \in 1 .. n - 1
    BY <1>1, <1>2
  <2>2. Handle(services, m) + Size(Chars(services)[m]) <= Handle(services, n)
    BY <2>1, HandlesApart
  <2>3. QED
    BY <1>1, <2>2
<1>3. ASSUME n < m PROVE FALSE
  <2>1. n \in 1 .. m - 1
    BY <1>1, <1>3
  <2>2. Handle(services, n) + Size(Chars(services)[n]) <= Handle(services, m)
    BY <2>1, HandlesApart
  <2>3. QED
    BY <1>1, <2>2
<1>4. QED
  BY <1>1, <1>2, <1>3

\* How far the CCCD pushes the descriptors.
Shift(c) == IF c.cccd THEN 1 ELSE 0

\* The attribute a of the n-th characteristic c, whose value has handle h.
ValueOf(a, c, n, h) == c.write /\ a = [kind |-> "value", chr |-> n, desc |-> 0, handle |-> h]
CccdOf(a, c, n, h) == c.cccd /\ a = [kind |-> "cccd", chr |-> n, desc |-> 0, handle |-> h + 1]
DescOf(a, c, n, h) ==
  /\ a.desc \in 1 .. c.descs
  /\ a = [kind |-> "desc", chr |-> n, desc |-> a.desc, handle |-> h + Shift(c) + a.desc]

LEMMA AttrIs ==
  ASSUME NEW services, NEW a \in Attributes(services)
  PROVE  LET c == Chars(services)[a.chr]
             h == Handle(services, a.chr)
         IN  /\ a.chr \in DOMAIN Chars(services)
             /\ ValueOf(a, c, a.chr, h) \/ CccdOf(a, c, a.chr, h) \/ DescOf(a, c, a.chr, h)
<1>1. PICK n \in DOMAIN Chars(services) : a \in AttributesOf(services, n)
  BY DEF Attributes
<1> DEFINE c == Chars(services)[n]
           h == Handle(services, n)
<1>2. \/ c.write /\ a \in [kind : {"value"}, chr : {n}, desc : {0}, handle : {h}]
      \/ c.cccd /\ a \in [kind : {"cccd"}, chr : {n}, desc : {0}, handle : {h + 1}]
      \/ \E k \in 1 .. c.descs :
           a = [kind |-> "desc", chr |-> n, desc |-> k, handle |-> h + Shift(c) + k]
  BY <1>1, Zenon DEF AttributesOf, Shift
<1> HIDE DEF c, h
<1>3. a.chr = n /\ (ValueOf(a, c, n, h) \/ CccdOf(a, c, n, h) \/ DescOf(a, c, n, h))
  BY <1>2 DEF ValueOf, CccdOf, DescOf
<1>4. QED
  BY <1>1, <1>3 DEF c, h

LEMMA AttrHandle ==
  ASSUME NEW services \in Services, NEW a \in Attributes(services)
  PROVE  /\ a.handle \in Nat
         /\ Handle(services, a.chr) <= a.handle
         /\ a.handle + 1 < Handle(services, a.chr) + Size(Chars(services)[a.chr])
<1> DEFINE c == Chars(services)[a.chr]
           h == Handle(services, a.chr)
<1>1. a.chr \in DOMAIN Chars(services)
  BY AttrIs
<1>2. c \in Chr /\ h \in Nat
  BY <1>1, CharsType, HandlesApart
<1>3. ValueOf(a, c, a.chr, h) \/ CccdOf(a, c, a.chr, h) \/ DescOf(a, c, a.chr, h)
  BY AttrIs
<1> HIDE DEF c, h
<1>4. c.cccd \in BOOLEAN /\ c.descs \in Nat
  BY <1>2 DEF Chr
<1>5. /\ a.handle \in Nat /\ h <= a.handle /\ a.handle + 1 < h + Size(c)
  <2>1. CASE ValueOf(a, c, a.chr, h)
    <3>1. a.handle = h
      BY <2>1 DEF ValueOf
    <3>2. QED
      BY <1>2, <1>4, <3>1 DEF Size
  <2>2. CASE CccdOf(a, c, a.chr, h)
    <3>1. a.handle = h + 1 /\ c.cccd
      BY <2>2 DEF CccdOf
    <3>2. QED
      BY <1>2, <1>4, <3>1 DEF Size
  <2>3. CASE DescOf(a, c, a.chr, h)
    <3>1. a.handle = h + Shift(c) + a.desc /\ a.desc \in 1 .. c.descs
      BY <2>3 DEF DescOf
    <3>2. QED
      BY <1>2, <1>4, <3>1 DEF Size, Shift
  <2>4. QED
    BY <1>3, <2>1, <2>2, <2>3
<1>6. QED
  BY <1>5 DEF c, h

\* No two attributes have one handle.
LEMMA OneHandle ==
  ASSUME NEW services \in Services, NEW a \in Attributes(services),
         NEW b \in Attributes(services), a.handle = b.handle
  PROVE  a = b
<1> DEFINE c == Chars(services)[a.chr]
           h == Handle(services, a.chr)
<1>1. a.chr \in DOMAIN Chars(services) /\ b.chr \in DOMAIN Chars(services)
  BY AttrIs
<1>2. a.chr = b.chr
  <2>1. /\ Handle(services, a.chr) \in Nat /\ Handle(services, b.chr) \in Nat
        /\ Size(Chars(services)[a.chr]) \in Nat /\ Size(Chars(services)[b.chr]) \in Nat
    BY <1>1, CharsType, HandlesApart, SizeIs
  <2>2. /\ a.handle \in Nat
        /\ Handle(services, a.chr) <= a.handle
        /\ a.handle < Handle(services, a.chr) + Size(Chars(services)[a.chr])
        /\ Handle(services, b.chr) <= a.handle
        /\ a.handle < Handle(services, b.chr) + Size(Chars(services)[b.chr])
    BY <2>1, AttrHandle
  <2>3. QED
    BY <1>1, <2>2, SameChr
<1>3. c \in Chr /\ h \in Nat
  BY <1>1, CharsType, HandlesApart
<1>4. /\ ValueOf(a, c, a.chr, h) \/ CccdOf(a, c, a.chr, h) \/ DescOf(a, c, a.chr, h)
      /\ ValueOf(b, c, a.chr, h) \/ CccdOf(b, c, a.chr, h) \/ DescOf(b, c, a.chr, h)
  BY <1>2, AttrIs
<1> HIDE DEF c, h
<1>5. c.cccd \in BOOLEAN
  BY <1>3 DEF Chr
<1>6. QED
  BY <1>3, <1>4, <1>5 DEF ValueOf, CccdOf, DescOf, Shift

\* The callback of an attribute, said of the attribute and not of its handle.
Heard(services, a) ==
  [cb   |-> CASE a.kind = "value" -> (IF a.chr - 1 = NusRxIndex(services) THEN "data" ELSE "write")
              [] a.kind = "cccd" -> "subscription"
              [] a.kind = "desc" -> "descriptor",
   chr  |-> a.chr - 1,
   desc |-> IF a.kind = "desc" THEN a.desc - 1 ELSE 0]

Hits(services, h) ==
  {n \in DOMAIN Chars(services) : \/ Handle(services, n) = h
                                  \/ Chars(services)[n].cccd /\ Handle(services, n) + 1 = h}

\* The event loop finds the value or the CCCD with a handle, and no other.
LEMMA HitsAre ==
  ASSUME NEW services \in Services, NEW a \in Attributes(services)
  PROVE  Hits(services, a.handle) = IF a.kind = "desc" THEN {} ELSE {a.chr}
<1> DEFINE c == Chars(services)[a.chr]
           h == Handle(services, a.chr)
<1>1. ASSUME NEW n \in Hits(services, a.handle) PROVE n = a.chr
  <2>1. n \in DOMAIN Chars(services) /\ a.chr \in DOMAIN Chars(services)
    BY AttrIs DEF Hits
  <2>2. /\ Handle(services, n) \in Nat /\ Handle(services, a.chr) \in Nat
        /\ Chars(services)[n] \in Chr /\ Size(Chars(services)[a.chr]) \in Nat
    BY <2>1, CharsType, HandlesApart, SizeIs
  <2>3. \/ Handle(services, n) = a.handle
        \/ Chars(services)[n].cccd /\ Handle(services, n) + 1 = a.handle
    BY DEF Hits
  <2>4. Handle(services, n) <= a.handle
        /\ a.handle < Handle(services, n) + Size(Chars(services)[n])
    BY <2>2, <2>3 DEF Size, Chr
  <2>5. /\ a.handle \in Nat /\ Handle(services, a.chr) <= a.handle
        /\ a.handle < Handle(services, a.chr) + Size(Chars(services)[a.chr])
    BY <2>2, AttrHandle
  <2>6. QED
    BY <2>1, <2>4, <2>5, SameChr
<1>2. a.chr \in Hits(services, a.handle) <=> a.kind # "desc"
  <2>1. a.chr \in DOMAIN Chars(services)
    BY AttrIs
  <2>2. h \in Nat /\ c \in Chr
    BY <2>1, CharsType, HandlesApart
  <2>3. ValueOf(a, c, a.chr, h) \/ CccdOf(a, c, a.chr, h) \/ DescOf(a, c, a.chr, h)
    BY AttrIs
  <2>4. a.chr \in Hits(services, a.handle) <=> h = a.handle \/ (c.cccd /\ h + 1 = a.handle)
    BY <2>1 DEF Hits
  <2> HIDE DEF c, h
  <2>5. c.cccd \in BOOLEAN /\ c.descs \in Nat
    BY <2>2 DEF Chr
  <2>6. CASE ValueOf(a, c, a.chr, h)
    BY <2>4, <2>6 DEF ValueOf
  <2>7. CASE CccdOf(a, c, a.chr, h)
    BY <2>4, <2>7 DEF CccdOf
  <2>8. CASE DescOf(a, c, a.chr, h)
    <3>1. a.kind = "desc" /\ a.desc \in Nat /\ a.desc > 0 /\ a.handle = h + Shift(c) + a.desc
      BY <2>5, <2>8 DEF DescOf
    <3>2. QED
      BY <2>2, <2>4, <2>5, <3>1 DEF Shift
  <2>9. QED
    BY <2>3, <2>6, <2>7, <2>8
<1>3. QED
  BY <1>1, <1>2

LEMMA CallbackGives ==
  ASSUME NEW services \in Services, NEW a \in Attributes(services)
  PROVE  Callback(services, a.handle) = Heard(services, a)
<1> DEFINE c == Chars(services)[a.chr]
           h == Handle(services, a.chr)
           hits == Hits(services, a.handle)
           first == CHOOSE n \in hits : \A m \in hits : n <= m
           descs == {b \in Attributes(services) : b.kind = "desc" /\ b.handle = a.handle}
           desc == CHOOSE b \in descs : TRUE
<1>1. a.chr \in DOMAIN Chars(services) /\ a.chr \in Nat
  BY AttrIs, CharsType
<1>2. h \in Nat /\ c \in Chr
  BY <1>1, CharsType, HandlesApart
<1>3. ValueOf(a, c, a.chr, h) \/ CccdOf(a, c, a.chr, h) \/ DescOf(a, c, a.chr, h)
  BY AttrIs
<1>4. hits = IF a.kind = "desc" THEN {} ELSE {a.chr}
  BY HitsAre
<1>5. Callback(services, a.handle) =
        IF hits # {} THEN
          IF Handle(services, first) = a.handle
          THEN [cb |-> IF first - 1 = NusRxIndex(services) THEN "data" ELSE "write",
                chr |-> first - 1, desc |-> 0]
          ELSE [cb |-> "subscription", chr |-> first - 1, desc |-> 0]
        ELSE IF descs # {} THEN [cb |-> "descriptor", chr |-> desc.chr - 1, desc |-> desc.desc - 1]
        ELSE [cb |-> "none", chr |-> NoIndex, desc |-> 0]
  BY DEF Callback, Hits
<1> HIDE DEF c, hits
<1>6. CASE a.kind = "desc"
  <2>1. descs = {a}
    BY <1>6, OneHandle
  <2>2. desc = a
    BY <2>1
  <2> HIDE DEF desc, descs, first
  <2>3. Callback(services, a.handle) =
          [cb |-> "descriptor", chr |-> a.chr - 1, desc |-> a.desc - 1]
    BY <1>4, <1>5, <1>6, <2>1, <2>2
  <2>4. QED
    BY <1>6, <2>3 DEF Heard
<1>7. CASE a.kind # "desc"
  <2>1. hits = {a.chr}
    BY <1>4, <1>7
  <2>2. first = a.chr
    <3>1. \E n \in hits : \A m \in hits : n <= m
      BY <1>1, <2>1
    <3>2. first \in hits
      BY <3>1
    <3>3. QED
      BY <2>1, <3>2
  <2> HIDE DEF desc, descs, first
  <2>3. Callback(services, a.handle) =
          IF h = a.handle
          THEN [cb |-> IF a.chr - 1 = NusRxIndex(services) THEN "data" ELSE "write",
                chr |-> a.chr - 1, desc |-> 0]
          ELSE [cb |-> "subscription", chr |-> a.chr - 1, desc |-> 0]
    BY <1>5, <2>1, <2>2
  <2> HIDE DEF h
  <2>4. CASE ValueOf(a, c, a.chr, h)
    <3>1. h = a.handle /\ a.kind = "value"
      BY <2>4 DEF ValueOf
    <3>2. QED
      BY <2>3, <3>1 DEF Heard
  <2>5. CASE CccdOf(a, c, a.chr, h)
    <3>1. h # a.handle /\ a.kind = "cccd"
      BY <1>2, <2>5 DEF CccdOf
    <3>2. QED
      BY <2>3, <3>1 DEF Heard
  <2>6. QED
    BY <1>3, <1>7, <2>4, <2>5 DEF DescOf
<1>8. QED
  BY <1>6, <1>7

LEMMA BuiltInChars ==
  ASSUME <<>> \in Services
  PROVE  Len(Chars(<<>>)) = 2 /\ Chars(<<>>)[1] = NusRx /\ Chars(<<>>)[2] = NusTx
<1> DEFINE nus == <<NusRx, NusTx>>
<1>1. Built(<<>>) = <<nus>> /\ Len(<<nus>>) = 1 /\ <<nus>>[1] = nus
  BY DEF Built
<1>2. Upto(<<>>)[1] = Upto(<<>>)[0] \o nus /\ Upto(<<>>)[0] = <<>>
  <2>1. 1 \in 1 .. Len(Built(<<>>)) /\ 1 - 1 = 0
    BY <1>1
  <2>2. QED
    BY <1>1, <2>1, UptoGives
<1>3. NusRx \in Chr /\ NusTx \in Chr
  BY DEF NusRx, NusTx, Chr
<1>4. nus \in Seq(Chr) /\ Len(nus) = 2 /\ nus[1] = NusRx /\ nus[2] = NusTx
  BY <1>3
<1> HIDE DEF nus
<1>5. Chars(<<>>) = nus
  BY <1>1, <1>2, <1>4, ConcatEmptySeq DEF Chars
<1>6. QED
  BY <1>4, <1>5

\* The application's index of a characteristic whose UUID is the only one.
LEMMA CharIndexGives ==
  ASSUME NEW services \in Services, services # <<>>, NEW n \in DOMAIN Chars(services),
         \A m \in DOMAIN Chars(services) :
           Chars(services)[m].uuid = Chars(services)[n].uuid => m = n
  PROVE  CharIndex(services, Chars(services)[n].uuid) = n - 1
<1> DEFINE hits == {m \in DOMAIN Chars(services) :
                      Chars(services)[m].uuid = Chars(services)[n].uuid}
           first == CHOOSE m \in hits : \A k \in hits : m <= k
<1>1. hits = {n}
  OBVIOUS
<1>2. n \in Nat
  BY CharsType
<1>3. CharIndex(services, Chars(services)[n].uuid) = IF hits = {} THEN NoIndex ELSE first - 1
  BY DEF CharIndex
<1> HIDE DEF hits
<1>4. \E m \in hits : \A k \in hits : m <= k
  BY <1>1, <1>2
<1>5. first \in hits
  BY <1>4
<1> HIDE DEF first
<1>6. QED
  BY <1>1, <1>3, <1>5

LEMMA ConfigServices ==
  ASSUME NEW c \in Configs
  PROVE  c.services \in Services
<1> DEFINE C == [uuid : STRING, write : BOOLEAN, cccd : BOOLEAN, descs : Nat]
<1>1. c.services \in Seq(Seq(C))
  BY ConfigAssumption DEF Config
<1>2. C \subseteq Chr
  BY DEF Chr
<1> HIDE DEF C
<1>3. Seq(C) \subseteq Seq(Chr)
  BY <1>2, SeqMonotonic
<1>4. QED
  BY <1>1, <1>3, SeqMonotonic DEF Services

LEMMA HeardAsExpected ==
  ASSUME Distinct, NEW c \in Configs, NEW a \in Attributes(c.services)
  PROVE  Expected(c.services, a) = Heard(c.services, a)
<1> DEFINE services == c.services
           chars == Chars(services)
           h == Handle(services, a.chr)
<1>1. services \in Services
  BY ConfigServices
<1>2. a.chr \in 1 .. Len(chars) /\ DOMAIN chars = 1 .. Len(chars) /\ Len(chars) \in Nat
  BY <1>1, AttrIs, CharsType
<1>3. \/ ValueOf(a, chars[a.chr], a.chr, h)
      \/ CccdOf(a, chars[a.chr], a.chr, h)
      \/ DescOf(a, chars[a.chr], a.chr, h)
  BY <1>1, AttrIs
<1>4. CASE services = <<>>
  <2>1. Len(chars) = 2 /\ chars[1] = NusRx /\ chars[2] = NusTx
    BY <1>1, <1>4, BuiltInChars
  <2>2. NusRxIndex(services) = 0
    BY <1>4 DEF NusRxIndex
  <2>3. Expected(services, a) = [cb |-> IF a.kind = "value" THEN "data" ELSE "subscription",
                                 chr |-> a.chr - 1, desc |-> 0]
    BY <1>4 DEF Expected
  <2> HIDE DEF services, chars, h
  <2>4. a.chr = 1 \/ a.chr = 2
    BY <1>2, <2>1
  <2>5. (a.kind = "value" /\ a.chr = 1) \/ (a.kind = "cccd" /\ a.chr = 2)
    BY <1>3, <2>1, <2>4 DEF ValueOf, CccdOf, DescOf, NusRx, NusTx
  <2>6. Expected(services, a) = Heard(services, a)
    BY <2>2, <2>3, <2>5 DEF Heard
  <2>7. QED
    BY <2>6 DEF services
<1>5. CASE services # <<>>
  <2>1. NusRxIndex(services) = NoIndex
    BY <1>5 DEF NusRxIndex
  <2>2. NoIndex \in Nat /\ Len(chars) <= NoIndex
    BY IndexAssumption
  <2>3. \A m \in DOMAIN chars : chars[m].uuid = chars[a.chr].uuid => m = a.chr
    BY <1>2 DEF Distinct
  <2>4. CharIndex(services, chars[a.chr].uuid) = a.chr - 1
    BY <1>1, <1>2, <1>5, <2>3, CharIndexGives
  <2>5. Expected(services, a) =
          [cb |-> CASE a.kind = "value" -> "write" [] a.kind = "cccd" -> "subscription"
                    [] a.kind = "desc" -> "descriptor",
           chr |-> CharIndex(services, chars[a.chr].uuid),
           desc |-> IF a.kind = "desc" THEN a.desc - 1 ELSE 0]
    BY <1>5 DEF Expected
  <2> HIDE DEF services, chars, h
  <2>6. a.chr - 1 # NoIndex
    BY <1>2, <2>2
  <2>7. Expected(services, a) = Heard(services, a)
    BY <2>1, <2>4, <2>5, <2>6, Zenon DEF Heard
  <2>8. QED
    BY <2>7 DEF services
<1>6. QED
  BY <1>4, <1>5

\* Whatever services are configured, an attribute that a central writes is reported by the
\* callback and with the index that an application finds with runtime_ble_char_index
\* (lib.rs), and no other attribute is reported in the same way: build_gatt, the search by
\* handle (radio.rs) and the search by UUID count alike.
THEOREM CountsAlike ==
  ASSUME Distinct
  PROVE  Indexed
<1> SUFFICES ASSUME NEW c \in Configs, NEW a \in Attributes(c.services)
             PROVE  /\ Expected(c.services, a) = Callback(c.services, a.handle)
                    /\ a.kind = "cccd" <=> Callback(c.services, a.handle).cb = "subscription"
                    /\ \A b \in Attributes(c.services) :
                         Callback(c.services, a.handle) = Callback(c.services, b.handle) => a = b
  BY DEF Indexed
<1>1. c.services \in Services
  BY ConfigServices
<1>2. \A b \in Attributes(c.services) :
        /\ Callback(c.services, b.handle) = Heard(c.services, b)
        /\ b.kind \in {"value", "cccd", "desc"} /\ b.chr \in Nat
        /\ b.kind = "desc" => b.desc \in Nat
  <2>1. ASSUME NEW b \in Attributes(c.services)
        PROVE  /\ b.kind \in {"value", "cccd", "desc"} /\ b.chr \in Nat
               /\ b.kind = "desc" => b.desc \in Nat
    <3> DEFINE d == Chars(c.services)[b.chr]
               h == Handle(c.services, b.chr)
    <3>1. b.chr \in DOMAIN Chars(c.services)
      BY AttrIs
    <3>2. b.chr \in Nat /\ d \in Chr
      BY <1>1, <3>1, CharsType
    <3>3. ValueOf(b, d, b.chr, h) \/ CccdOf(b, d, b.chr, h) \/ DescOf(b, d, b.chr, h)
      BY AttrIs
    <3> HIDE DEF d, h
    <3>4. QED
      BY <3>2, <3>3 DEF ValueOf, CccdOf, DescOf, Chr
  <2>2. QED
    BY <1>1, <2>1, CallbackGives
<1>3. a.kind = "cccd" <=> Heard(c.services, a).cb = "subscription"
  BY <1>2 DEF Heard
<1>4. ASSUME NEW b \in Attributes(c.services), Heard(c.services, a) = Heard(c.services, b)
      PROVE  a = b
  <2>1. a.kind = b.kind
    BY <1>2, <1>4 DEF Heard
  <2>2. a.chr = b.chr
    <3>1. Heard(c.services, a).chr = a.chr - 1 /\ Heard(c.services, b).chr = b.chr - 1
      BY DEF Heard
    <3>2. QED
      BY <1>2, <1>4, <3>1
  <2>3. a.kind = "desc" => a.desc = b.desc
    <3>1. SUFFICES ASSUME a.kind = "desc" PROVE a.desc = b.desc
      OBVIOUS
    <3>2. a.desc \in Nat /\ b.desc \in Nat
      BY <1>2, <2>1, <3>1
    <3>3. Heard(c.services, a).desc = a.desc - 1 /\ Heard(c.services, b).desc = b.desc - 1
      BY <2>1, <3>1 DEF Heard
    <3>4. QED
      BY <1>4, <3>2, <3>3
  <2> DEFINE d == Chars(c.services)[a.chr]
             h == Handle(c.services, a.chr)
  <2>4. /\ ValueOf(a, d, a.chr, h) \/ CccdOf(a, d, a.chr, h) \/ DescOf(a, d, a.chr, h)
        /\ ValueOf(b, d, a.chr, h) \/ CccdOf(b, d, a.chr, h) \/ DescOf(b, d, a.chr, h)
    BY <2>2, AttrIs
  <2> HIDE DEF d, h
  <2>5. QED
    BY <2>1, <2>3, <2>4 DEF ValueOf, CccdOf, DescOf
<1>5. QED
  BY <1>2, <1>3, <1>4, HeardAsExpected
-----------------------------------------------------------------------------
(***************************************************************************)
(* The payload.                                                            *)
(***************************************************************************)
Adv == [raw : Nat, man : Nat, uuid : Nat, sdata : Nat, appearance : BOOLEAN,
        txPower : BOOLEAN, name : Nat, scan : Nat]

\* A structure that does not fit is not forgotten by those after it.
LEMMA PushedGives ==
  ASSUME NEW max \in {AdvMax, ExtMax}, NEW adv \in Adv
  PROVE  /\ Pushed(max, adv) \in Nat /\ Needs(adv) \in Nat /\ Never > max
         /\ Needs(adv) <= max => Pushed(max, adv) = Needs(adv)
         /\ Needs(adv) > max => Pushed(max, adv) = Never
<1> DEFINE a == AppearanceLen(adv)
           t == TxPowerLen(adv)
           p0 == PushAd(max, 0, 1)
           p1 == PushOpt(max, p0, adv.man)
           p2 == PushOpt(max, p1, adv.uuid)
           p3 == PushOpt(max, p2, adv.sdata)
           p4 == PushOpt(max, p3, a)
           p5 == PushOpt(max, p4, t)
           \* What p is when n bytes are asked for.
           Good(p, n) == p \in Nat /\ (n <= max => p = n) /\ (n > max => p = Never)
<1>1. adv.man \in Nat /\ adv.uuid \in Nat /\ adv.sdata \in Nat /\ a \in Nat /\ t \in Nat
  BY DEF Adv, AppearanceLen, TxPowerLen
<1>2. max \in Nat /\ Never \in Nat /\ Never > max
  BY MaxAssumption DEF Never
<1>3. ASSUME NEW p \in Nat, NEW n \in Nat, NEW len \in Nat, Good(p, n)
      PROVE  Good(PushOpt(max, p, len), n + Takes(len)) /\ n + Takes(len) \in Nat
  BY <1>2, <1>3 DEF PushOpt, PushAd, Takes
<1>4. p0 \in Nat /\ Good(p0, 3)
  BY <1>2 DEF PushAd
<1> DEFINE n1 == 3 + Takes(adv.man)
           n2 == n1 + Takes(adv.uuid)
           n3 == n2 + Takes(adv.sdata)
           n4 == n3 + Takes(a)
           n5 == n4 + Takes(t)
<1>5. Needs(adv) = n5
  BY DEF Needs
<1>6. Pushed(max, adv) = p5
  BY DEF Pushed
<1> HIDE DEF p0, a, t
<1>7. p1 \in Nat /\ n1 \in Nat /\ Good(p1, n1)
  <2> HIDE DEF Good
  <2>1. Good(p1, n1) /\ n1 \in Nat
    BY <1>1, <1>3, <1>4
  <2>2. QED
    BY <2>1 DEF Good
<1> HIDE DEF p1, n1
<1>8. p2 \in Nat /\ n2 \in Nat /\ Good(p2, n2)
  <2> HIDE DEF Good
  <2>1. Good(p2, n2) /\ n2 \in Nat
    BY <1>1, <1>3, <1>7
  <2>2. QED
    BY <2>1 DEF Good
<1> HIDE DEF p2, n2
<1>9. p3 \in Nat /\ n3 \in Nat /\ Good(p3, n3)
  <2> HIDE DEF Good
  <2>1. Good(p3, n3) /\ n3 \in Nat
    BY <1>1, <1>3, <1>8
  <2>2. QED
    BY <2>1 DEF Good
<1> HIDE DEF p3, n3
<1>10. p4 \in Nat /\ n4 \in Nat /\ Good(p4, n4)
  <2> HIDE DEF Good
  <2>1. Good(p4, n4) /\ n4 \in Nat
    BY <1>1, <1>3, <1>9
  <2>2. QED
    BY <2>1 DEF Good
<1> HIDE DEF p4, n4
<1>11. p5 \in Nat /\ n5 \in Nat /\ Good(p5, n5)
  <2> HIDE DEF Good
  <2>1. Good(p5, n5) /\ n5 \in Nat
    BY <1>1, <1>3, <1>10
  <2>2. QED
    BY <2>1 DEF Good
<1> HIDE DEF p5, n5
<1>12. QED
  BY <1>2, <1>5, <1>6, <1>11

\* advertising_payload and advertising_payload_ext (radio.rs) give a payload if and only
\* if what is configured fits, and then advertising_parts does: serve tries again and
\* again in vain only where no payload would do.
THEOREM PayloadWhenFits ==
  ASSUME cfg \in Configs
  PROVE  HasPayload <=> CanAdvertise
<1> DEFINE adv == cfg.adv
           legacy == LegacyPayload(adv)
           long == ExtPayload(adv)
<1>1. adv \in Adv /\ cfg.directed \in {"none", "low", "high"}
      /\ cfg.nonconnectable \in BOOLEAN /\ cfg.ext \in BOOLEAN
  BY ConfigAssumption DEF Config, Adv
<1>2. /\ adv.raw \in Nat /\ adv.name \in Nat /\ adv.scan \in Nat
      /\ AdvMax \in Nat /\ ExtMax \in Nat /\ Never = 1 + ExtMax + AdvMax
  BY <1>1, MaxAssumption DEF Adv, Never
<1>3. legacy # Never <=> FitsLegacy(adv)
  <2> DEFINE pos == Pushed(AdvMax, adv)
             needs == Needs(adv)
  <2>1. /\ pos \in Nat /\ needs \in Nat
        /\ needs <= AdvMax => pos = needs
        /\ needs > AdvMax => pos = Never
    BY <1>1, PushedGives
  <2>2. legacy = IF adv.raw # 0 THEN IF adv.raw > AdvMax THEN Never ELSE adv.raw
                 ELSE IF pos > AdvMax THEN Never
                 ELSE IF PushAd(AdvMax, pos, adv.name) # Never THEN PushAd(AdvMax, pos, adv.name)
                 ELSE IF AdvMax - pos < 3 THEN Never ELSE AdvMax
    BY DEF LegacyPayload
  <2>3. FitsLegacy(adv) <=> IF adv.raw # 0 THEN adv.raw <= AdvMax
                            ELSE needs + (IF adv.name = 0 THEN 2 ELSE 3) <= AdvMax
    BY DEF FitsLegacy
  <2> HIDE DEF adv, pos, needs, legacy
  <2>4. QED
    BY <1>2, <2>1, <2>2, <2>3 DEF PushAd
<1>4. /\ long # Never <=> FitsExt(adv)
      /\ FitsExt(adv) => \A more \in Nat : FitsExtWith(adv, more) <=> long + more <= ExtMax
  <2> DEFINE pos == Pushed(ExtMax, adv)
             needs == Needs(adv)
  <2>1. /\ pos \in Nat /\ needs \in Nat
        /\ needs <= ExtMax => pos = needs
        /\ needs > ExtMax => pos = Never
    BY <1>1, PushedGives
  <2>2. long = IF adv.raw # 0 THEN IF adv.raw > ExtMax THEN Never ELSE adv.raw
               ELSE IF pos > ExtMax THEN Never
               ELSE IF adv.name = 0 THEN pos ELSE PushAd(ExtMax, pos, adv.name)
    BY DEF ExtPayload
  <2>3. \A more : FitsExtWith(adv, more) <=>
          (IF adv.raw # 0 THEN adv.raw
           ELSE needs + (IF adv.name = 0 THEN 0 ELSE adv.name + 2)) + more <= ExtMax
    BY DEF FitsExtWith
  <2> HIDE DEF adv, pos, needs, long
  <2>4. QED
    BY <1>2, <2>1, <2>2, <2>3 DEF PushAd, FitsExt
<1>5. HasPayload <=>
        IF cfg.nonconnectable \/ Extended \/ cfg.directed = "none"
        THEN /\ (IF Extended THEN long ELSE legacy) # Never
             /\ Extended => adv.scan <= ExtMax
             /\ Extended /\ cfg.nonconnectable =>
                  (IF Extended THEN long ELSE legacy) + adv.scan <= ExtMax
        ELSE TRUE
  BY DEF HasPayload
<1>6. CanAdvertise <=>
        IF Extended THEN FitsExt(adv) /\ adv.scan <= ExtMax
                         /\ (cfg.nonconnectable => FitsExtWith(adv, adv.scan))
        ELSE cfg.nonconnectable \/ cfg.directed = "none" => FitsLegacy(adv)
  BY DEF CanAdvertise
<1> HIDE DEF adv, legacy, long
<1>7. QED
  BY <1>2, <1>3, <1>4, <1>5, <1>6

-----------------------------------------------------------------------------
(***************************************************************************)
(* What the application knows.                                             *)
(***************************************************************************)
\* The steps that leave the table and what was told alone, but for a callback.
LEMMA KnowKept ==
  ASSUME KnowInv, pc # "callback", UNCHANGED <<cfg, table, told, lost>>
  PROVE  KnowInv'
<1>1. Attrs' = Attrs /\ \A a : Cb(a)' = Cb(a)
  BY DEF Attrs, Cb
<1>2. QED
  BY <1>1 DEF KnowInv

\* Subscriptions go with the link, on both sides.
LEMMA LeaveKnows ==
  ASSUME Indexed, TypeOK, KnowInv, Leave, pc # "callback"
  PROVE  KnowInv'
<1>1. Attrs' = Attrs /\ \A a : Cb(a)' = Cb(a)
  BY DEF Leave, Attrs, Cb
<1>2. ASSUME NEW a \in Attrs, a \notin lost' PROVE told'[Cb(a)] = table'[a]
  <2>1. Cb(a) \in Reports /\ (a.kind = "cccd" <=> Cb(a).cb = "subscription")
    BY DEF Indexed, TypeOK, Attrs, Reports, Cb
  <2>2. told'[Cb(a)] = IF Cb(a).cb = "subscription" THEN Initial ELSE told[Cb(a)]
    BY <2>1 DEF Leave
  <2>3. table'[a] = IF a.kind = "cccd" THEN Initial ELSE table[a]
    BY DEF Leave
  <2>4. CASE a.kind = "cccd"
    BY <2>1, <2>2, <2>3, <2>4
  <2>5. CASE a.kind # "cccd"
    <3>1. a \notin lost
      BY <1>2, <2>5 DEF Leave
    <3>2. QED
      BY <2>1, <2>2, <2>3, <2>5, <3>1 DEF KnowInv
  <2>6. QED
    BY <2>4, <2>5
<1>3. QED
  BY <1>1, <1>2 DEF KnowInv

LEMMA EventKnows ==
  ASSUME Indexed, TypeOK, KnowInv, Write \/ WriteRefused \/ OtherRequest \/ ReplySent \/ Report
  PROVE  KnowInv'
<1>1. Attrs' = Attrs /\ \A a : Cb(a)' = Cb(a)
  BY DEF Write, WriteRefused, OtherRequest, ReplySent, Report, Attrs, Cb
<1>2. CASE Write
  <2>1. PICK a \in Attrs, v \in Values :
          /\ table' = [table EXCEPT ![a] = v] /\ lost' = lost \cup {a}
    BY <1>2 DEF Write
  <2>2. pc # "callback" /\ told' = told
    BY <1>2 DEF Write
  <2>3. \A b \in Attrs \ lost' : told'[Cb(b)] = table'[b]
    BY <2>1, <2>2 DEF KnowInv, TypeOK
  <2>4. QED
    BY <1>1, <2>3 DEF KnowInv
<1>3. CASE WriteRefused \/ OtherRequest
  BY <1>3, KnowKept DEF WriteRefused, OtherRequest
<1>4. CASE ReplySent
  <2>1. /\ pc # "callback" /\ lost' = lost \ {req.attr}
        /\ pc' = (IF req = NoReq THEN "next" ELSE "callback")
        /\ UNCHANGED <<cfg, table, told, req>>
    BY <1>4 DEF ReplySent
  <2>2. CASE req = NoReq
    <3>1. req.attr \notin Attrs
      BY <2>2, RealAttr DEF NoReq, Attrs
    <3>2. lost' = lost
      BY <2>1, <3>1 DEF TypeOK
    <3>3. QED
      BY <2>1, <3>2, KnowKept
  <2>3. CASE req # NoReq
    <3>1. pc' = "callback" /\ req'.attr = req.attr
      BY <2>1, <2>3
    <3>2. \A a \in Attrs \ lost' : told[Cb(a)] = table[a] \/ a = req.attr
      BY <2>1 DEF KnowInv
    <3>3. QED
      BY <1>1, <2>1, <3>1, <3>2 DEF KnowInv
  <2>4. QED
    BY <2>2, <2>3
<1>5. CASE Report
  <2>1. /\ pc = "callback" /\ UNCHANGED table
        /\ told' = [told EXCEPT ![Cb(req.attr)] = req.value]
        /\ lost' = IF table[req.attr] = req.value THEN lost \ {req.attr} ELSE lost \cup {req.attr}
    BY <1>5 DEF Report, Cb
  <2>2. req.attr \in Attrs /\ Cb(req.attr) \in Reports /\ told \in [Reports -> Values \cup {Initial}]
    BY <2>1 DEF TypeOK, Reports, Cb
  <2>3. ASSUME NEW a \in Attrs, a \notin lost' PROVE told'[Cb(a)] = table'[a]
    <3>1. Cb(a) \in Reports
      BY DEF Reports, Cb
    <3>2. CASE a = req.attr
      BY <2>1, <2>2, <2>3, <3>2
    <3>3. CASE a # req.attr
      <4>1. Cb(a) # Cb(req.attr)
        BY <2>2, <3>3 DEF Indexed, TypeOK, Attrs, Cb
      <4>2. a \notin lost
        BY <2>1, <2>3, <3>3
      <4>3. told[Cb(a)] = table[a]
        BY <3>3, <4>2 DEF KnowInv
      <4>4. QED
        BY <2>1, <2>2, <3>1, <4>1, <4>3
    <3>4. QED
      BY <3>2, <3>3
  <2>4. QED
    BY <1>1, <2>3 DEF KnowInv
<1>6. QED
  BY <1>2, <1>3, <1>4, <1>5

LEMMA SessionKnows ==
  ASSUME TypeOK, KnowInv, Load \/ Unload \/ SessionEnds
  PROVE  KnowInv'
<1>1. Attrs' = Attrs /\ \A a : Cb(a)' = Cb(a)
  BY DEF Load, Unload, SessionEnds, Attrs, Cb
<1>2. CASE Load
  <2>1. \A a \in Attrs : Cb(a) \in Reports
    BY DEF Reports, Cb
  <2>2. \A a \in Attrs : told'[Cb(a)] = Initial /\ table'[a] = Initial
    BY <1>2, <2>1 DEF Load
  <2>3. QED
    BY <1>1, <2>2 DEF KnowInv
<1>3. CASE Unload
  BY <1>1, <1>3 DEF Unload, gatt, KnowInv
<1>4. CASE SessionEnds
  <2>1. pc # "callback"
    BY <1>4 DEF SessionEnds, Awaits
  <2>2. QED
    BY <1>4, <2>1, KnowKept DEF SessionEnds
<1>5. QED
  BY <1>2, <1>3, <1>4

LEMMA AdvertisingKnows ==
  ASSUME KnowInv,
         \/ Top \/ Prepare \/ Timer \/ Attach \/ HostSucceeds \/ HostFails
         \/ StopsAdvertising \/ Accept
  PROVE  KnowInv'
<1>1. pc # "callback"
  BY DEF Top, Prepare, Timer, Attach, HostSucceeds, HostFails, StopsAdvertising, Accept
<1>2. UNCHANGED <<cfg, table, told, lost>>
  BY DEF Top, Prepare, Timer, Attach, HostSucceeds, HostFails, StopsAdvertising, Accept, gatt
<1>3. QED
  BY <1>1, <1>2, KnowKept

\* Between two events the application has been told, by the callback and with the index
\* it knows the attribute by, of what the attribute table holds (connection_task's event
\* loop, radio.rs), whatever links are lost and futures dropped in between.
THEOREM AppKnows ==
  ASSUME Distinct
  PROVE  Spec => []AppKnowsTable
<1>1. Indexed
  BY CountsAlike
<1>2. Init => KnowInv
  <2> SUFFICES ASSUME Init PROVE KnowInv
    OBVIOUS
  <2>1. \A a \in Attrs : Cb(a) \in Reports
    BY DEF Reports, Cb
  <2>2. QED
    BY <2>1 DEF Init, KnowInv
<1>3. TypeOK /\ KnowInv /\ [Next]_vars => KnowInv'
  <2> SUFFICES ASSUME TypeOK, KnowInv, [Next]_vars PROVE KnowInv'
    OBVIOUS
  <2>1. CASE AttachFails \/ Disconnected \/ Dropped
    <3>1. Leave /\ pc # "callback"
      BY <2>1 DEF AttachFails, Disconnected, Dropped
    <3>2. QED
      BY <1>1, <3>1, LeaveKnows
  <2>2. CASE UNCHANGED vars
    <3>1. Attrs' = Attrs /\ \A a : Cb(a)' = Cb(a)
      BY <2>2 DEF vars, Attrs, Cb
    <3>2. QED
      BY <2>2, <3>1 DEF vars, KnowInv
  <2>3. QED
    BY <1>1, <2>1, <2>2, SessionKnows, AdvertisingKnows, EventKnows DEF Next, Loop
<1>4. TypeOK /\ KnowInv => AppKnowsTable
  <2> SUFFICES ASSUME TypeOK, KnowInv, pc # "callback", NEW a \in Attrs \ lost
               PROVE  /\ Expected(cfg.services, a) \in Reports
                      /\ told[Expected(cfg.services, a)] = table[a]
    BY DEF AppKnowsTable
  <2>1. Expected(cfg.services, a) = Cb(a)
    BY <1>1 DEF Indexed, TypeOK, Attrs, Cb
  <2>2. Cb(a) \in Reports
    BY DEF Reports, Cb
  <2>3. QED
    BY <2>1, <2>2 DEF KnowInv
<1>5. QED
  BY <1>2, <1>3, <1>4, TypeCorrect, PTL DEF Spec
=============================================================================
