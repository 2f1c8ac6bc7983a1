--------------------------- MODULE BondStoreProofs ---------------------------
(***************************************************************************)
(* Every safety property of BondStore for any peers, keys and callers.     *)
(*                                                                         *)
(* The steps that load and delete bonds are loops over the slots, so the   *)
(* first half is about them: what a loop keeps at each slot it keeps at    *)
(* the end.  restore_bonds makes exactly one entry for each stored bond,   *)
(* delete_bond_slot takes the slot out of map, storage and host together.  *)
(*                                                                         *)
(* The second half is the invariant.  Its heart is that, until a delete    *)
(* leaves a hole, entry n of the map stands for slot n - 1: the slot that  *)
(* store_bond numbers a new entry by is then free, and a map with as many  *)
(* entries as there are slots has an entry for each of them.               *)
(***************************************************************************)
EXTENDS BondStore, WellFoundedInduction, SequenceTheorems, TLAPS

-----------------------------------------------------------------------------
(***************************************************************************)
(* Recursion over the slots and over the entries of a map.  The library's  *)
(* induction theorems take a predicate; its theorem about least elements   *)
(* takes a set, which does as well.                                        *)
(***************************************************************************)
\* Induction up to N.
LEMMA UpTo ==
  ASSUME NEW N \in Nat, NEW T, 0 \in T, \A n \in 0 .. N - 1 : n \in T => n + 1 \in T
  PROVE  0 .. N \subseteq T
<1> DEFINE Bad == (0 .. N) \ T
           Less == OpToRel(<, Nat)
<1>1. IsWellFoundedOn(Less, Nat)
  BY NatLessThanWellFounded
<1>2. \A m, n \in Nat : m < n => <<m, n>> \in Less
  BY DEF OpToRel
<1>3. ASSUME Bad # {} PROVE FALSE
  <2>1. Bad \subseteq Nat
    OBVIOUS
  <2> HIDE DEF Less
  <2>2. PICK x \in Bad : \A y \in Bad : <<y, x>> \notin Less
    <3> HIDE DEF Bad
    <3>1. QED
      BY <1>1, <1>3, <2>1, WFMin
  <2>3. x # 0 /\ x - 1 \in 0 .. N - 1 /\ x \in Nat /\ x - 1 \in Nat
    BY <2>2
  <2>4. x - 1 \notin T
    BY <2>3
  <2>5. x - 1 \in Bad
    BY <2>3, <2>4
  <2>6. <<x - 1, x>> \in Less
    BY <1>2, <2>3
  <2>7. QED
    BY <2>2, <2>5, <2>6
<1>4. QED
  BY <1>3

LEMMA MinIsLeast ==
  ASSUME NEW S, S \subseteq Nat, S # {}
  PROVE  Min(S) \in S /\ \A n \in S : Min(S) <= n
<1> DEFINE Less == OpToRel(<, Nat)
<1>1. IsWellFoundedOn(Less, Nat)
  BY NatLessThanWellFounded
<1>2. \A m, n \in Nat : m < n => <<m, n>> \in Less
  BY DEF OpToRel
<1> HIDE DEF Less
<1>3. PICK x \in S : \A y \in S : <<y, x>> \notin Less
  BY <1>1, WFMin, Zenon
<1>4. ASSUME NEW y \in S PROVE x <= y
  <2>1. x \in Nat /\ y \in Nat
    OBVIOUS
  <2>2. ~(y < x)
    BY <1>2, <1>3, <2>1
  <2>3. QED
    BY <2>1, <2>2
<1>5. QED
  BY <1>4 DEF Min

\* What N steps of F from a go through.
Runs(N, D, a, F) ==
  {f \in [0 .. N -> D] : f[0] = a /\ \A n \in 1 .. N : f[n] = F[<<f[n - 1], n>>]}

\* A step function that stays in D can be repeated.
LEMMA Recursion ==
  ASSUME NEW N \in Nat, NEW D, NEW a \in D, NEW F \in [D \X (1 .. N) -> D]
  PROVE  Runs(N, D, a, F) # {}
<1> DEFINE T == {k \in 0 .. N : Runs(k, D, a, F) # {}}
<1>1. 0 \in T
  <2>1. [n \in 0 .. 0 |-> a] \in Runs(0, D, a, F)
    BY DEF Runs
  <2>2. QED
    BY <2>1
<1>2. ASSUME NEW k \in 0 .. N - 1, k \in T PROVE k + 1 \in T
  <2>1. PICK f \in [0 .. k -> D] : f[0] = a /\ \A n \in 1 .. k : f[n] = F[<<f[n - 1], n>>]
    BY <1>2 DEF Runs
  <2> DEFINE g == [n \in 0 .. k + 1 |-> IF n = k + 1 THEN F[<<f[k], k + 1>>] ELSE f[n]]
  <2>2. f[k] \in D /\ k + 1 \in 1 .. N
    OBVIOUS
  <2>3. F[<<f[k], k + 1>>] \in D
    BY <2>2
  <2>4. g \in [0 .. k + 1 -> D]
    BY <2>3
  <2>5. g[0] = a /\ g[k + 1] = F[<<g[k], k + 1>>]
    <3>1. /\ 0 \in 0 .. k + 1 /\ 0 # k + 1 /\ k \in 0 .. k + 1 /\ k # k + 1
          /\ k + 1 \in 0 .. k + 1
      OBVIOUS
    <3>2. QED
      BY <2>1, <3>1
  <2>6. ASSUME NEW n \in 1 .. k + 1 PROVE g[n] = F[<<g[n - 1], n>>]
    <3>1. CASE n = k + 1
      BY <2>5, <3>1
    <3>2. CASE n # k + 1
      <4>1. n \in 1 .. k /\ n \in 0 .. k + 1 /\ n - 1 \in 0 .. k + 1 /\ n - 1 # k + 1
        BY <3>2
      <4>2. g[n] = f[n] /\ g[n - 1] = f[n - 1]
        BY <3>2, <4>1
      <4>3. QED
        BY <2>1, <4>1, <4>2
    <3>3. QED
      BY <3>1, <3>2
  <2>7. g \in Runs(k + 1, D, a, F)
    <3> HIDE DEF g
    <3>1. QED
      BY <2>4, <2>5, <2>6 DEF Runs
  <2> HIDE DEF g
  <2>8. QED
    BY <2>2, <2>7
<1> HIDE DEF T
<1>3. N \in T
  BY <1>1, <1>2, UpTo
<1>4. QED
  BY <1>3 DEF T

Entry == [id : Ids, slot : Slots]

LEMMA RangeOfAppend ==
  ASSUME NEW S, NEW q \in Seq(S), NEW x \in S
  PROVE  /\ Append(q, x) \in Seq(S) /\ Len(Append(q, x)) = Len(q) + 1
         /\ Range(Append(q, x)) = Range(q) \cup {x}
<1> DEFINE a == Append(q, x)
<1>1. a \in Seq(S) /\ Len(a) = Len(q) + 1 /\ Len(q) \in Nat
  OBVIOUS
<1>2. a[Len(q) + 1] = x /\ \A n \in 1 .. Len(q) : a[n] = q[n]
  OBVIOUS
<1> HIDE DEF a
<1>3. Range(a) = {a[i] : i \in 1 .. Len(q) + 1} /\ Range(q) = {q[i] : i \in 1 .. Len(q)}
  BY <1>1, RangeEquality
<1>4. \A i \in 1 .. Len(q) + 1 : i \in 1 .. Len(q) \/ i = Len(q) + 1
  BY <1>1
<1>5. \A i \in 1 .. Len(q) : i \in 1 .. Len(q) + 1
  BY <1>1
<1>6. Len(q) + 1 \in 1 .. Len(q) + 1
  BY <1>1
<1>7. QED
  BY <1>1, <1>2, <1>3, <1>4, <1>5, <1>6 DEF a

\* retain() keeps the entries of the other slots.
LEMMA RetainKeeps ==
  ASSUME NEW m \in Seq(Entry), NEW s
  PROVE  /\ Retain(m, s) \in Seq(Entry) /\ Len(Retain(m, s)) <= Len(m)
         /\ Range(Retain(m, s)) = {e \in Range(m) : e.slot # s}
<1> DEFINE N == Len(m)
           D == Seq(Entry)
           F == [p \in D \X (1 .. N) |->
                   IF m[p[2]].slot = s THEN p[1] ELSE Append(p[1], m[p[2]])]
           kept == CHOOSE f : f = [n \in 0 .. Len(m) |->
                     IF n = 0 THEN <<>>
                     ELSE IF m[n].slot = s THEN f[n - 1] ELSE Append(f[n - 1], m[n])]
<1>1. N \in Nat /\ <<>> \in D /\ DOMAIN m = 1 .. N /\ \A n \in 1 .. N : m[n] \in Entry
  OBVIOUS
<1>2. F \in [D \X (1 .. N) -> D]
  BY <1>1
<1>3. PICK f \in [0 .. N -> D] : f[0] = <<>> /\ \A n \in 1 .. N : f[n] = F[<<f[n - 1], n>>]
  <2> DEFINE a == <<>>
  <2>1. N \in Nat /\ a \in D
    BY <1>1
  <2> HIDE DEF F, D, N, a
  <2>2. Runs(N, D, a, F) # {}
    BY <1>2, <2>1, Recursion, Zenon
  <2>3. QED
    BY <2>2 DEF a, Runs
<1>4. \A n \in 1 .. N : f[n - 1] \in D
  BY <1>1
<1>5. \A n \in 1 .. N : f[n] = IF m[n].slot = s THEN f[n - 1] ELSE Append(f[n - 1], m[n])
  BY <1>1, <1>3, <1>4
<1>6. f = [n \in 0 .. Len(m) |->
             IF n = 0 THEN <<>>
             ELSE IF m[n].slot = s THEN f[n - 1] ELSE Append(f[n - 1], m[n])]
  <2> DEFINE g == [n \in 0 .. Len(m) |->
             IF n = 0 THEN <<>>
             ELSE IF m[n].slot = s THEN f[n - 1] ELSE Append(f[n - 1], m[n])]
  <2>1. \A n \in 1 .. N : n \in 0 .. N /\ n # 0
    BY <1>1
  <2>2. \A n \in 0 .. N : f[n] = g[n]
    <3>1. f[0] = g[0]
      BY <1>1, <1>3
    <3>2. ASSUME NEW n \in 1 .. N PROVE f[n] = g[n]
      BY <1>5, <2>1
    <3>3. \A n \in 0 .. N : n = 0 \/ n \in 1 .. N
      BY <1>1
    <3> HIDE DEF g
    <3>4. QED
      BY <3>1, <3>2, <3>3
  <2>3. DOMAIN f = 0 .. N /\ DOMAIN g = 0 .. N /\ g = [n \in 0 .. N |-> g[n]]
    OBVIOUS
  <2>4. f = [n \in 0 .. N |-> f[n]]
    BY <2>3
  <2> HIDE DEF g
  <2>5. f = g
    BY <2>2, <2>3, <2>4
  <2>6. QED
    BY <2>5 DEF g
<1>7. kept = [n \in 0 .. Len(m) |->
                IF n = 0 THEN <<>>
                ELSE IF m[n].slot = s THEN kept[n - 1] ELSE Append(kept[n - 1], m[n])]
  BY <1>6
<1>8. Retain(m, s) = kept[N]
  BY DEF Retain
<1> HIDE DEF kept, F
<1>9. kept[0] = <<>>
  BY <1>1, <1>7
<1>10. \A n \in 1 .. N : kept[n] = IF m[n].slot = s THEN kept[n - 1] ELSE Append(kept[n - 1], m[n])
  <2>1. ASSUME NEW n \in 1 .. N
        PROVE  kept[n] = IF m[n].slot = s THEN kept[n - 1] ELSE Append(kept[n - 1], m[n])
    <3>1. n \in 0 .. Len(m) /\ n # 0
      BY <1>1
    <3>2. QED
      BY <1>7, <3>1, Zenon
  <2>2. QED
    BY <2>1
<1> DEFINE T == {n \in 0 .. N : /\ kept[n] \in D /\ Len(kept[n]) <= n
                                /\ Range(kept[n]) = {m[k] : k \in {j \in 1 .. n : m[j].slot # s}}}
<1>11. 0 \in T
  BY <1>1, <1>9 DEF Range
<1>12. ASSUME NEW n \in 0 .. N - 1, n \in T PROVE n + 1 \in T
  <2> DEFINE old == kept[n]
             e == m[n + 1]
  <2>1. n + 1 \in 1 .. N /\ (n + 1) - 1 = n /\ e \in Entry
    BY <1>1
  <2>2. old \in D /\ Len(old) <= n
    BY <1>12
  <2>3. CASE e.slot = s
    <3>1. kept[n + 1] = old
      BY <1>10, <2>1, <2>3
    <3>2. {j \in 1 .. n + 1 : m[j].slot # s} = {j \in 1 .. n : m[j].slot # s}
      BY <2>3
    <3>3. Len(old) <= n + 1
      BY <2>2
    <3>4. QED
      BY <1>12, <2>1, <3>1, <3>2, <3>3
  <2>4. CASE e.slot # s
    <3>1. kept[n + 1] = Append(old, e)
      BY <1>10, <2>1, <2>4
    <3> HIDE DEF e, old
    <3>2. /\ Append(old, e) \in D /\ Len(Append(old, e)) = Len(old) + 1
          /\ Range(Append(old, e)) = Range(old) \cup {e}
      BY <2>1, <2>2, RangeOfAppend
    <3>3. {m[k] : k \in {j \in 1 .. n + 1 : m[j].slot # s}}
            = {m[k] : k \in {j \in 1 .. n : m[j].slot # s}} \cup {e}
      BY <2>4 DEF e
    <3>4. Len(Append(old, e)) <= n + 1
      BY <2>2, <3>2
    <3>5. Range(kept[n + 1]) = {m[k] : k \in {j \in 1 .. n + 1 : m[j].slot # s}}
      BY <1>12, <3>1, <3>2, <3>3 DEF old
    <3>6. n + 1 \in 0 .. N /\ kept[n + 1] \in D /\ Len(kept[n + 1]) <= n + 1
      BY <2>1, <3>1, <3>2, <3>4
    <3>7. QED
      BY <3>5, <3>6
  <2>5. QED
    BY <2>3, <2>4
<1> HIDE DEF T, N
<1>13. N \in T
  <2>1. 0 .. N \subseteq T
    BY <1>1, <1>11, <1>12, UpTo
  <2>2. QED
    BY <1>1, <2>1
<1> USE DEF N
<1>14. Range(kept[N]) = {m[k] : k \in {j \in 1 .. N : m[j].slot # s}}
  BY <1>13 DEF T
<1>15. {m[k] : k \in {j \in 1 .. N : m[j].slot # s}} = {e \in Range(m) : e.slot # s}
  BY <1>1 DEF Range
<1>16. QED
  BY <1>8, <1>13, <1>14, <1>15 DEF T
-----------------------------------------------------------------------------
(***************************************************************************)
(* The tables: what restore_bonds and delete_bond_slot make of them.       *)
(***************************************************************************)
Keyring == [Ids -> Keys \cup {None}]
Storage == [Slots -> Blobs \cup {None}]

\* Each bond that the app has in a is some other peer's.
OneSlotEach(a) ==
  \A s, t \in Slots : a[s] # None /\ a[t] # None /\ a[s].id = a[t].id => s = t

Session == [map : Seq(Entry), stack : Keyring]

LEMMA RestoreSlotKeeps ==
  ASSUME app \in Storage, NEW st \in Session, NEW s \in Slots
  PROVE  /\ RestoreSlot(st, s) \in Session
         /\ app[s] = None => RestoreSlot(st, s) = st
         /\ app[s] # None =>
              /\ app[s] \in Blobs
              /\ RestoreSlot(st, s).map = Append(st.map, [id |-> app[s].id, slot |-> s])
              /\ RestoreSlot(st, s).stack = [st.stack EXCEPT ![app[s].id] = app[s].key]
<1>1. CASE app[s] = None
  BY <1>1 DEF RestoreSlot
<1>2. CASE app[s] # None
  <2>1. app[s] \in Blobs /\ app[s].id \in Ids /\ app[s].key \in Keys
    BY <1>2 DEF Storage, Blobs
  <2>2. [id |-> app[s].id, slot |-> s] \in Entry
    BY <2>1 DEF Entry
  <2>3. st.map \in Seq(Entry) /\ st.stack \in Keyring
    BY DEF Session
  <2>4. Append(st.map, [id |-> app[s].id, slot |-> s]) \in Seq(Entry)
    BY <2>2, <2>3, RangeOfAppend
  <2>5. [st.stack EXCEPT ![app[s].id] = app[s].key] \in Keyring
    BY <2>1, <2>3 DEF Keyring
  <2>6. QED
    BY <1>2, <2>1, <2>4, <2>5 DEF RestoreSlot, Session
<1>3. QED
  BY <1>1, <1>2

\* restore_bonds: an entry for each stored bond, and its key if no peer has two.
LEMMA RestoredGives ==
  ASSUME app \in Storage
  PROVE  /\ Restored \in Session /\ Len(Restored.map) <= SlotCount
         /\ Range(Restored.map) = {[id |-> app[s].id, slot |-> s] : s \in Stored}
         /\ OneSlotEach(app) => \A s \in Stored : Restored.stack[app[s].id] = app[s].key
<1> DEFINE N == SlotCount
           D == Session
           a == [map |-> <<>>, stack |-> NoBonds]
           F == [p \in D \X (1 .. N) |-> RestoreSlot(p[1], p[2] - 1)]
           st == CHOOSE f : f = [n \in 0 .. SlotCount |->
                   IF n = 0 THEN [map |-> <<>>, stack |-> NoBonds] ELSE RestoreSlot(f[n - 1], n - 1)]
<1>1. N \in Nat /\ \A n \in 1 .. N : n - 1 \in Slots /\ n \in 0 .. N /\ n - 1 \in 0 .. N /\ n # 0
  BY SlotAssumption DEF Slots
<1>2. a \in D
  <2>1. NoBonds \in Keyring
    BY DEF NoBonds, Keyring
  <2>2. QED
    BY <2>1 DEF Session
<1>3. F \in [D \X (1 .. N) -> D]
  BY <1>1, RestoreSlotKeeps
<1>4. PICK f \in [0 .. N -> D] : f[0] = a /\ \A n \in 1 .. N : f[n] = F[<<f[n - 1], n>>]
  <2> HIDE DEF F, D, N, a
  <2>1. Runs(N, D, a, F) # {}
    BY <1>1, <1>2, <1>3, Recursion, Zenon
  <2>2. QED
    BY <2>1 DEF Runs
<1>5. f = [n \in 0 .. SlotCount |->
             IF n = 0 THEN [map |-> <<>>, stack |-> NoBonds] ELSE RestoreSlot(f[n - 1], n - 1)]
  <2> DEFINE g == [n \in 0 .. N |-> IF n = 0 THEN a ELSE RestoreSlot(f[n - 1], n - 1)]
  <2>1. \A n \in 1 .. N : f[n] = RestoreSlot(f[n - 1], n - 1)
    BY <1>1, <1>4
  <2>2. \A n \in 0 .. N : n = 0 \/ n \in 1 .. N
    BY <1>1
  <2>3. \A n \in 0 .. N : f[n] = g[n]
    BY <1>4, <2>1, <2>2
  <2>4. f = g
    <3> HIDE DEF D
    <3>1. QED
      BY <2>3
  <2>5. QED
    BY <2>4
<1>6. st = [n \in 0 .. SlotCount |->
              IF n = 0 THEN [map |-> <<>>, stack |-> NoBonds] ELSE RestoreSlot(st[n - 1], n - 1)]
  BY <1>5
<1>7. Restored = st[N]
  BY DEF Restored
<1> HIDE DEF st, F
<1>8. st[0] = a
  BY <1>1, <1>6
<1>9. \A n \in 1 .. N : st[n] = RestoreSlot(st[n - 1], n - 1)
  BY <1>1, <1>6, Zenon
<1> DEFINE Seen(n) == {s \in Stored : s < n}
           T == {n \in 0 .. N :
                   /\ st[n] \in D /\ Len(st[n].map) <= n
                   /\ Range(st[n].map) = {[id |-> app[s].id, slot |-> s] : s \in Seen(n)}
                   /\ OneSlotEach(app) => \A s \in Seen(n) : st[n].stack[app[s].id] = app[s].key}
<1>10. 0 \in T
  <2>1. Seen(0) = {}
    BY SlotAssumption DEF Stored, Slots
  <2>2. st[0] \in D /\ st[0].map = <<>> /\ Range(<<>>) = {} /\ Len(<<>>) = 0
    BY <1>2, <1>8 DEF Range
  <2>3. QED
    BY <1>1, <2>1, <2>2
<1>11. ASSUME NEW n \in 0 .. N - 1, n \in T PROVE n + 1 \in T
  <2> DEFINE old == st[n]
             new == st[n + 1]
  <2>1. n + 1 \in 1 .. N /\ (n + 1) - 1 = n /\ n \in Slots /\ n + 1 \in 0 .. N
    BY <1>1 DEF Slots
  <2>2. old \in D /\ Len(old.map) <= n /\ Len(old.map) \in Nat
    BY <1>11 DEF Session
  <2>3. new = RestoreSlot(old, n)
    BY <1>9, <2>1
  <2>4. new \in D
    BY <2>1, <2>2, <2>3, RestoreSlotKeeps
  <2>5. CASE app[n] = None
    <3>1. new = old
      BY <2>1, <2>2, <2>3, <2>5, RestoreSlotKeeps
    <3>2. Seen(n + 1) = Seen(n)
      BY <2>5, SlotAssumption DEF Stored, Slots
    <3>3. Len(old.map) <= n + 1
      BY <2>2
    <3> HIDE DEF Seen, D
    <3>4. QED
      BY <1>11, <2>1, <2>4, <3>1, <3>2, <3>3
  <2>6. CASE app[n] # None
    <3> DEFINE e == [id |-> app[n].id, slot |-> n]
    <3>1. /\ app[n] \in Blobs /\ new.map = Append(old.map, e)
          /\ new.stack = [old.stack EXCEPT ![app[n].id] = app[n].key]
      <4> HIDE DEF old, new, D
      <4>1. old \in Session /\ n \in Slots
        BY <2>1, <2>2 DEF D
      <4>2. QED
        BY <2>3, <2>6, <4>1, RestoreSlotKeeps
    <3>2. Seen(n + 1) = Seen(n) \cup {n}
      BY <2>1, <2>6, SlotAssumption DEF Stored, Slots
    <3>3. e \in Entry /\ old.map \in Seq(Entry)
      BY <2>1, <2>2, <3>1 DEF Entry, Blobs, Session
    <3>4. Len(new.map) = Len(old.map) + 1 /\ Range(new.map) = Range(old.map) \cup {e}
      <4> HIDE DEF e
      <4>1. QED
        BY <3>1, <3>3, RangeOfAppend
    <3>5. Len(new.map) <= n + 1
      BY <2>2, <3>4
    <3>6. Range(new.map) = {[id |-> app[s].id, slot |-> s] : s \in Seen(n + 1)}
      <4> HIDE DEF Seen, old, new
      <4>1. QED
        BY <1>11, <3>2, <3>4 DEF old
    <3>7. ASSUME OneSlotEach(app), NEW s \in Seen(n + 1)
          PROVE  new.stack[app[s].id] = app[s].key
      <4>1. old.stack \in Keyring /\ app[n].id \in Ids
        BY <2>2, <3>1 DEF Session, Blobs
      <4>2. CASE s = n
        BY <3>1, <4>1, <4>2 DEF Keyring
      <4>3. CASE s # n
        <5>1. s \in Seen(n) /\ s \in Slots /\ app[s] # None
          BY <3>2, <4>3 DEF Stored
        <5>2. app[s].id # app[n].id /\ app[s].id \in Ids
          BY <2>1, <2>6, <3>7, <4>3, <5>1 DEF OneSlotEach, Storage, Blobs
        <5>3. old.stack[app[s].id] = app[s].key
          BY <1>11, <3>7, <5>1
        <5>4. QED
          BY <3>1, <4>1, <5>2, <5>3 DEF Keyring
      <4>4. QED
        BY <4>2, <4>3
    <3> HIDE DEF Seen, D
    <3>8. QED
      BY <2>1, <2>4, <3>5, <3>6, <3>7
  <2>7. QED
    BY <2>5, <2>6
<1> HIDE DEF T, N
<1>12. N \in T
  <2>1. 0 .. N \subseteq T
    BY <1>1, <1>10, <1>11, UpTo
  <2>2. QED
    BY <1>1, <2>1
<1>13. Seen(N) = Stored
  BY SlotAssumption DEF Stored, Slots, N
<1>14. QED
  BY <1>7, <1>12, <1>13 DEF T, N

\* The tables of the map and the app name the same bonds.
TablesMatch(m, a) ==
  /\ \A e \in Range(m) : a[e.slot] # None /\ a[e.slot].id = e.id
  /\ \A s \in Slots : a[s] # None => \E e \in Range(m) : e.slot = s

\* The host knows each stored bond by the stored key.
Fresh(a, k) == \A s \in Slots : a[s] # None => a[s].key = k[a[s].id]

Tables == [map : SeqOf(Entry, SlotCount), app : Storage, stack : Keyring]

Sound(st) == TablesMatch(st.map, st.app) /\ OneSlotEach(st.app)

LEMMA SeqOfIs ==
  ASSUME NEW S, NEW n \in Nat, NEW q
  PROVE  q \in SeqOf(S, n) <=> q \in Seq(S) /\ Len(q) <= n
<1>1. ASSUME q \in SeqOf(S, n) PROVE q \in Seq(S) /\ Len(q) <= n
  <2>1. PICK k \in 0 .. n : q \in [1 .. k -> S]
    BY <1>1 DEF SeqOf
  <2>2. QED
    BY <2>1
<1>2. ASSUME q \in Seq(S), Len(q) <= n PROVE q \in SeqOf(S, n)
  <2>1. Len(q) \in 0 .. n /\ q \in [1 .. Len(q) -> S]
    BY <1>2
  <2>2. QED
    BY <2>1 DEF SeqOf
<1>3. QED
  BY <1>1, <1>2

\* What deleting slot s may do: it alone is cleared, the tables keep in step, and
\* when the host knows every stored bond the slot is empty after.
Deletes(st, s, new) ==
  /\ new \in Tables
  /\ \A t \in Slots \ {s} : new.app[t] = st.app[t]
  /\ new.app[s] \in {st.app[s], None}
  /\ Sound(st) => Sound(new)
  /\ Sound(st) /\ Fresh(st.app, st.stack) =>
       Fresh(new.app, new.stack) /\ new.app[s] = None

LEMMA DeleteSlotKeeps ==
  ASSUME NEW st \in Tables, NEW s \in Slots
  PROVE  Deletes(st, s, DeleteSlot(st, s))
<1> DEFINE m == st.map
           at == EntriesAt(m, s)
           id == m[Min(at)].id
           cleared == [st.app EXCEPT ![s] = None]
<1>1. /\ m \in Seq(Entry) /\ Len(m) <= SlotCount /\ SlotCount \in Nat
      /\ st.app \in Storage /\ st.stack \in Keyring
  BY SeqOfIs, SlotAssumption DEF Tables
<1>2. DOMAIN m = 1 .. Len(m) /\ Len(m) \in Nat /\ \A n \in DOMAIN m : m[n] \in Entry
  BY <1>1
<1>3. cleared \in Storage /\ cleared[s] = None /\ \A t \in Slots \ {s} : cleared[t] = st.app[t]
  BY <1>1 DEF Storage
<1>4. OneSlotEach(st.app) => OneSlotEach(cleared)
  BY <1>3 DEF OneSlotEach
<1>5. at # {} => Min(at) \in DOMAIN m /\ m[Min(at)].slot = s
  <2>1. at \subseteq Nat
    BY <1>2 DEF EntriesAt
  <2>2. ASSUME at # {} PROVE Min(at) \in at
    <3> HIDE DEF at
    <3>1. QED
      BY <2>1, <2>2, MinIsLeast
  <2>3. QED
    BY <2>2 DEF EntriesAt
<1>6. CASE at = {}
  <2> DEFINE new == [st EXCEPT !.app = [@ EXCEPT ![s] = None]]
  <2>1. DeleteSlot(st, s) = new
    BY <1>6 DEF DeleteSlot
  <2>2. /\ new = [map |-> m, app |-> cleared, stack |-> st.stack]
        /\ new.map = m /\ new.app = cleared /\ new.stack = st.stack
    BY DEF Tables
  <2> HIDE DEF new, cleared
  <2>3. new \in Tables
    BY <1>3, <2>2 DEF Tables
  <2>4. \A e \in Range(m) : e.slot # s
    BY <1>6 DEF EntriesAt, Range
  <2>5. TablesMatch(m, st.app) => TablesMatch(m, cleared)
    <3>1. \A e \in Range(m) : e.slot \in Slots
      BY <1>2 DEF Range, Entry
    <3>2. QED
      BY <1>3, <2>4, <3>1 DEF TablesMatch
  <2>6. Fresh(st.app, st.stack) => Fresh(cleared, st.stack)
    BY <1>3 DEF Fresh
  <2>7. Sound(st) => Sound(new)
    BY <1>4, <2>2, <2>5 DEF Sound
  <2>8. QED
    BY <1>3, <2>1, <2>2, <2>3, <2>6, <2>7 DEF Deletes
<1>7. CASE at # {} /\ st.stack[id] = None
  <2>1. DeleteSlot(st, s) = st
    BY <1>7 DEF DeleteSlot
  <2>2. ~(Sound(st) /\ Fresh(st.app, st.stack))
    <3>1. Min(at) \in DOMAIN m /\ m[Min(at)].slot = s
      BY <1>7, <1>5
    <3>2. m[Min(at)] \in Range(m)
      BY <3>1 DEF Range
    <3>3. ASSUME Sound(st) PROVE st.app[s] \in Blobs /\ st.app[s].id = id
      BY <1>1, <3>1, <3>2, <3>3 DEF Sound, TablesMatch, Storage
    <3>4. QED
      BY <1>7, <3>3, NoneAssumption DEF Fresh, Blobs
  <2> HIDE DEF at, id, m
  <2>3. QED
    BY <2>1, <2>2 DEF Deletes
<1>8. CASE at # {} /\ st.stack[id] # None
  <2> DEFINE kept == Retain(m, s)
             keys == [st.stack EXCEPT ![id] = None]
             new == [map |-> kept, app |-> cleared, stack |-> keys]
  <2>1. DeleteSlot(st, s) = new
    BY <1>8 DEF DeleteSlot
  <2>2. /\ kept \in Seq(Entry) /\ Len(kept) <= Len(m)
        /\ Range(kept) = {e \in Range(m) : e.slot # s}
    BY <1>1, RetainKeeps
  <2>3. Min(at) \in DOMAIN m /\ m[Min(at)].slot = s
    BY <1>8, <1>5
  <2>4. m[Min(at)] \in Range(m) /\ id \in Ids
    BY <1>2, <2>3 DEF Range, Entry
  <2>5. keys \in Keyring /\ \A i \in Ids \ {id} : keys[i] = st.stack[i]
    BY <1>1, <2>4 DEF Keyring
  <2>6. Len(kept) <= SlotCount /\ Len(kept) \in Nat
    BY <1>1, <1>2, <2>2
  <2> HIDE DEF kept, keys, cleared
  <2>7. kept \in SeqOf(Entry, SlotCount)
    BY <1>1, <2>2, <2>6, SeqOfIs
  <2>8. new \in Tables
    BY <1>3, <2>5, <2>7 DEF Tables
  <2>9. TablesMatch(m, st.app) => TablesMatch(kept, cleared)
    <3>1. \A e \in Range(m) : e.slot \in Slots
      BY <1>2 DEF Range, Entry
    <3>2. QED
      BY <1>3, <2>2, <3>1 DEF TablesMatch
  <2>10. ASSUME Sound(st), Fresh(st.app, st.stack) PROVE Fresh(cleared, keys)
    <3>1. st.app[s] # None /\ st.app[s].id = id
      <4> HIDE DEF at
      <4>1. QED
        BY <2>3, <2>4, <2>10 DEF Sound, TablesMatch
    <3>2. ASSUME NEW t \in Slots, cleared[t] # None PROVE cleared[t].key = keys[cleared[t].id]
      <4> HIDE DEF at, id
      <4>1. t # s /\ cleared[t] = st.app[t]
        BY <1>3, <3>2
      <4>2. st.app[t] \in Blobs /\ st.app[t].id # id
        BY <1>1, <2>10, <3>1, <3>2, <4>1 DEF Sound, OneSlotEach, Storage
      <4>3. keys[st.app[t].id] = st.stack[st.app[t].id]
        BY <2>5, <4>2 DEF Blobs
      <4>4. QED
        BY <2>10, <3>2, <4>1, <4>3 DEF Fresh
    <3>3. QED
      BY <3>2 DEF Fresh
  <2>11. Sound(st) => Sound(new)
    BY <1>4, <2>9 DEF Sound
  <2> HIDE DEF at, id, m
  <2>12. new.app = cleared /\ new.stack = keys
    OBVIOUS
  <2> HIDE DEF new
  <2>13. QED
    BY <1>3, <2>1, <2>8, <2>10, <2>11, <2>12 DEF Deletes
<1>9. QED
  BY <1>6, <1>7, <1>8

\* What deleting every slot in turn makes of the bonds.
DeletesAll(st, new) ==
  /\ new \in Tables
  /\ \A t \in Slots : new.app[t] \in {st.app[t], None}
  /\ Sound(st) => Sound(new)
  /\ Sound(st) /\ Fresh(st.app, st.stack) =>
       Fresh(new.app, new.stack) /\ \A t \in Slots : new.app[t] = None

LEMMA DeletedGives ==
  ASSUME Bonds \in Tables
  PROVE  DeletesAll(Bonds, DeletedUpto(SlotCount))
<1> DEFINE N == SlotCount
           D == Tables
           a == Bonds
           F == [p \in D \X (1 .. N) |-> DeleteSlot(p[1], p[2] - 1)]
           st == CHOOSE f : f = [n \in 0 .. SlotCount |->
                   IF n = 0 THEN Bonds ELSE DeleteSlot(f[n - 1], n - 1)]
<1>1. N \in Nat /\ \A n \in 1 .. N : n - 1 \in Slots /\ n \in 0 .. N /\ n - 1 \in 0 .. N /\ n # 0
  BY SlotAssumption DEF Slots
<1>2. F \in [D \X (1 .. N) -> D]
  <2>1. \A p \in D \X (1 .. N) : DeleteSlot(p[1], p[2] - 1) \in D
    <3>1. ASSUME NEW p \in D \X (1 .. N) PROVE DeleteSlot(p[1], p[2] - 1) \in D
      <4>1. p[1] \in Tables /\ p[2] - 1 \in Slots
        BY <1>1
      <4>2. QED
        BY <4>1, DeleteSlotKeeps DEF Deletes
    <3>2. QED
      BY <3>1
  <2>2. QED
    BY <2>1
<1>3. PICK f \in [0 .. N -> D] : f[0] = a /\ \A n \in 1 .. N : f[n] = F[<<f[n - 1], n>>]
  <2>1. a \in D
    OBVIOUS
  <2> HIDE DEF F, D, N, a
  <2>2. Runs(N, D, a, F) # {}
    BY <1>1, <1>2, <2>1, Recursion, Zenon
  <2>3. QED
    BY <2>2 DEF Runs
<1>4. f = [n \in 0 .. SlotCount |-> IF n = 0 THEN Bonds ELSE DeleteSlot(f[n - 1], n - 1)]
  <2> DEFINE g == [n \in 0 .. N |-> IF n = 0 THEN a ELSE DeleteSlot(f[n - 1], n - 1)]
  <2>1. \A n \in 1 .. N : f[n] = DeleteSlot(f[n - 1], n - 1)
    BY <1>1, <1>3
  <2>2. \A n \in 0 .. N : n = 0 \/ n \in 1 .. N
    BY <1>1
  <2>3. \A n \in 0 .. N : f[n] = g[n]
    BY <1>3, <2>1, <2>2
  <2>4. f = g
    <3> HIDE DEF D
    <3>1. QED
      BY <2>3
  <2>5. QED
    BY <2>4
<1>5. st = [n \in 0 .. SlotCount |-> IF n = 0 THEN Bonds ELSE DeleteSlot(st[n - 1], n - 1)]
  BY <1>4
<1>6. DeletedUpto(SlotCount) = st[N]
  BY DEF DeletedUpto
<1> HIDE DEF st, F
<1>7. st[0] = a
  BY <1>1, <1>5
<1>8. \A n \in 1 .. N : st[n] = DeleteSlot(st[n - 1], n - 1)
  BY <1>1, <1>5, Zenon
<1> DEFINE Good(n) == Sound(a) /\ Fresh(a.app, a.stack) =>
                        /\ Fresh(st[n].app, st[n].stack)
                        /\ \A t \in Slots : t < n => st[n].app[t] = None
           T == {n \in 0 .. N : /\ st[n] \in D
                                /\ \A t \in Slots : st[n].app[t] \in {a.app[t], None}
                                /\ Sound(a) => Sound(st[n])
                                /\ Good(n)}
<1>9. 0 \in T
  <2>1. \A t \in Slots : ~(t < 0)
    BY SlotAssumption DEF Slots
  <2> HIDE DEF a
  <2>2. st[0] \in D
    BY <1>7 DEF a
  <2>3. Good(0)
    BY <1>7, <2>1
  <2> HIDE DEF Good
  <2>4. QED
    BY <1>1, <1>7, <2>2, <2>3
<1>10. ASSUME NEW n \in 0 .. N - 1, n \in T PROVE n + 1 \in T
  <2> DEFINE old == st[n]
             new == st[n + 1]
  <2>1. n + 1 \in 1 .. N /\ (n + 1) - 1 = n /\ n \in Slots /\ n + 1 \in 0 .. N
    BY <1>1 DEF Slots
  <2>2. new = DeleteSlot(old, n)
    BY <1>8, <2>1
  <2>3. old \in Tables /\ (\A t \in Slots : old.app[t] \in {a.app[t], None}) /\ (Sound(a) => Sound(old))
    BY <1>10
  <2>4. Sound(a) /\ Fresh(a.app, a.stack) =>
           Fresh(old.app, old.stack) /\ \A t \in Slots : t < n => old.app[t] = None
    BY <1>10
  <2> HIDE DEF old, new, a, D
  <2>5. Deletes(old, n, new)
    BY <2>1, <2>2, <2>3, DeleteSlotKeeps
  <2>6. \A t \in Slots : new.app[t] \in {a.app[t], None}
    BY <2>1, <2>3, <2>5 DEF Deletes
  <2>7. ASSUME Sound(a), Fresh(a.app, a.stack)
        PROVE  Fresh(new.app, new.stack) /\ \A t \in Slots : t < n + 1 => new.app[t] = None
    <3>1. Fresh(new.app, new.stack) /\ new.app[n] = None
      BY <2>3, <2>4, <2>5, <2>7 DEF Deletes
    <3>2. ASSUME NEW t \in Slots, t < n + 1, t # n PROVE new.app[t] = None
      <4>1. t < n
        BY <2>1, <3>2, SlotAssumption DEF Slots
      <4>2. QED
        BY <2>4, <2>5, <2>7, <3>2, <4>1 DEF Deletes
    <3>3. QED
      BY <3>1, <3>2
  <2>8. Good(n + 1)
    BY <2>7 DEF new
  <2>9. st[n + 1] \in D /\ (Sound(a) => Sound(st[n + 1]))
    BY <2>3, <2>5 DEF Deletes, D, new
  <2> HIDE DEF Good
  <2>10. QED
    BY <2>1, <2>6, <2>8, <2>9 DEF new
<1> HIDE DEF T, N
<1>11. N \in T
  <2>1. 0 .. N \subseteq T
    BY <1>1, <1>9, <1>10, UpTo
  <2>2. QED
    BY <1>1, <2>1
<1>12. \A t \in Slots : t < N
  BY SlotAssumption DEF Slots, N
<1> HIDE DEF a, D
<1>13. /\ st[N] \in D
       /\ \A t \in Slots : st[N].app[t] \in {a.app[t], None}
       /\ Sound(a) => Sound(st[N])
       /\ Good(N)
  BY <1>11 DEF T
<1>14. DeletesAll(a, st[N])
  BY <1>12, <1>13 DEF DeletesAll, D
<1>15. QED
  BY <1>6, <1>14 DEF a
-----------------------------------------------------------------------------
(***************************************************************************)
(* The inductive invariant.                                                *)
(***************************************************************************)
\* A delete that was asked for waits in BOND_CMD or is being done; BOND_INDEX is
\* its slot if callers wait for on_bond_deleted.
AskedInv ==
  /\ Len(asked) = (IF cmd = "delete" THEN 1 ELSE 0) + (IF admin = "delete" THEN 1 ELSE 0)
  /\ "hurried" \notin habits => Len(asked) <= 1 /\ (asked # <<>> => asked[1] = index)

\* A session that has ended left nothing behind but the command.
DownInv == ~up => map = <<>> /\ event = None /\ admin = "idle"

\* As long as no delete left a hole, the map is dense, no peer has two bonds in
\* the storage, and in a session the two name the same bonds.
BondInv ==
  ~holed => Dense(map) /\ OneSlotEach(app) /\ (up => TablesMatch(map, app))

\* If no event waits behind a command, the event carries the host's key and
\* bond_admin_loop has nothing in hand while there is one.
EventInv ==
  "late" \notin habits /\ event # None =>
    event \in Blobs /\ stack[event.id] = event.key /\ admin = "idle"

IInv == TypeOK /\ AskedInv /\ DownInv /\ BondInv /\ EventInv /\ StorageIsCurrent

\* A dense map has room for every entry, and its next slot is free.
LEMMA DenseSlots ==
  ASSUME map \in SeqOf(Entry, SlotCount)
  PROVE  /\ map \in Seq(Entry) /\ Len(map) \in Nat /\ Len(map) <= SlotCount
         /\ DOMAIN map = 1 .. Len(map) /\ SlotCount \in 1 .. 4
         /\ \A n \in DOMAIN map : map[n] \in Entry /\ map[n].id \in Ids /\ map[n].slot \in Slots
         /\ Dense(map) => \A n \in 1 .. Len(map) : map[n].slot = n - 1
<1>1. SlotCount \in Nat /\ SlotCount \in 1 .. 4
  BY SlotAssumption
<1>2. map \in Seq(Entry) /\ Len(map) <= SlotCount
  BY <1>1, SeqOfIs
<1>3. Len(map) \in Nat /\ DOMAIN map = 1 .. Len(map) /\ \A n \in DOMAIN map : map[n] \in Entry
  BY <1>2
<1>4. QED
  BY <1>1, <1>2, <1>3 DEF Entry, Dense

LEMMA TablesMatchIs ==
  ASSUME NEW m, NEW a
  PROVE  TablesMatch(m, a) <=>
           /\ \A n \in DOMAIN m : a[m[n].slot] # None /\ a[m[n].slot].id = m[n].id
           /\ \A s \in Slots : a[s] # None => \E n \in DOMAIN m : m[n].slot = s
  BY DEF TablesMatch, Range

\* What store_bond makes of tables that are in step.
Stores(b) ==
  /\ TablesMatch(map', app') /\ OneSlotEach(app')
  /\ \A s \in Slots : app'[s] # None => app'[s] = b \/ (app'[s] = app[s] /\ app[s].id # b.id)
  /\ EvictsOnlyWhenFull

LEMMA StoreKnown ==
  ASSUME map \in SeqOf(Entry, SlotCount), app \in Storage, NEW b \in Blobs, UNCHANGED map,
         EntriesOf(map, b.id) # {},
         app' = [app EXCEPT ![map[Min(EntriesOf(map, b.id))].slot] = b]
  PROVE  /\ app' \in Storage
         /\ TablesMatch(map, app) /\ OneSlotEach(app) => Stores(b)
<1> DEFINE n == Min(EntriesOf(map, b.id))
           s == map[n].slot
<1>1. n \in DOMAIN map /\ map[n].id = b.id
  <2>1. EntriesOf(map, b.id) \subseteq Nat
    BY DenseSlots DEF EntriesOf
  <2>2. n \in EntriesOf(map, b.id)
    <3> HIDE DEF n
    <3>1. Min(EntriesOf(map, b.id)) \in EntriesOf(map, b.id)
      BY <2>1, MinIsLeast
    <3>2. QED
      BY <3>1 DEF n
  <2>3. QED
    BY <2>2 DEF EntriesOf
<1>2. s \in Slots
  <2> HIDE DEF n
  <2>1. QED
    BY <1>1, DenseSlots
<1> HIDE DEF n
<1>3. app' = [app EXCEPT ![s] = b]
  BY DEF n
<1>4. b # None /\ b.id \in Ids
  BY NoneAssumption DEF Blobs
<1>5. app' \in Storage /\ app'[s] = b /\ \A t \in Slots \ {s} : app'[t] = app[t]
  BY <1>2, <1>3 DEF Storage
<1>6. ASSUME TablesMatch(map, app), OneSlotEach(app) PROVE Stores(b)
  <2>1. app[s] # None /\ app[s].id = b.id
    BY <1>1, <1>6, TablesMatchIs
  <2> HIDE DEF s
  <2>2. \A t \in Slots \ {s} : app[t] # None => app[t].id # b.id
    BY <1>2, <1>6, <2>1 DEF OneSlotEach
  <2>3. OneSlotEach(app')
    BY <1>5, <1>6, <2>2 DEF OneSlotEach
  <2>4. TablesMatch(map, app')
    <3>1. \A k \in DOMAIN map : app'[map[k].slot] # None /\ app'[map[k].slot].id = map[k].id
      <4>1. ASSUME NEW k \in DOMAIN map
            PROVE  app'[map[k].slot] # None /\ app'[map[k].slot].id = map[k].id
        <5>1. map[k].slot \in Slots /\ app[map[k].slot] # None /\ app[map[k].slot].id = map[k].id
          BY <1>6, DenseSlots, TablesMatchIs
        <5>2. QED
          BY <1>4, <1>5, <2>1, <5>1
      <4>2. QED
        BY <4>1
    <3>2. \A t \in Slots : app'[t] # None => \E k \in DOMAIN map : map[k].slot = t
      BY <1>5, <1>6, <2>1, TablesMatchIs
    <3>3. QED
      BY <3>1, <3>2, TablesMatchIs
  <2>5. EvictsOnlyWhenFull
    BY <1>5, <2>1 DEF EvictsOnlyWhenFull, Stored
  <2>6. QED
    BY <1>5, <2>2, <2>3, <2>4, <2>5 DEF Stores
<1>7. QED
  BY <1>5, <1>6

\* In tables that are in step, a peer without an entry has no bond.
LEMMA NoEntryNoBond ==
  ASSUME app \in Storage, TablesMatch(map, app), NEW b \in Blobs, EntriesOf(map, b.id) = {}
  PROVE  \A s \in Slots : app[s] # None => app[s].id # b.id
<1>1. ASSUME NEW s \in Slots, app[s] # None PROVE app[s].id # b.id
  <2>1. PICK n \in DOMAIN map : map[n].slot = s
    BY <1>1, TablesMatchIs
  <2>2. app[s].id = map[n].id
    BY <2>1, TablesMatchIs
  <2>3. QED
    BY <2>2 DEF EntriesOf
<1>2. QED
  BY <1>1

LEMMA StoreNew ==
  ASSUME map \in SeqOf(Entry, SlotCount), app \in Storage, NEW b \in Blobs,
         EntriesOf(map, b.id) = {}, Len(map) < SlotCount,
         map' = Append(map, [id |-> b.id, slot |-> Len(map)]),
         app' = [app EXCEPT ![Len(map)] = b]
  PROVE  /\ app' \in Storage /\ map' \in SeqOf(Entry, SlotCount)
         /\ TablesMatch(map, app) /\ OneSlotEach(app) /\ Dense(map) => Stores(b)
<1> DEFINE s == Len(map)
           e == [id |-> b.id, slot |-> s]
<1>1. s \in Slots /\ s \in Nat
  BY DenseSlots DEF Slots
<1>2. b # None /\ b.id \in Ids /\ e \in Entry
  BY <1>1, NoneAssumption DEF Blobs, Entry
<1>3. app' \in Storage /\ app'[s] = b /\ \A t \in Slots \ {s} : app'[t] = app[t]
  BY <1>1 DEF Storage
<1>4. /\ map' \in Seq(Entry) /\ Len(map') = s + 1 /\ DOMAIN map' = 1 .. s + 1
      /\ map'[s + 1] = e /\ \A n \in 1 .. s : map'[n] = map[n]
  <2> HIDE DEF e
  <2>1. map \in Seq(Entry) /\ map' = Append(map, e)
    BY DenseSlots DEF e
  <2>2. QED
    BY <1>2, <2>1
<1>5. map' \in SeqOf(Entry, SlotCount)
  <2>1. Len(map') <= SlotCount /\ SlotCount \in Nat
    BY <1>4, DenseSlots
  <2> HIDE DEF s, e
  <2>2. QED
    BY <1>4, <2>1, SeqOfIs
<1>6. ASSUME TablesMatch(map, app), OneSlotEach(app), Dense(map) PROVE Stores(b)
  <2>1. \A t \in Slots : app[t] # None => app[t].id # b.id
    BY <1>6, NoEntryNoBond
  <2>2. app[s] = None
    <3>1. ASSUME app[s] # None PROVE FALSE
      <4>1. PICK n \in DOMAIN map : map[n].slot = s
        BY <1>1, <1>6, <3>1, TablesMatchIs
      <4>2. n \in 1 .. s /\ map[n].slot = n - 1
        BY <1>6, DenseSlots
      <4>3. QED
        BY <1>1, <4>1, <4>2
    <3>2. QED
      BY <3>1
  <2> DEFINE l == s
  <2>3. l = s /\ \A n \in 1 .. s + 1 : n \in 1 .. s \/ n = s + 1
    BY <1>1
  <2>4. DOMAIN map = 1 .. s /\ \A n \in 1 .. s : n \in 1 .. s + 1
    BY DenseSlots
  <2>5. s + 1 \in 1 .. s + 1
    BY <1>1
  <2>6. e.slot = s /\ e.id = b.id
    OBVIOUS
  <2> HIDE DEF s, e, l
  <2>7. OneSlotEach(app')
    BY <1>3, <1>6, <2>1 DEF OneSlotEach
  <2>8. TablesMatch(map', app')
    <3>1. ASSUME NEW n \in DOMAIN map'
          PROVE  app'[map'[n].slot] # None /\ app'[map'[n].slot].id = map'[n].id
      <4>1. CASE n = s + 1
        BY <1>2, <1>3, <1>4, <2>6, <4>1
      <4>2. CASE n # s + 1
        <5>1. n \in DOMAIN map /\ map'[n] = map[n]
          BY <1>4, <2>3, <2>4, <4>2
        <5>2. map[n].slot \in Slots /\ app[map[n].slot] # None /\ app[map[n].slot].id = map[n].id
          BY <1>6, <5>1, DenseSlots, TablesMatchIs
        <5>3. QED
          BY <1>3, <2>2, <5>1, <5>2
      <4>3. QED
        BY <4>1, <4>2
    <3>2. ASSUME NEW t \in Slots, app'[t] # None PROVE \E n \in DOMAIN map' : map'[n].slot = t
      <4>1. CASE t = s
        BY <1>4, <2>5, <2>6, <4>1
      <4>2. CASE t # s
        <5>1. PICK n \in DOMAIN map : map[n].slot = t
          BY <1>3, <1>6, <3>2, <4>2, TablesMatchIs
        <5>2. n \in DOMAIN map' /\ map'[n] = map[n]
          BY <1>4, <2>4
        <5>3. QED
          BY <5>1, <5>2
      <4>3. QED
        BY <4>1, <4>2
    <3>3. QED
      BY <3>1, <3>2, TablesMatchIs
  <2>9. EvictsOnlyWhenFull
    BY <1>3, <2>2 DEF EvictsOnlyWhenFull, Stored
  <2>10. QED
    BY <1>3, <2>1, <2>7, <2>8, <2>9 DEF Stores
<1>7. QED
  BY <1>3, <1>5, <1>6

LEMMA StoreFull ==
  ASSUME map \in SeqOf(Entry, SlotCount), app \in Storage, NEW b \in Blobs,
         EntriesOf(map, b.id) = {}, Len(map) = SlotCount,
         map' = [map EXCEPT ![1] = [id |-> b.id, slot |-> 0]],
         app' = [app EXCEPT ![0] = b]
  PROVE  /\ app' \in Storage /\ map' \in SeqOf(Entry, SlotCount)
         /\ TablesMatch(map, app) /\ OneSlotEach(app) /\ Dense(map) => Stores(b)
<1> DEFINE e == [id |-> b.id, slot |-> 0]
<1>1. 0 \in Slots /\ DOMAIN map = 1 .. SlotCount /\ 1 \in DOMAIN map
  BY DenseSlots DEF Slots
<1>2. b # None /\ b.id \in Ids /\ e \in Entry /\ e.slot = 0 /\ e.id = b.id
  BY <1>1, NoneAssumption DEF Blobs, Entry
<1>3. app' \in Storage /\ app'[0] = b /\ \A t \in Slots \ {0} : app'[t] = app[t]
  BY <1>1 DEF Storage
<1> HIDE DEF e
<1>4. /\ map' \in Seq(Entry) /\ Len(map') = SlotCount /\ DOMAIN map' = DOMAIN map
      /\ map'[1] = e /\ \A n \in DOMAIN map \ {1} : map'[n] = map[n]
  <2>1. map \in Seq(Entry) /\ map' = [map EXCEPT ![1] = e]
    BY DenseSlots DEF e
  <2>2. QED
    BY <1>1, <1>2, <2>1
<1>5. map' \in SeqOf(Entry, SlotCount)
  <2>1. Len(map') <= SlotCount /\ SlotCount \in Nat
    BY <1>4, DenseSlots
  <2>2. QED
    BY <1>4, <2>1, SeqOfIs
<1>6. ASSUME TablesMatch(map, app), OneSlotEach(app), Dense(map) PROVE Stores(b)
  <2>1. \A t \in Slots : app[t] # None => app[t].id # b.id
    BY <1>6, NoEntryNoBond
  <2>2. OneSlotEach(app')
    BY <1>3, <1>6, <2>1 DEF OneSlotEach
  <2>3. \A n \in DOMAIN map : map[n].slot = n - 1 /\ map[n].slot \in Slots /\ n \in Nat
    BY <1>6, DenseSlots
  <2>4. TablesMatch(map', app')
    <3>1. ASSUME NEW n \in DOMAIN map'
          PROVE  app'[map'[n].slot] # None /\ app'[map'[n].slot].id = map'[n].id
      <4>1. CASE n = 1
        BY <1>2, <1>3, <1>4, <4>1
      <4>2. CASE n # 1
        <5>1. n \in DOMAIN map /\ map'[n] = map[n]
          BY <1>4, <4>2
        <5>2. map[n].slot \in Slots \ {0}
          BY <2>3, <4>2, <5>1
        <5>3. app[map[n].slot] # None /\ app[map[n].slot].id = map[n].id
          BY <1>6, <5>1, TablesMatchIs
        <5>4. QED
          BY <1>3, <5>1, <5>2, <5>3
      <4>3. QED
        BY <4>1, <4>2
    <3>2. ASSUME NEW t \in Slots, app'[t] # None PROVE \E n \in DOMAIN map' : map'[n].slot = t
      <4>1. CASE t = 0
        BY <1>1, <1>2, <1>4, <4>1
      <4>2. CASE t # 0
        <5>1. PICK n \in DOMAIN map : map[n].slot = t
          BY <1>3, <1>6, <3>2, <4>2, TablesMatchIs
        <5>2. n # 1
          BY <2>3, <4>2, <5>1
        <5>3. n \in DOMAIN map' /\ map'[n] = map[n]
          BY <1>4, <5>2
        <5>4. QED
          BY <5>1, <5>3
      <4>3. QED
        BY <4>1, <4>2
    <3>3. QED
      BY <3>1, <3>2, TablesMatchIs
  <2>5. Stored = Slots
    <3>1. ASSUME NEW t \in Slots PROVE app[t] # None
      <4>1. t + 1 \in DOMAIN map /\ (t + 1) - 1 = t
        BY <1>1, DenseSlots DEF Slots
      <4>2. map[t + 1].slot = t
        BY <2>3, <4>1
      <4>3. QED
        BY <1>6, <4>1, <4>2, TablesMatchIs
    <3>2. QED
      BY <3>1 DEF Stored
  <2>6. EvictsOnlyWhenFull
    BY <2>5 DEF EvictsOnlyWhenFull
  <2>7. QED
    BY <1>3, <2>1, <2>2, <2>4, <2>6 DEF Stores
<1>7. QED
  BY <1>3, <1>5, <1>6

LEMMA StoreBondKeeps ==
  ASSUME map \in SeqOf(Entry, SlotCount), app \in Storage, NEW b \in Blobs, StoreBond(b)
  PROVE  /\ app' \in Storage /\ map' \in SeqOf(Entry, SlotCount)
         /\ TablesMatch(map, app) /\ OneSlotEach(app) /\ Dense(map) => Stores(b)
<1>1. CASE EntriesOf(map, b.id) # {}
  <2>1. app' = [app EXCEPT ![map[Min(EntriesOf(map, b.id))].slot] = b] /\ UNCHANGED map
    BY <1>1 DEF StoreBond
  <2>2. QED
    BY <1>1, <2>1, StoreKnown
<1>2. CASE EntriesOf(map, b.id) = {} /\ Len(map) < SlotCount
  <2>1. /\ map' = Append(map, [id |-> b.id, slot |-> Len(map)])
        /\ app' = [app EXCEPT ![Len(map)] = b]
    BY <1>2, DenseSlots DEF StoreBond
  <2>2. QED
    BY <1>2, <2>1, StoreNew
<1>3. CASE EntriesOf(map, b.id) = {} /\ Len(map) = SlotCount
  <2>1. /\ map' = [map EXCEPT ![1] = [id |-> b.id, slot |-> 0]]
        /\ app' = [app EXCEPT ![0] = b]
    BY <1>3, DenseSlots DEF StoreBond
  <2>2. QED
    BY <1>3, <2>1, StoreFull
<1>4. QED
  BY <1>1, <1>2, <1>3 DEF StoreBond
-----------------------------------------------------------------------------
(***************************************************************************)
(* Every step keeps the invariant.                                         *)
(***************************************************************************)
\* What the invariant says about the tables before a step.
LEMMA TablesKnown ==
  ASSUME IInv
  PROVE  /\ map \in SeqOf(Entry, SlotCount) /\ app \in Storage /\ stack \in Keyring
         /\ Bonds \in Tables
         /\ up /\ ~holed => Sound(Bonds)
         /\ up /\ ~holed /\ "late" \notin habits /\ event = None => Fresh(app, stack)
<1>1. map \in SeqOf(Entry, SlotCount) /\ app \in Storage /\ stack \in Keyring
  BY DEF IInv, TypeOK, Entry, Storage, Keyring
<1>2. Bonds \in Tables
  BY <1>1 DEF Bonds, Tables
<1>3. up /\ ~holed => Sound(Bonds)
  BY DEF IInv, BondInv, Bonds, Sound
<1>4. up /\ ~holed /\ "late" \notin habits /\ event = None => Fresh(app, stack)
  BY DEF IInv, StorageIsCurrent, Fresh, Stored
<1>5. QED
  BY <1>1, <1>2, <1>3, <1>4

\* The types, from those of the three tables.
LEMMA TypesKept ==
  ASSUME up' \in BOOLEAN, map' \in SeqOf(Entry, SlotCount), app' \in Storage, stack' \in Keyring,
         event' \in Blobs \cup {None}, cmd' \in {"none", "other", "delete", "deleteAll"},
         index' \in Slots, admin' \in {"idle", "delete"}, asked' \in SeqOf(Slots, MaxAsked),
         holed' \in BOOLEAN, habits' \subseteq Habits
  PROVE  TypeOK'
BY DEF TypeOK, Entry, Storage, Keyring

LEMMA InitHolds ==
  ASSUME Init
  PROVE  IInv
<1>1. <<>> \in SeqOf(Entry, SlotCount) /\ <<>> \in SeqOf(Slots, MaxAsked)
  <2>1. <<>> \in Seq(Entry) /\ <<>> \in Seq(Slots) /\ Len(<<>>) = 0
    OBVIOUS
  <2>2. SlotCount \in Nat /\ MaxAsked \in Nat /\ 0 <= SlotCount /\ 0 <= MaxAsked
    BY SlotAssumption DEF MaxAsked
  <2>3. QED
    BY <2>1, <2>2, SeqOfIs
<1>2. TypeOK
  <2>1. 0 \in Slots
    BY SlotAssumption DEF Slots
  <2>2. map \in SeqOf([id : Ids, slot : Slots], SlotCount) /\ asked \in SeqOf(Slots, MaxAsked)
    BY <1>1 DEF Init, Entry
  <2>3. app \in [Slots -> Blobs \cup {None}] /\ stack \in [Ids -> Keys \cup {None}]
    BY DEF Init, NoBonds
  <2>4. /\ up \in BOOLEAN /\ holed \in BOOLEAN /\ event \in Blobs \cup {None}
        /\ cmd \in {"none", "other", "delete", "deleteAll"} /\ index \in Slots
        /\ admin \in {"idle", "delete"} /\ habits \subseteq Habits
    BY <2>1 DEF Init
  <2>5. QED
    BY <2>2, <2>3, <2>4 DEF TypeOK
<1>3. AskedInv /\ DownInv /\ EventInv /\ StorageIsCurrent
  BY DEF Init, AskedInv, DownInv, EventInv, StorageIsCurrent
<1>4. Dense(map) /\ OneSlotEach(app)
  BY DEF Init, Dense, OneSlotEach
<1>5. QED
  BY <1>2, <1>3, <1>4 DEF IInv, BondInv, Init

LEMMA LoadKeeps ==
  ASSUME IInv, Load
  PROVE  IInv'
<1>1. TypeOK /\ ~up /\ event = None /\ app \in Storage /\ SlotCount \in Nat
  BY TablesKnown, SlotAssumption DEF IInv, DownInv, Load
<1>2. Restored \in Session /\ map' = Restored.map /\ stack' = Restored.stack
  BY <1>1, RestoredGives DEF Load
<1>3. /\ map' \in Seq(Entry) /\ Len(map') <= SlotCount /\ stack' \in Keyring
      /\ Range(map') = {[id |-> app[s].id, slot |-> s] : s \in Stored}
      /\ OneSlotEach(app) => \A s \in Stored : stack'[app[s].id] = app[s].key
  BY <1>1, <1>2, RestoredGives DEF Session
<1>4. map' \in SeqOf(Entry, SlotCount)
  BY <1>1, <1>3, SeqOfIs
<1>5. TypeOK'
  <2>1. up' \in BOOLEAN /\ holed' \in BOOLEAN
    BY <1>1 DEF Load, NoteHoles, TypeOK, Dense
  <2>2. /\ event' \in Blobs \cup {None} /\ cmd' \in {"none", "other", "delete", "deleteAll"}
        /\ index' \in Slots /\ admin' \in {"idle", "delete"} /\ asked' \in SeqOf(Slots, MaxAsked)
        /\ habits' \subseteq Habits /\ app' \in Storage
    BY <1>1 DEF Load, TypeOK
  <2>3. QED
    BY <1>3, <1>4, <2>1, <2>2, TypesKept
<1>6. TablesMatch(map', app')
  <2>1. app' = app
    BY DEF Load
  <2>2. ASSUME NEW e \in Range(map') PROVE app[e.slot] # None /\ app[e.slot].id = e.id
    <3>1. PICK s \in Stored : e = [id |-> app[s].id, slot |-> s]
      BY <1>3
    <3>2. e.slot = s /\ e.id = app[s].id
      BY <3>1
    <3>3. QED
      BY <3>2 DEF Stored
  <2>3. ASSUME NEW s \in Slots, app[s] # None PROVE \E e \in Range(map') : e.slot = s
    <3>1. [id |-> app[s].id, slot |-> s] \in Range(map')
      BY <1>3, <2>3 DEF Stored
    <3>2. QED
      BY <3>1
  <2>4. QED
    BY <2>1, <2>2, <2>3 DEF TablesMatch
<1>7. AskedInv' /\ DownInv' /\ EventInv'
  BY <1>1 DEF Load, IInv, AskedInv, DownInv, EventInv
<1>8. BondInv'
  BY <1>6 DEF Load, IInv, BondInv, NoteHoles
<1>9. StorageIsCurrent'
  <2>1. ASSUME ~holed', NEW s \in Stored' PROVE app'[s].key = stack'[app'[s].id]
    <3>1. OneSlotEach(app) /\ app' = app /\ s \in Stored
      BY <2>1 DEF Load, NoteHoles, IInv, BondInv, Stored
    <3>2. QED
      BY <1>3, <3>1
  <2>2. QED
    BY <2>1 DEF StorageIsCurrent
<1>10. QED
  BY <1>5, <1>7, <1>8, <1>9 DEF IInv

LEMMA UnloadKeeps ==
  ASSUME IInv, Unload
  PROVE  IInv'
<1>1. <<>> \in SeqOf(Entry, SlotCount)
  <2>1. <<>> \in Seq(Entry) /\ Len(<<>>) = 0 /\ SlotCount \in Nat /\ 0 <= SlotCount
    BY SlotAssumption
  <2>2. QED
    BY <2>1, SeqOfIs
<1>2. TypeOK'
  <2>1. /\ up' \in BOOLEAN /\ holed' \in BOOLEAN /\ event' \in Blobs \cup {None}
        /\ cmd' \in {"none", "other", "delete", "deleteAll"}
        /\ index' \in Slots /\ admin' \in {"idle", "delete"} /\ asked' \in SeqOf(Slots, MaxAsked)
        /\ habits' \subseteq Habits
    BY DEF Unload, NoteHoles, IInv, TypeOK, Dense
  <2>2. map' \in SeqOf(Entry, SlotCount) /\ app' \in Storage /\ stack' \in Keyring
    BY <1>1, TablesKnown DEF Unload, NoBonds, Keyring
  <2>3. QED
    BY <2>1, <2>2, TypesKept
<1>3. AskedInv' /\ DownInv' /\ EventInv' /\ StorageIsCurrent'
  BY DEF Unload, IInv, AskedInv, DownInv, EventInv, StorageIsCurrent
<1>4. BondInv'
  BY DEF Unload, IInv, BondInv, NoteHoles
<1>5. QED
  BY <1>2, <1>3, <1>4 DEF IInv

LEMMA PairKeeps ==
  ASSUME IInv, NEW i \in Ids, Encrypt(i) \/ \E k \in Keys : Pair(i, k)
  PROVE  IInv'
<1>1. PICK k \in Keys : stack' = [stack EXCEPT ![i] = k] /\ event' = [id |-> i, key |-> k]
  <2>1. CASE Encrypt(i)
    <3>1. stack \in Keyring /\ stack[i] \in Keys
      BY <2>1, TablesKnown DEF Encrypt, Keyring
    <3>2. stack = [stack EXCEPT ![i] = stack[i]]
      BY <3>1 DEF Keyring
    <3>3. QED
      BY <2>1, <3>1, <3>2 DEF Encrypt
  <2>2. CASE \E k \in Keys : Pair(i, k)
    BY <2>2 DEF Pair
  <2>3. QED
    BY <2>1, <2>2
<1>2. /\ up /\ admin = "idle" /\ event = None
      /\ UNCHANGED <<up, map, app, cmd, index, admin, asked, holed, habits>>
  BY DEF Encrypt, Pair
<1>3. /\ stack' \in Keyring /\ stack'[i] = k /\ \A j \in Ids \ {i} : stack'[j] = stack[j]
      /\ event' \in Blobs /\ event'.id = i /\ event'.key = k
  BY <1>1, TablesKnown DEF Keyring, Blobs
<1>4. TypeOK'
  <2>1. map' \in SeqOf(Entry, SlotCount) /\ app' \in Storage
    BY <1>2, TablesKnown
  <2>2. /\ up' \in BOOLEAN /\ holed' \in BOOLEAN
        /\ cmd' \in {"none", "other", "delete", "deleteAll"}
        /\ index' \in Slots /\ admin' \in {"idle", "delete"} /\ asked' \in SeqOf(Slots, MaxAsked)
        /\ habits' \subseteq Habits
    BY <1>2 DEF IInv, TypeOK
  <2>3. QED
    BY <1>3, <2>1, <2>2, TypesKept
<1>5. AskedInv' /\ DownInv' /\ BondInv'
  BY <1>2 DEF IInv, AskedInv, DownInv, BondInv, Dense
<1>6. EventInv'
  BY <1>2, <1>3 DEF EventInv
<1>7. StorageIsCurrent'
  <2>1. ASSUME ~holed, "late" \notin habits, NEW s \in Stored, app[s].id # i
        PROVE  app[s].key = stack'[app[s].id]
    <3>1. app[s].key = stack[app[s].id]
      BY <1>2, <2>1, TablesKnown DEF Fresh, Stored
    <3>2. app[s].id \in Ids
      BY <2>1, TablesKnown DEF Stored, Storage, Blobs
    <3>3. QED
      BY <1>3, <2>1, <3>1, <3>2
  <2>2. event' # None
    BY <1>3, NoneAssumption
  <2>3. Stored' = Stored
    BY <1>2 DEF Stored
  <2>4. QED
    BY <1>2, <1>3, <2>1, <2>2, <2>3 DEF StorageIsCurrent
<1>8. QED
  BY <1>4, <1>5, <1>6, <1>7 DEF IInv

LEMMA HandleEventKeeps ==
  ASSUME IInv, HandleEvent
  PROVE  /\ IInv'
         /\ ~holed => EvictsOnlyWhenFull
<1> DEFINE b == event
<1>1. /\ b \in Blobs /\ up /\ admin = "idle" /\ StoreBond(b) /\ event' = None
      /\ UNCHANGED <<up, stack, cmd, index, admin, asked, habits>>
      /\ map \in SeqOf(Entry, SlotCount) /\ app \in Storage
  BY TablesKnown DEF HandleEvent, IInv, TypeOK
<1>2. /\ app' \in Storage /\ map' \in SeqOf(Entry, SlotCount)
      /\ ~holed => Stores(b)
  <2>1. ~holed => TablesMatch(map, app) /\ OneSlotEach(app) /\ Dense(map)
    BY <1>1 DEF IInv, BondInv
  <2> HIDE DEF b
  <2>2. QED
    BY <1>1, <2>1, StoreBondKeeps
<1>3. TypeOK'
  <2>1. stack' \in Keyring /\ event' \in Blobs \cup {None}
    BY <1>1, TablesKnown
  <2>2. /\ up' \in BOOLEAN /\ holed' \in BOOLEAN
        /\ cmd' \in {"none", "other", "delete", "deleteAll"}
        /\ index' \in Slots /\ admin' \in {"idle", "delete"} /\ asked' \in SeqOf(Slots, MaxAsked)
        /\ habits' \subseteq Habits
    BY <1>1 DEF HandleEvent, NoteHoles, IInv, TypeOK, Dense
  <2>3. QED
    BY <1>2, <2>1, <2>2, TypesKept
<1>4. AskedInv' /\ DownInv' /\ EventInv'
  BY <1>1 DEF IInv, AskedInv, DownInv, EventInv
<1>5. BondInv'
  <2>1. ASSUME ~holed' PROVE Dense(map') /\ ~holed
    BY <2>1 DEF HandleEvent, NoteHoles
  <2>2. QED
    BY <1>2, <2>1 DEF BondInv, Stores
<1>6. StorageIsCurrent'
  <2>1. ASSUME ~holed', "late" \notin habits, NEW s \in Stored' PROVE app'[s].key = stack[app'[s].id]
    <3>1. ~holed /\ Stores(b) /\ s \in Slots /\ app'[s] # None
      BY <1>2, <2>1 DEF HandleEvent, NoteHoles, Stored
    <3>2. stack[b.id] = b.key
      BY <1>1, <2>1, NoneAssumption DEF IInv, EventInv
    <3>3. CASE app'[s] = b
      BY <3>2, <3>3
    <3>4. CASE app'[s] = app[s] /\ app[s].id # b.id
      <4>1. s \in Stored
        BY <3>1, <3>4 DEF Stored
      <4>2. QED
        BY <1>1, <2>1, <3>1, <3>4, <4>1 DEF IInv, StorageIsCurrent
    <3> HIDE DEF b
    <3>5. QED
      BY <3>1, <3>3, <3>4 DEF Stores
  <2>2. QED
    BY <1>1, <2>1 DEF StorageIsCurrent
<1>7. ~holed => EvictsOnlyWhenFull
  BY <1>2 DEF Stores
<1>8. QED
  BY <1>3, <1>4, <1>5, <1>6, <1>7 DEF IInv

LEMMA AskedKnown ==
  ASSUME IInv
  PROVE  asked \in Seq(Slots) /\ Len(asked) \in Nat /\ Len(asked) <= MaxAsked /\ MaxAsked \in Nat
<1>1. MaxAsked \in Nat /\ asked \in SeqOf(Slots, MaxAsked)
  BY DEF MaxAsked, IInv, TypeOK
<1>2. asked \in Seq(Slots) /\ Len(asked) <= MaxAsked
  BY <1>1, SeqOfIs
<1>3. QED
  BY <1>1, <1>2

\* The steps that leave bonds, session and events alone.
LEMMA BondsAlone ==
  ASSUME IInv, UNCHANGED <<up, map, app, stack, event, holed, habits>>,
         admin' = "idle" \/ AdminRuns \/ admin' = admin,
         cmd' \in {"none", "other", "delete", "deleteAll"}, index' \in Slots,
         admin' \in {"idle", "delete"}, asked' \in SeqOf(Slots, MaxAsked), AskedInv'
  PROVE  IInv'
<1>1. TypeOK'
  <2>1. map' \in SeqOf(Entry, SlotCount) /\ app' \in Storage /\ stack' \in Keyring
    BY TablesKnown
  <2>2. up' \in BOOLEAN /\ holed' \in BOOLEAN /\ event' \in Blobs \cup {None} /\ habits' \subseteq Habits
    BY DEF IInv, TypeOK
  <2>3. QED
    BY <2>1, <2>2, TypesKept
<1>2. DownInv' /\ EventInv'
  BY DEF IInv, DownInv, EventInv, AdminRuns
<1>3. BondInv' /\ StorageIsCurrent'
  BY DEF IInv, BondInv, StorageIsCurrent, Dense, Stored
<1>4. QED
  BY <1>1, <1>2, <1>3 DEF IInv

LEMMA RequestKeeps ==
  ASSUME IInv, NEW c \in {"other", "delete", "deleteAll"}, NEW s \in Slots, Request(c, s)
  PROVE  IInv'
<1>1. Len(asked) = IF admin = "delete" THEN 1 ELSE 0
  BY AskedKnown DEF Request, IInv, AskedInv
<1>2. cmd' = c /\ UNCHANGED <<up, map, app, stack, event, admin, holed, habits>> /\ index \in Slots
  BY DEF Request, IInv, TypeOK
<1>3. CASE c # "delete"
  <2>1. index' = index /\ asked' = asked
    BY <1>3 DEF Request
  <2>2. AskedInv'
    BY <1>1, <1>2, <1>3, <2>1 DEF IInv, AskedInv, Request
  <2>3. asked' \in SeqOf(Slots, MaxAsked) /\ admin' \in {"idle", "delete"}
    BY <1>2, <2>1 DEF IInv, TypeOK
  <2>4. QED
    BY <1>2, <2>1, <2>2, <2>3, BondsAlone
<1>4. CASE c = "delete"
  <2>1. index' = s /\ asked' = Append(asked, s) /\ (asked = <<>> \/ ("hurried" \in habits /\ Len(asked) < MaxAsked))
    BY <1>4 DEF Request
  <2>2. asked' \in Seq(Slots) /\ Len(asked') = Len(asked) + 1 /\ asked'[Len(asked) + 1] = s
    BY <2>1, AskedKnown
  <2>3. Len(asked') <= MaxAsked
    BY <2>1, <2>2, AskedKnown DEF MaxAsked
  <2>4. asked' \in SeqOf(Slots, MaxAsked)
    BY <2>2, <2>3, SeqOfIs, AskedKnown
  <2>5. Len(asked') = 1 + IF admin = "delete" THEN 1 ELSE 0
    BY <1>1, <2>2
  <2>6. "hurried" \notin habits => Len(asked') <= 1 /\ asked'[1] = s
    BY <2>1, <2>2
  <2>7. AskedInv'
    BY <1>2, <1>4, <2>1, <2>5, <2>6 DEF AskedInv
  <2>8. admin' \in {"idle", "delete"}
    BY <1>2 DEF IInv, TypeOK
  <2>9. QED
    BY <1>2, <1>4, <2>1, <2>4, <2>7, <2>8, BondsAlone
<1>5. QED
  BY <1>3, <1>4

LEMMA AdminTakeKeeps ==
  ASSUME IInv, AdminTakeOther \/ AdminTakeDelete
  PROVE  IInv'
<1>1. /\ UNCHANGED <<up, map, app, stack, event, index, asked, holed, habits>> /\ cmd' = "none"
      /\ index \in Slots /\ asked \in SeqOf(Slots, MaxAsked) /\ admin \in {"idle", "delete"} /\ AdminRuns
  BY DEF AdminTakeOther, AdminTakeDelete, IInv, TypeOK
<1>2. AskedInv' /\ admin' \in {"idle", "delete"}
  <2>1. CASE AdminTakeOther
    BY <1>1, <2>1 DEF AdminTakeOther, IInv, AskedInv
  <2>2. CASE AdminTakeDelete
    BY <1>1, <2>2 DEF AdminTakeDelete, AdminRuns, IInv, AskedInv
  <2>3. QED
    BY <2>1, <2>2
<1>3. QED
  BY <1>1, <1>2, BondsAlone

\* The steps that delete: the tables after keep the invariant if they keep in
\* step, and the host knows the bonds after when it did before.
LEMMA DeletingKeeps ==
  ASSUME IInv, NEW new \in Tables, BondsBecome(new), up,
         Sound(Bonds) => Sound(new),
         Sound(Bonds) /\ Fresh(app, stack) => Fresh(new.app, new.stack),
         "late" \notin habits => event = None,
         NoteHoles, UNCHANGED <<up, event, index, habits>>,
         cmd' \in {"none", "other", "delete", "deleteAll"}, admin' \in {"idle", "delete"},
         asked' \in SeqOf(Slots, MaxAsked), AskedInv'
  PROVE  IInv'
<1>1. /\ map' = new.map /\ app' = new.app /\ stack' = new.stack
      /\ map' \in SeqOf(Entry, SlotCount) /\ app' \in Storage /\ stack' \in Keyring
  BY DEF BondsBecome, Tables
<1>2. TypeOK'
  <2>1. /\ up' \in BOOLEAN /\ holed' \in BOOLEAN /\ event' \in Blobs \cup {None}
        /\ index' \in Slots /\ habits' \subseteq Habits
    BY DEF IInv, TypeOK, NoteHoles, Dense
  <2>2. QED
    BY <1>1, <2>1, TypesKept
<1>3. DownInv'
  BY DEF DownInv
<1>4. EventInv'
  BY DEF EventInv
<1>5. ~holed' => ~holed /\ Dense(map') /\ Sound(Bonds)
  BY TablesKnown DEF NoteHoles
<1>6. BondInv'
  BY <1>1, <1>5 DEF BondInv, Sound
<1>7. StorageIsCurrent'
  <2>1. ASSUME ~holed', "late" \notin habits PROVE Fresh(app', stack')
    BY <1>1, <1>5, <2>1, TablesKnown
  <2>2. QED
    BY <2>1 DEF StorageIsCurrent, Fresh, Stored
<1>8. QED
  BY <1>2, <1>3, <1>4, <1>6, <1>7 DEF IInv

LEMMA AdminTakeDeleteAllKeeps ==
  ASSUME IInv, AdminTakeDeleteAll
  PROVE  /\ IInv'
         /\ \A s \in Slots : app'[s] \in {app[s], None}
         /\ ~holed /\ "late" \notin habits => EmptiesAll
<1> DEFINE new == DeletedUpto(SlotCount)
<1>1. DeletesAll(Bonds, new) /\ Bonds.app = app /\ Bonds.stack = stack
  BY TablesKnown, DeletedGives DEF Bonds
<1>2. /\ BondsBecome(new) /\ NoteHoles /\ UNCHANGED <<up, event, index, admin, asked, habits>>
      /\ cmd = "deleteAll" /\ cmd' = "none" /\ up /\ ("late" \notin habits => event = None)
  BY DEF AdminTakeDeleteAll, AdminRuns
<1> HIDE DEF new
<1>3. AskedInv' /\ asked' \in SeqOf(Slots, MaxAsked) /\ admin' \in {"idle", "delete"}
  BY <1>2 DEF IInv, TypeOK, AskedInv
<1>4. IInv'
  BY <1>1, <1>2, <1>3, DeletingKeeps DEF DeletesAll
<1>5. app' = new.app
  BY <1>2 DEF BondsBecome
<1>6. ~holed /\ "late" \notin habits => Sound(Bonds) /\ Fresh(app, stack)
  BY <1>2, TablesKnown
<1>7. ~holed /\ "late" \notin habits => EmptiesAll
  BY <1>1, <1>5, <1>6 DEF DeletesAll, EmptiesAll
<1>8. QED
  BY <1>1, <1>4, <1>5, <1>7 DEF DeletesAll

LEMMA AdminDeleteKeeps ==
  ASSUME IInv, AdminDelete
  PROVE  /\ IInv'
         /\ index \in Slots /\ ("hurried" \notin habits => index = Head(asked))
         /\ \A s \in Slots \ {index} : app'[s] = app[s]
         /\ app'[index] \in {app[index], None}
         /\ ~holed /\ "late" \notin habits => app'[index] = None
<1> DEFINE new == DeleteSlot(Bonds, index)
<1>1. index \in Slots
  BY DEF IInv, TypeOK
<1>2. Deletes(Bonds, index, new) /\ Bonds.app = app /\ Bonds.stack = stack
  BY <1>1, TablesKnown, DeleteSlotKeeps DEF Bonds
<1>3. /\ BondsBecome(new) /\ NoteHoles /\ UNCHANGED <<up, event, cmd, index, habits>>
      /\ admin = "delete" /\ admin' = "idle" /\ asked' = Tail(asked)
      /\ up /\ ("late" \notin habits => event = None)
  BY DEF AdminDelete, IInv, DownInv, EventInv
<1> HIDE DEF new
<1>4. Len(asked) = 1 + IF cmd = "delete" THEN 1 ELSE 0
  BY <1>3, AskedKnown DEF IInv, AskedInv
<1>5. asked' \in Seq(Slots) /\ Len(asked') = IF cmd = "delete" THEN 1 ELSE 0
  <2>1. asked # <<>> /\ asked \in Seq(Slots)
    BY <1>4, AskedKnown
  <2>2. Tail(asked) \in Seq(Slots) /\ Len(Tail(asked)) = Len(asked) - 1
    BY <2>1
  <2>3. QED
    BY <1>3, <1>4, <2>2
<1>6. "hurried" \notin habits => index = asked[1] /\ Len(asked) = 1 /\ asked' = <<>>
  <2>1. ASSUME "hurried" \notin habits PROVE index = asked[1] /\ Len(asked) = 1
    <3>1. Len(asked) <= 1 /\ (asked # <<>> => asked[1] = index)
      BY <2>1 DEF IInv, AskedInv
    <3>2. Len(asked) = 1
      BY <1>4, <3>1
    <3>3. asked # <<>>
      BY <3>2
    <3>4. QED
      BY <3>1, <3>2, <3>3
  <2>2. ASSUME Len(asked) = 1 PROVE asked' = <<>>
    BY <1>3, <2>2, AskedKnown
  <2>3. QED
    BY <2>1, <2>2
<1>7. AskedInv'
  BY <1>3, <1>5, <1>6 DEF AskedInv
<1>8. asked' \in SeqOf(Slots, MaxAsked)
  <2>1. Len(asked') <= MaxAsked /\ MaxAsked \in Nat
    BY <1>5 DEF MaxAsked
  <2>2. QED
    BY <1>5, <2>1, SeqOfIs
<1>9. IInv'
  <2>1. cmd' \in {"none", "other", "delete", "deleteAll"} /\ admin' \in {"idle", "delete"}
    BY <1>3 DEF IInv, TypeOK
  <2>2. QED
    BY <1>2, <1>3, <1>7, <1>8, <2>1, DeletingKeeps DEF Deletes
<1>10. app' = new.app
  BY <1>3 DEF BondsBecome
<1>11. ~holed /\ "late" \notin habits => Sound(Bonds) /\ Fresh(app, stack)
  BY <1>3, TablesKnown
<1>12. "hurried" \notin habits => index = Head(asked)
  BY <1>6
<1>13. QED
  BY <1>1, <1>2, <1>9, <1>10, <1>11, <1>12 DEF Deletes

LEMMA StutterKeeps ==
  ASSUME IInv, UNCHANGED vars
  PROVE  IInv'
<1>1. TypeOK'
  BY DEF vars, IInv, TypeOK
<1>2. AskedInv' /\ DownInv' /\ BondInv'
  BY DEF vars, IInv, AskedInv, DownInv, BondInv, Dense
<1>3. EventInv' /\ StorageIsCurrent'
  BY DEF vars, IInv, EventInv, StorageIsCurrent, Stored
<1>4. QED
  BY <1>1, <1>2, <1>3 DEF IInv

LEMMA NextKeeps ==
  ASSUME IInv, [Next]_vars
  PROVE  IInv'
<1>1. CASE Load
  BY <1>1, LoadKeeps
<1>2. CASE Unload
  BY <1>2, UnloadKeeps
<1>3. CASE \E i \in Ids : Encrypt(i) \/ \E k \in Keys : Pair(i, k)
  BY <1>3, PairKeeps
<1>4. CASE HandleEvent
  BY <1>4, HandleEventKeeps
<1>5. CASE \E c \in {"other", "delete", "deleteAll"}, s \in Slots : Request(c, s)
  BY <1>5, RequestKeeps
<1>6. CASE AdminTakeDeleteAll
  BY <1>6, AdminTakeDeleteAllKeeps
<1>7. CASE AdminTakeOther \/ AdminTakeDelete
  BY <1>7, AdminTakeKeeps
<1>8. CASE AdminDelete
  BY <1>8, AdminDeleteKeeps
<1>9. CASE UNCHANGED vars
  BY <1>9, StutterKeeps
<1>10. QED
  BY <1>1, <1>2, <1>3, <1>4, <1>5, <1>6, <1>7, <1>8, <1>9 DEF Next

LEMMA Invariant == Spec => []IInv
<1>1. Init => IInv
  BY InitHolds
<1>2. IInv /\ [Next]_vars => IInv'
  BY NextKeeps
<1>3. QED
  BY <1>1, <1>2, PTL DEF Spec
-----------------------------------------------------------------------------
(***************************************************************************)
(* What holds for every number of peers and keys.                          *)
(***************************************************************************)
\* Whatever the peers, keys and callers do, the slot map never outgrows the
\* configured slots, and every slot, key and command is one there is.
THEOREM TypeCorrect == Spec => []TypeOK
<1>1. IInv => TypeOK
  BY DEF IInv
<1>2. QED
  BY <1>1, Invariant, PTL

\* During a session the slot map and the app's storage name the same bonds, each
\* peer in a slot of its own, for every sequence of pairings, evictions, deletes,
\* unloads and restores in which no delete leaves a hole below another bond.
THEOREM MatchesMap == Spec => []StorageMatchesMap
<1>1. ASSUME IInv PROVE StorageMatchesMap
  <2>1. ASSUME up, ~holed
        PROVE  /\ \A m, n \in DOMAIN map : m # n => map[m].id # map[n].id
               /\ \A n \in DOMAIN map : app[map[n].slot] # None /\ app[map[n].slot].id = map[n].id
               /\ \A s \in Stored : \E n \in DOMAIN map : map[n].slot = s
    <3>1. Dense(map) /\ OneSlotEach(app) /\ TablesMatch(map, app)
      BY <1>1, <2>1 DEF IInv, BondInv
    <3>2. /\ \A n \in DOMAIN map : app[map[n].slot] # None /\ app[map[n].slot].id = map[n].id
          /\ \A s \in Stored : \E n \in DOMAIN map : map[n].slot = s
      BY <3>1, TablesMatchIs DEF Stored
    <3>3. \A n \in DOMAIN map : map[n].slot \in Slots /\ map[n].slot = n - 1 /\ n \in Nat
      BY <1>1, <3>1, TablesKnown, DenseSlots
    <3>4. ASSUME NEW m \in DOMAIN map, NEW n \in DOMAIN map, map[m].id = map[n].id PROVE m = n
      <4>1. map[m].slot = map[n].slot
        BY <3>1, <3>2, <3>3, <3>4 DEF OneSlotEach
      <4>2. QED
        BY <3>3, <4>1
    <3>5. QED
      BY <3>2, <3>4
  <2>2. QED
    BY <2>1 DEF StorageMatchesMap
<1>2. QED
  BY <1>1, Invariant, PTL

\* The key that the app would restore for a peer is the key the host uses, or the
\* event with the newer one is on its way to store_bond.
THEOREM IsCurrent == Spec => []StorageIsCurrent
<1>1. IInv => StorageIsCurrent
  BY DEF IInv
<1>2. QED
  BY <1>1, Invariant, PTL

\* store_bond overwrites another peer's bond only when every slot holds one: not
\* after an unload and a load, which number the entries anew, and not after
\* deletes from the end.
THEOREM KeepsBond == Spec => KeepsBondWhileDense
<1>1. ASSUME IInv, [Next]_vars, ~holed PROVE EvictsOnlyWhenFull
  <2>1. CASE HandleEvent
    BY <1>1, <2>1, HandleEventKeeps
  <2>2. CASE \A s \in Slots : app'[s] \in {app[s], None}
    BY <2>2 DEF EvictsOnlyWhenFull, Stored
  <2>3. CASE AdminTakeDeleteAll
    BY <1>1, <2>2, <2>3, AdminTakeDeleteAllKeeps
  <2>4. CASE AdminDelete
    <3>1. \A s \in Slots : app'[s] \in {app[s], None}
      BY <1>1, <2>4, AdminDeleteKeeps
    <3>2. QED
      BY <2>2, <3>1
  <2>5. CASE UNCHANGED app
    BY <2>2, <2>5
  <2>6. QED
    BY <1>1, <2>1, <2>3, <2>4, <2>5
       DEF Next, vars, Load, Unload, Encrypt, Pair, Request, AdminTakeOther, AdminTakeDelete
<1>2. IInv /\ [Next]_vars => [~holed => EvictsOnlyWhenFull]_vars
  BY <1>1
<1>3. QED
  BY <1>2, Invariant, PTL DEF Spec, KeepsBondWhileDense

\* runtime_ble_bond_delete_all leaves no bond in any slot, however many there were
\* and in whatever order they came.
THEOREM DeleteAll == Spec => DeleteAllEmpties
<1>1. ASSUME IInv, [Next]_vars, cmd = "deleteAll", cmd' = "none", ~holed, "late" \notin habits
      PROVE  EmptiesAll
  <2>1. AdminTakeDeleteAll
    BY <1>1 DEF Next, vars, Load, Unload, Encrypt, Pair, HandleEvent, Request, AdminTakeOther,
                AdminTakeDelete, AdminDelete
  <2>2. QED
    BY <1>1, <2>1, AdminTakeDeleteAllKeeps
<1>2. IInv /\ [Next]_vars =>
        [cmd = "deleteAll" /\ cmd' = "none" /\ ~holed /\ "late" \notin habits => EmptiesAll]_vars
  BY <1>1
<1>3. QED
  BY <1>2, Invariant, PTL DEF Spec, DeleteAllEmpties

\* A single delete clears the slot that its accepted request named and no other,
\* although bond_admin_loop reads the slot from BOND_INDEX after it has emptied
\* the command cell for the next caller.
THEOREM DeletesAsked == Spec => DeletesSlotAsked
<1>1. ASSUME IInv, [Next]_vars, admin = "delete", admin' = "idle", "hurried" \notin habits
      PROVE  /\ \A s \in Slots \ {Head(asked)} : app'[s] = app[s]
             /\ ~holed /\ "late" \notin habits => app'[Head(asked)] = None
  <2>1. AdminDelete
    BY <1>1 DEF Next, vars, Load, Unload, Encrypt, Pair, HandleEvent, Request, AdminTakeOther,
                AdminTakeDelete, AdminTakeDeleteAll, AdminRuns
  <2>2. QED
    BY <1>1, <2>1, AdminDeleteKeeps
<1>2. IInv /\ [Next]_vars =>
        [admin = "delete" /\ admin' = "idle" /\ "hurried" \notin habits =>
           /\ \A s \in Slots \ {Head(asked)} : app'[s] = app[s]
           /\ ~holed /\ "late" \notin habits => app'[Head(asked)] = None]_vars
  BY <1>1
<1>3. QED
  BY <1>2, Invariant, PTL DEF Spec, DeletesSlotAsked
=============================================================================
