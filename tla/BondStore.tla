------------------------------ MODULE BondStore ------------------------------
(***************************************************************************)
(* Persistent bonding: the slot map of a session, the app's storage behind *)
(* on_bond_load and on_bond_store, the host's own bond table, and the      *)
(* one-command cell BOND_CMD through which callers delete bonds            *)
(* (rust/src/radio.rs, rust/src/lib.rs).                                   *)
(*                                                                         *)
(* The BLE thread runs restore_bonds, store_bond and a whole round of      *)
(* bond_admin_loop without awaiting anything, so each is one step of its   *)
(* tasks; a caller's thread may still run between the two reads of a       *)
(* delete command.  The app persists what it is given, as API.md asks.     *)
(***************************************************************************)
EXTENDS Naturals, SequencesExt

CONSTANTS
  Ids,        \* identities of peers
  Keys,       \* long term keys
  SlotCount,  \* bond_slot_count(cfg)
  None        \* no bond, no key

Slots == 0 .. SlotCount - 1
Blobs == [id : Ids, key : Keys]

ASSUME SlotAssumption == SlotCount \in 1 .. 4
ASSUME NoneAssumption == None \notin Keys \cup Blobs

\* Bound: deletes accepted and not completed.
MaxAsked == 2

VARIABLES
  up,     \* a session runs
  map,    \* Gatt.bond_slots: which identity is stored in which slot
  app,    \* the app's storage, slot by slot
  stack,  \* the host's bond table: the key it holds for a peer
  event,  \* a PairingComplete or Encrypted event the host has queued
  cmd,    \* BOND_CMD; "other" is an enumeration or a new I/O capability
  index,  \* BOND_INDEX
  admin,  \* bond_admin_loop: "idle", or "delete" once it has taken that command
  asked,  \* history: slots of the accepted deletes that have not completed
  holed,  \* history: the map has once been other than slots 0, 1, ... in order
  habits  \* fixed for a behaviour, what happens in it:
          \*   "hurried"  a caller deletes again before on_bond_deleted
          \*   "late"     a pairing event waits in the host while a command runs

vars == <<up, map, app, stack, event, cmd, index, admin, asked, holed, habits>>

Habits == {"hurried", "late"}

TypeOK ==
  /\ up \in BOOLEAN
  /\ map \in SeqOf([id : Ids, slot : Slots], SlotCount)
  /\ app \in [Slots -> Blobs \cup {None}]
  /\ stack \in [Ids -> Keys \cup {None}]
  /\ event \in Blobs \cup {None}
  /\ cmd \in {"none", "other", "delete", "deleteAll"}
  /\ index \in Slots
  /\ admin \in {"idle", "delete"}
  /\ asked \in SeqOf(Slots, MaxAsked)
  /\ holed \in BOOLEAN /\ habits \subseteq Habits

NoBonds == [i \in Ids |-> None]

Init ==
  /\ up = FALSE /\ map = <<>>
  /\ app = [s \in Slots |-> None]
  /\ stack = NoBonds /\ event = None
  /\ cmd = "none" /\ index = 0 /\ admin = "idle" /\ asked = <<>>
  /\ holed = FALSE /\ habits \in SUBSET Habits

\* The entries that a map m has for identity i, and for slot s.
EntriesOf(m, i) == {n \in DOMAIN m : m[n].id = i}
EntriesAt(m, s) == {n \in DOMAIN m : m[n].slot = s}

\* The slots of the bonds that the app has.
Stored == {s \in Slots : app[s] # None}

\* The entries of the map stand for slots 0, 1, ... in this order, which is what
\* store_bond numbers new entries by.
Dense(m) == \A n \in DOMAIN m : m[n].slot = n - 1

\* Kept by every action that changes the map.
NoteHoles == holed' = (holed \/ ~Dense(map'))

(***************************************************************************)
(* Loading and unloading.                                                  *)
(***************************************************************************)

\* add_bond_information for the blob of slot s: the host keeps one bond per
\* identity, and the map gets an entry.
RestoreSlot(st, s) ==
  IF app[s] = None THEN st
  ELSE [map   |-> Append(st.map, [id |-> app[s].id, slot |-> s]),
        stack |-> [st.stack EXCEPT ![app[s].id] = app[s].key]]

\* restore_bonds: map and host once on_bond_load was called for each slot, in turn.
Restored ==
  LET st[n \in 0 .. SlotCount] ==
        IF n = 0 THEN [map |-> <<>>, stack |-> NoBonds] ELSE RestoreSlot(st[n - 1], n - 1)
  IN  st[SlotCount]

Load ==
  /\ ~up
  /\ map' = Restored.map /\ stack' = Restored.stack
  /\ up' = TRUE
  /\ NoteHoles
  /\ UNCHANGED <<app, event, cmd, index, admin, asked, habits>>

\* The session ends with its map and host. A command in the cell stays.
Unload ==
  /\ up /\ admin = "idle"
  /\ up' = FALSE /\ map' = <<>> /\ stack' = NoBonds /\ event' = None
  /\ NoteHoles
  /\ UNCHANGED <<app, cmd, index, admin, asked, habits>>

(***************************************************************************)
(* Pairing: the host's events and store_bond.                              *)
(***************************************************************************)

\* The host pairs with a peer, keeps the new bond itself and queues the event.
Pair(i, k) ==
  /\ up /\ admin = "idle" /\ event = None
  /\ stack' = [stack EXCEPT ![i] = k]
  /\ event' = [id |-> i, key |-> k]
  /\ UNCHANGED <<up, map, app, cmd, index, admin, asked, holed, habits>>

\* A bonded peer encrypts its link again: the event carries the stored bond.
Encrypt(i) ==
  /\ up /\ admin = "idle" /\ event = None
  /\ stack[i] # None
  /\ event' = [id |-> i, key |-> stack[i]]
  /\ UNCHANGED <<up, map, app, stack, cmd, index, admin, asked, holed, habits>>

\* Mutant: a full map is not noticed, the new bond gets a slot past the last.
StoreBondUnbounded(b) ==
  \/ /\ EntriesOf(map, b.id) # {}
     /\ app' = [app EXCEPT ![map[Min(EntriesOf(map, b.id))].slot] = b]
     /\ UNCHANGED map
  \/ /\ EntriesOf(map, b.id) = {}
     /\ map' = Append(map, [id |-> b.id, slot |-> Len(map)])
     /\ app' = [app EXCEPT ![Len(map)] = b]

\* Mutant: a bond the map already has is taken to be stored.
StoreBondOnce(b) ==
  \/ EntriesOf(map, b.id) # {} /\ UNCHANGED <<map, app>>
  \/ /\ EntriesOf(map, b.id) = {} /\ Len(map) < SlotCount
     /\ map' = Append(map, [id |-> b.id, slot |-> Len(map)])
     /\ app' = [app EXCEPT ![Len(map)] = b]
  \/ /\ EntriesOf(map, b.id) = {} /\ Len(map) = SlotCount
     /\ map' = [map EXCEPT ![1] = [id |-> b.id, slot |-> 0]]
     /\ app' = [app EXCEPT ![0] = b]

\* Mutant: the map counts as full one entry early.
StoreBondEvictsEarly(b) ==
  \/ /\ EntriesOf(map, b.id) # {}
     /\ app' = [app EXCEPT ![map[Min(EntriesOf(map, b.id))].slot] = b]
     /\ UNCHANGED map
  \/ /\ EntriesOf(map, b.id) = {} /\ (map = <<>> \/ Len(map) + 1 < SlotCount)
     /\ map' = Append(map, [id |-> b.id, slot |-> Len(map)])
     /\ app' = [app EXCEPT ![Len(map)] = b]
  \/ /\ EntriesOf(map, b.id) = {} /\ map # <<>> /\ Len(map) + 1 >= SlotCount
     /\ map' = [map EXCEPT ![1] = [id |-> b.id, slot |-> 0]]
     /\ app' = [app EXCEPT ![0] = b]

\* store_bond: the slot of a known identity, else the slot numbered after the
\* entries of the map, else slot 0 in place of the first entry.
StoreBond(b) ==
  \/ /\ EntriesOf(map, b.id) # {}
     /\ app' = [app EXCEPT ![map[Min(EntriesOf(map, b.id))].slot] = b]
     /\ UNCHANGED map
  \/ /\ EntriesOf(map, b.id) = {} /\ Len(map) < SlotCount
     /\ map' = Append(map, [id |-> b.id, slot |-> Len(map)])
     /\ app' = [app EXCEPT ![Len(map)] = b]
  \/ /\ EntriesOf(map, b.id) = {} /\ Len(map) = SlotCount
     /\ map' = [map EXCEPT ![1] = [id |-> b.id, slot |-> 0]]
     /\ app' = [app EXCEPT ![0] = b]

\* The event loop of the link takes the event; a bondable link has a bond in it.
HandleEvent ==
  /\ up /\ admin = "idle" /\ event # None
  /\ StoreBond(event)
  /\ event' = None
  /\ NoteHoles
  /\ UNCHANGED <<up, stack, cmd, index, admin, asked, habits>>

(***************************************************************************)
(* Deleting: the callers' commands and bond_admin_loop.                    *)
(***************************************************************************)

\* bond_admin_cmd: refused while a command waits, else argument, then command.
Request(c, s) ==
  /\ cmd = "none"
  /\ c = "delete" => asked = <<>> \/ ("hurried" \in habits /\ Len(asked) < MaxAsked)
  /\ cmd' = c
  /\ index' = IF c = "delete" THEN s ELSE index
  /\ asked' = IF c = "delete" THEN Append(asked, s) ELSE asked
  /\ UNCHANGED <<up, map, app, stack, event, admin, holed, habits>>

\* retain: the entries of m for other slots than s, in order.
Retain(m, s) ==
  LET kept[n \in 0 .. Len(m)] ==
        IF n = 0 THEN <<>>
        ELSE IF m[n].slot = s THEN kept[n - 1] ELSE Append(kept[n - 1], m[n])
  IN  kept[Len(m)]

\* Mutant: the slot is cleared, but its entry stays in the map.
DeleteSlotKeepsEntry(st, s) ==
  LET id == st.map[Min(EntriesAt(st.map, s))].id
  IN  IF EntriesAt(st.map, s) = {} \/ st.stack[id] = None
      THEN [st EXCEPT !.app[s] = None]
      ELSE [st EXCEPT !.app[s] = None, !.stack[id] = None]

\* delete_bond_slot: an unmapped slot is only cleared; when the host does not
\* know the bond nothing is; else host, map and storage forget it.
DeleteSlot(st, s) ==
  LET id == st.map[Min(EntriesAt(st.map, s))].id
  IN  IF EntriesAt(st.map, s) = {} THEN [st EXCEPT !.app = [@ EXCEPT ![s] = None]]
      ELSE IF st.stack[id] = None THEN st
      ELSE [map   |-> Retain(st.map, s),
            app   |-> [st.app EXCEPT ![s] = None],
            stack |-> [st.stack EXCEPT ![id] = None]]

Bonds == [map |-> map, app |-> app, stack |-> stack]

BondsBecome(st) == map' = st.map /\ app' = st.app /\ stack' = st.stack

\* The event loop is polled before bond_admin_loop is, unless it is held up (it
\* awaits room for a reply) with an event queued behind.
AdminRuns == up /\ admin = "idle" /\ ("late" \in habits \/ event = None)

\* delete_bond_slot for the first count slots in turn.
DeletedUpto(count) ==
  LET st[n \in 0 .. count] == IF n = 0 THEN Bonds ELSE DeleteSlot(st[n - 1], n - 1)
  IN  st[count]

\* Mutant: delete-all stops one slot short.
AdminTakeDeleteAllShort ==
  /\ AdminRuns /\ cmd = "deleteAll"
  /\ cmd' = "none"
  /\ BondsBecome(DeletedUpto(SlotCount - 1))
  /\ NoteHoles
  /\ UNCHANGED <<up, event, index, admin, asked, habits>>

\* The loop swaps the command out and deletes every slot in turn.
AdminTakeDeleteAll ==
  /\ AdminRuns /\ cmd = "deleteAll"
  /\ cmd' = "none"
  /\ BondsBecome(DeletedUpto(SlotCount))
  /\ NoteHoles
  /\ UNCHANGED <<up, event, index, admin, asked, habits>>

\* The loop swaps out an enumeration or a new I/O capability, which leave the
\* bonds alone.
AdminTakeOther ==
  /\ AdminRuns /\ cmd = "other"
  /\ cmd' = "none"
  /\ UNCHANGED <<up, map, app, stack, event, index, admin, asked, holed, habits>>

\* The loop swaps out a single delete; its argument is still in BOND_INDEX.
AdminTakeDelete ==
  /\ AdminRuns /\ cmd = "delete"
  /\ cmd' = "none" /\ admin' = "delete"
  /\ UNCHANGED <<up, map, app, stack, event, index, asked, holed, habits>>

\* Mutant: the argument is taken for a one-based slot number.
AdminDeleteOffByOne ==
  /\ admin = "delete"
  /\ BondsBecome(DeleteSlot(Bonds, IF index = 0 THEN 0 ELSE index - 1))
  /\ admin' = "idle" /\ asked' = Tail(asked)
  /\ NoteHoles
  /\ UNCHANGED <<up, event, cmd, index, habits>>

\* It reads BOND_INDEX, deletes that slot and calls on_bond_deleted.
AdminDelete ==
  /\ admin = "delete"
  /\ BondsBecome(DeleteSlot(Bonds, index))
  /\ admin' = "idle" /\ asked' = Tail(asked)
  /\ NoteHoles
  /\ UNCHANGED <<up, event, cmd, index, habits>>

Next ==
  \/ Load \/ Unload
  \/ \E i \in Ids : Encrypt(i) \/ \E k \in Keys : Pair(i, k)
  \/ HandleEvent
  \/ \E c \in {"other", "delete", "deleteAll"}, s \in Slots : Request(c, s)
  \/ AdminTakeDeleteAll \/ AdminTakeOther \/ AdminTakeDelete \/ AdminDelete

Spec == Init /\ [][Next]_vars

(***************************************************************************)
(* Properties.                                                             *)
(***************************************************************************)

\* During a session every entry of the slot map names a slot of its own in
\* which the app holds a bond of that very peer, and the app holds no bond the
\* map does not know: store_bond, delete_bond_slot, eviction and restore_bonds
\* keep the two tables in step, so that no peer's blob overwrites another's, as
\* long as no delete leaves a hole below another bond.
StorageMatchesMap ==
  up /\ ~holed =>
    /\ \A m, n \in DOMAIN map : m # n => map[m].id # map[n].id
    /\ \A n \in DOMAIN map : app[map[n].slot] # None /\ app[map[n].slot].id = map[n].id
    /\ \A s \in Stored : \E n \in DOMAIN map : map[n].slot = s

\* The key the app would restore for a peer is the key the host uses now,
\* unless the event that brings the newer one is still on its way: a peer that
\* pairs again has its new key stored (API.md: "the runtime restores them into
\* the BLE stack on the next runtime_ble_load()"), as long as no delete leaves a
\* hole, or is overtaken by a pairing event that waited behind it.
StorageIsCurrent ==
  up /\ ~holed /\ "late" \notin habits =>
    \A s \in Stored : \/ app[s].key = stack[app[s].id]
                      \/ event # None /\ event.id = app[s].id

EvictsOnlyWhenFull ==
  \A s \in Stored : app'[s] # None /\ app'[s].id # app[s].id => Stored = Slots

\* A stored bond is overwritten by another peer's only when no slot is free, as
\* long as no delete leaves a hole below another bond.
KeepsBondWhileDense == [][~holed => EvictsOnlyWhenFull]_vars

EmptiesAll == \A s \in Slots : app'[s] = None

\* Deleting all bonds leaves nothing in the app's storage, as long as no single
\* delete left a hole and no pairing event waits behind the command.
DeleteAllEmpties ==
  [][cmd = "deleteAll" /\ cmd' = "none" /\ ~holed /\ "late" \notin habits => EmptiesAll]_vars

\* "Delete every configured bond slot" (runtime_ble.h:567): the same whatever was
\* deleted before.
DeleteAllEmptiesEvenHoled ==
  [][cmd = "deleteAll" /\ cmd' = "none" /\ "late" \notin habits => EmptiesAll]_vars

\* "Delete a bond slot and clear app persistence" (runtime_ble.h:564): a single
\* delete touches no slot but the one the accepted request named, if callers wait
\* for on_bond_deleted before they delete again; and it clears that one, unless
\* the host does not know the bond: after a hole, or a late pairing event.
DeletesSlotAsked ==
  [][admin = "delete" /\ admin' = "idle" /\ "hurried" \notin habits =>
       /\ \A s \in Slots \ {Head(asked)} : app'[s] = app[s]
       /\ ~holed /\ "late" \notin habits => app'[Head(asked)] = None]_vars
=============================================================================
