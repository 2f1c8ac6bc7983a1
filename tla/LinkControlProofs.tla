------------------------- MODULE LinkControlProofs -------------------------
(***************************************************************************)
(* What the BLE thread asks of the host is what an accepted call asked     *)
(* for, for any commands and arguments, if there is one calling thread and *)
(* it waits with its next call until its last command has its arguments.   *)
(*                                                                         *)
(* From the first word that a call stores until the last one that the loop *)
(* loads for it, nothing else writes the words: HeldInv says that they     *)
(* still hold the call's token while its command waits and is loaded.      *)
(***************************************************************************)
EXTENDS LinkControl, TLAPS

Patient == Patience = "done" /\ \A p, q \in Callers : p = q

Values == Tokens \cup {None}
Places == [cmd : Cmds, tok : Tokens, at : Nat]

\* The words that are loaded for a command hold a token.
Holds(c, tok) == \A n \in 1 .. Len(Loads(c)) : word[Loads(c)[n]] = tok

ShapeInv ==
  /\ word \in [AllWords -> Values] /\ cmd \in Cmds \cup {None}
  /\ call \in [Callers -> Places \cup {None}]
  /\ job = [cmd |-> job.cmd, got |-> job.got]
  /\ link \in BOOLEAN /\ role \in {"peripheral", "central"}
  /\ rpc \in {"off", "tick", "load", "exec", "sleep"} /\ (rpc = "off" <=> ~link)

\* While a call is going on nothing waits and nothing is loaded, and what the call
\* has stored is there.
CallInv ==
  \A p \in Callers : call[p] # None =>
    /\ cmd = None /\ rpc # "load"
    /\ call[p].at \in 1 .. Len(Words(call[p].cmd)) + 2
    /\ \A k \in 1 .. Len(Words(call[p].cmd)) :
         k < call[p].at => word[Words(call[p].cmd)[k]] = call[p].tok

\* What waits, and what was swapped out, finds its words.
HeldInv ==
  /\ cmd # None => asked \in Calls /\ asked.cmd = cmd /\ Holds(cmd, asked.tok)
  /\ rpc \in {"load", "exec"} =>
       /\ due \in Calls /\ due.cmd = job.cmd
       /\ job.got \in Seq(Values) /\ Len(job.got) <= Len(Loads(job.cmd))
       /\ \A n \in 1 .. Len(job.got) : job.got[n] = due.tok
  /\ rpc = "load" => cmd = None /\ Holds(job.cmd, due.tok)
  /\ rpc = "exec" => Len(job.got) = Len(Loads(job.cmd))

AskInv == ShapeInv /\ CallInv /\ HeldInv
-----------------------------------------------------------------------------
(***************************************************************************)
(* The words of a command, and the order in which they are loaded.         *)
(***************************************************************************)
Cells == {"phy", "octets", "time", "min", "max", "latency", "timeout", "spaceMin", "spaceMax",
          "phyMask", "types", "subMin", "subMax", "continuation", "passkey"}

\* Every word that is loaded is one that the call stored, and as many are.
Matches(w, l) ==
  /\ w \in Seq(Cells) /\ l \in Seq(Cells) /\ Len(l) = Len(w)
  /\ \A n \in 1 .. Len(l) : \E k \in 1 .. Len(w) : l[n] = w[k]

LEMMA SameOrder ==
  ASSUME NEW w \in Seq(Cells)
  PROVE  Matches(w, w)
  BY DEF Matches

LEMMA WordsOf ==
  ASSUME NEW c
  PROVE  Matches(Words(c), Loads(c))
<1>1. CASE c = "phy"
  <2>1. /\ Words(c) = <<"phy">>
        /\ Loads(c) = Words(c)
    BY <1>1 DEF Words, Loads
  <2>2. <<"phy">> \in Seq(Cells)
    BY DEF Cells
  <2>3. QED
    BY <2>1, <2>2, SameOrder
<1>2. CASE c = "dataLength"
  <2>1. /\ Words(c) = <<"octets", "time">>
        /\ Loads(c) = Words(c)
    BY <1>2 DEF Words, Loads
  <2>2. <<"octets", "time">> \in Seq(Cells)
    BY DEF Cells
  <2>3. QED
    BY <2>1, <2>2, SameOrder
<1>3. CASE c = "connParams"
  <2>1. /\ Words(c) = <<"min", "max", "latency", "timeout">>
        /\ Loads(c) = <<"min", "max", "timeout", "latency">>
    BY <1>3 DEF Words, Loads
  <2> DEFINE w == <<"min", "max", "latency", "timeout">>
             l == <<"min", "max", "timeout", "latency">>
  <2>2. w \in Seq(Cells) /\ l \in Seq(Cells) /\ Len(w) = 4 /\ Len(l) = 4
    BY DEF Cells
  <2>3. \A n \in 1 .. 4 : \E k \in 1 .. 4 : l[n] = w[k]
    <3>1. l[1] = w[1] /\ l[2] = w[2] /\ l[3] = w[4] /\ l[4] = w[3]
      OBVIOUS
    <3>2. QED
      BY <3>1
  <2> HIDE DEF w, l
  <2>4. Matches(w, l)
    BY <2>2, <2>3 DEF Matches
  <2>5. QED
    BY <2>1, <2>4 DEF w, l
<1>4. CASE c = "frameSpace"
  <2>1. /\ Words(c) = <<"spaceMin", "spaceMax", "phyMask", "types">>
        /\ Loads(c) = Words(c)
    BY <1>4 DEF Words, Loads
  <2>2. <<"spaceMin", "spaceMax", "phyMask", "types">> \in Seq(Cells)
    BY DEF Cells
  <2>3. QED
    BY <2>1, <2>2, SameOrder
<1>5. CASE c = "rate"
  <2>1. /\ Words(c) = <<"min", "max", "subMin", "subMax", "latency", "continuation", "timeout">>
        /\ Loads(c) = <<"min", "max", "timeout", "subMin", "subMax", "latency", "continuation">>
    BY <1>5 DEF Words, Loads
  <2> DEFINE w == <<"min", "max", "subMin", "subMax", "latency", "continuation", "timeout">>
             l == <<"min", "max", "timeout", "subMin", "subMax", "latency", "continuation">>
  <2>2. w \in Seq(Cells) /\ l \in Seq(Cells) /\ Len(w) = 7 /\ Len(l) = 7
    BY DEF Cells
  <2>3. \A n \in 1 .. 7 : \E k \in 1 .. 7 : l[n] = w[k]
    <3>1. l[1] = w[1] /\ l[2] = w[2] /\ l[3] = w[7] /\ l[4] = w[3] /\ l[5] = w[4] /\ l[6] = w[5] /\ l[7] = w[6]
      OBVIOUS
    <3>2. QED
      BY <3>1
  <2> HIDE DEF w, l
  <2>4. Matches(w, l)
    BY <2>2, <2>3 DEF Matches
  <2>5. QED
    BY <2>1, <2>4 DEF w, l
<1>6. CASE c = "passkeyInput"
  <2>1. /\ Words(c) = <<"passkey">>
        /\ Loads(c) = Words(c)
    BY <1>6 DEF Words, Loads
  <2>2. <<"passkey">> \in Seq(Cells)
    BY DEF Cells
  <2>3. QED
    BY <2>1, <2>2, SameOrder
<1>7. CASE c \notin {"phy", "dataLength", "connParams", "frameSpace", "rate", "passkeyInput"}
  <2>1. Words(c) = << >> /\ Loads(c) = Words(c)
    BY <1>7 DEF Words, Loads
  <2>2. << >> \in Seq(Cells)
    OBVIOUS
  <2>3. QED
    BY <2>1, <2>2, SameOrder
<1>8. QED
  BY <1>1, <1>2, <1>3, <1>4, <1>5, <1>6, <1>7

LEMMA WordsKnown ==
  ASSUME NEW c \in Cmds
  PROVE  /\ Len(Words(c)) \in Nat /\ Len(Loads(c)) = Len(Words(c))
         /\ \A k \in 1 .. Len(Words(c)) : Words(c)[k] \in AllWords
         /\ \A n \in 1 .. Len(Loads(c)) : Loads(c)[n] \in AllWords
<1>1. DOMAIN Words(c) = 1 .. Len(Words(c)) /\ Len(Words(c)) \in Nat
  BY WordsOf DEF Matches
<1>2. \A k \in 1 .. Len(Words(c)) : Words(c)[k] \in AllWords
  BY <1>1 DEF AllWords
<1>3. QED
  BY <1>1, <1>2, WordsOf DEF Matches
-----------------------------------------------------------------------------
\* A step that leaves the words, the callers and what waits alone, and after which
\* the loop neither loads nor talks to the host.
LEMMA AsksOn ==
  ASSUME AskInv, UNCHANGED <<cmd, word, call, asked, role>>,
         rpc' \notin {"load", "exec"}, ShapeInv'
  PROVE  AskInv'
  BY DEF AskInv, CallInv, HeldInv, Holds

LEMMA CallKeeps ==
  ASSUME AskInv, Patient, NEW p \in Callers, Call(p)
  PROVE  AskInv'
<1>1. PICK c \in Calls : call' = [call EXCEPT ![p] = [cmd |-> c.cmd, tok |-> c.tok, at |-> 1]]
  BY DEF Call
<1> DEFINE x == [cmd |-> c.cmd, tok |-> c.tok, at |-> 1]
<1>2. x \in Places /\ x.cmd = c.cmd /\ x.tok = c.tok /\ x.at = 1 /\ x.cmd \in Cmds
  BY DEF Calls, Places
<1>3. \A q \in Callers : call'[q] = x
  BY <1>1 DEF Patient, AskInv, ShapeInv
<1>4. Len(Words(x.cmd)) \in Nat
  BY <1>2, WordsKnown
<1>5. cmd = None /\ rpc # "load" /\ UNCHANGED <<cmd, word, link, rpc, job, asked, due, role>>
  BY DEF Call, Patiently, Patient, history
<1> HIDE DEF x
<1>6. ShapeInv'
  BY <1>1, <1>2, <1>5 DEF AskInv, ShapeInv, x
<1>7. CallInv'
  BY <1>2, <1>3, <1>4, <1>5 DEF CallInv
<1>8. HeldInv'
  BY <1>5 DEF AskInv, HeldInv, Holds
<1>9. QED
  BY <1>6, <1>7, <1>8 DEF AskInv

LEMMA StoreWordKeeps ==
  ASSUME AskInv, Patient, NEW p \in Callers, StoreWord(p)
  PROVE  AskInv'
<1> DEFINE x == call[p]
           w == Words(x.cmd)
<1>1. /\ x # None /\ x \in Places /\ x.at \in 1 .. Len(w) /\ x.cmd \in Cmds /\ x.tok \in Tokens
      /\ cmd = None /\ rpc # "load"
      /\ \A k \in 1 .. Len(w) : k < x.at => word[w[k]] = x.tok
  BY DEF StoreWord, AskInv, ShapeInv, CallInv, Places
<1>2. Len(w) \in Nat /\ \A k \in 1 .. Len(w) : w[k] \in AllWords
  BY <1>1, WordsKnown
<1>3. word' = [word EXCEPT ![w[x.at]] = x.tok]
  BY DEF StoreWord
<1>4. call' = [call EXCEPT ![p] = [x EXCEPT !.at = @ + 1]]
  BY DEF StoreWord
<1>5. UNCHANGED <<cmd, link, rpc, job, asked, due, role>>
  BY DEF StoreWord, history
<1>6. [x EXCEPT !.at = @ + 1] = [cmd |-> x.cmd, tok |-> x.tok, at |-> x.at + 1]
  BY <1>1 DEF Places
<1>7. \A q \in Callers : call'[q] = [cmd |-> x.cmd, tok |-> x.tok, at |-> x.at + 1]
  BY <1>4, <1>6 DEF Patient, AskInv, ShapeInv
<1>8. word \in [AllWords -> Values] /\ call \in [Callers -> Places \cup {None}]
  BY DEF AskInv, ShapeInv
<1> HIDE DEF x, w
<1>9. \A k \in 1 .. Len(w) : k < x.at + 1 => word'[w[k]] = x.tok
  BY <1>1, <1>2, <1>3, <1>8 DEF Places
<1>10. word' \in [AllWords -> Values]
  BY <1>1, <1>3, <1>8 DEF Values
<1>11. [cmd |-> x.cmd, tok |-> x.tok, at |-> x.at + 1] \in Places
  BY <1>1, <1>2 DEF Places
<1>12. call' \in [Callers -> Places \cup {None}]
  BY <1>4, <1>6, <1>8, <1>11
<1>13. ShapeInv'
  BY <1>5, <1>10, <1>12 DEF AskInv, ShapeInv
<1>14. CallInv'
  BY <1>1, <1>2, <1>5, <1>7, <1>9 DEF CallInv, w
<1>15. HeldInv'
  BY <1>1, <1>5 DEF AskInv, HeldInv, Holds
<1>16. QED
  BY <1>13, <1>14, <1>15 DEF AskInv

LEMMA CheckKeeps ==
  ASSUME AskInv, Patient, NEW p \in Callers, Check(p)
  PROVE  AskInv'
<1> DEFINE x == call[p]
           w == Words(x.cmd)
<1>1. /\ x # None /\ x \in Places /\ x.at = Len(w) + 1 /\ x.cmd \in Cmds
      /\ cmd = None /\ rpc # "load"
      /\ \A k \in 1 .. Len(w) : k < x.at => word[w[k]] = x.tok
  BY DEF Check, AskInv, ShapeInv, CallInv, Places
<1>2. Len(w) \in Nat
  BY <1>1, WordsKnown
<1>3. call' = [call EXCEPT ![p] = [x EXCEPT !.at = @ + 1]]
  BY <1>1 DEF Check
<1>4. UNCHANGED <<cmd, word, link, rpc, job, asked, due, role>>
  BY DEF Check, history
<1>5. [x EXCEPT !.at = @ + 1] = [cmd |-> x.cmd, tok |-> x.tok, at |-> x.at + 1]
  BY <1>1 DEF Places
<1>6. \A q \in Callers : call'[q] = [cmd |-> x.cmd, tok |-> x.tok, at |-> x.at + 1]
  BY <1>3, <1>5 DEF Patient, AskInv, ShapeInv
<1>7. call \in [Callers -> Places \cup {None}]
  BY DEF AskInv, ShapeInv
<1> HIDE DEF x, w
<1>8. [cmd |-> x.cmd, tok |-> x.tok, at |-> x.at + 1] \in Places
  BY <1>1, <1>2 DEF Places
<1>9. ShapeInv'
  BY <1>3, <1>4, <1>5, <1>7, <1>8 DEF AskInv, ShapeInv
<1>10. CallInv'
  BY <1>1, <1>2, <1>4, <1>6 DEF CallInv, w
<1>11. HeldInv'
  BY <1>1, <1>4 DEF AskInv, HeldInv, Holds
<1>12. QED
  BY <1>9, <1>10, <1>11 DEF AskInv

LEMMA StoreCmdKeeps ==
  ASSUME AskInv, Patient, NEW p \in Callers, StoreCmd(p)
  PROVE  AskInv'
<1> DEFINE x == call[p]
           w == Words(x.cmd)
<1>1. /\ x # None /\ x \in Places /\ x.at = Len(w) + 2 /\ x.cmd \in Cmds /\ x.tok \in Tokens
      /\ rpc # "load"
      /\ \A k \in 1 .. Len(w) : k < x.at => word[w[k]] = x.tok
  BY DEF StoreCmd, AskInv, ShapeInv, CallInv, Places
<1>2. Len(w) \in Nat
  BY <1>1, WordsKnown
<1>3. \A k \in 1 .. Len(w) : word[w[k]] = x.tok
  BY <1>1, <1>2
<1>4. Holds(x.cmd, x.tok)
  BY <1>3, WordsOf DEF Holds, Matches
<1>5. /\ cmd' = x.cmd /\ asked' = [cmd |-> x.cmd, tok |-> x.tok]
      /\ call' = [call EXCEPT ![p] = None]
      /\ UNCHANGED <<word, link, rpc, job, due, role>>
  BY DEF StoreCmd
<1> HIDE DEF x, w
<1>6. asked' \in Calls
  BY <1>1, <1>5 DEF Calls
<1>7. ShapeInv'
  BY <1>1, <1>5 DEF AskInv, ShapeInv
<1>8. \A q \in Callers : call'[q] = None
  BY <1>5 DEF Patient, AskInv, ShapeInv
<1>9. HeldInv'
  BY <1>1, <1>4, <1>5, <1>6 DEF AskInv, HeldInv, Holds
<1>10. QED
  BY <1>7, <1>8, <1>9 DEF AskInv, CallInv

LEMMA LoopKeeps ==
  ASSUME AskInv, Loop \/ EventWins \/ LinkUp \/ LinkDown
  PROVE  AskInv'
<1> USE DEF history
<1>1. CASE Tick
  <2>1. /\ job' = [cmd |-> cmd, got |-> <<>>] /\ due' = asked /\ cmd' = None
        /\ UNCHANGED <<word, call, link, asked, role>>
        /\ rpc = "tick" /\ rpc' = (IF cmd = None THEN "sleep" ELSE "load")
    BY <1>1 DEF Tick
  <2>2. ShapeInv'
    BY <2>1 DEF AskInv, ShapeInv
  <2>3. CallInv'
    BY <2>1 DEF AskInv, CallInv
  <2>4. Len(Loads(cmd)) \in Nat
    BY WordsOf DEF Matches
  <2>5. job'.got \in Seq(Values) /\ Len(job'.got) = 0 /\ job'.cmd = cmd
    BY <2>1
  <2>6. \A n \in 1 .. Len(job'.got) : FALSE
    BY <2>5
  <2>7. HeldInv'
    BY <2>1, <2>4, <2>5, <2>6 DEF AskInv, HeldInv, Holds
  <2>8. QED
    BY <2>2, <2>3, <2>7 DEF AskInv
<1>2. CASE LoadWord
  <2> DEFINE L == Loads(job.cmd)
             got == job.got
             x == word[L[Len(got) + 1]]
  <2>1. /\ cmd = None /\ due \in Calls /\ due.cmd = job.cmd /\ Holds(job.cmd, due.tok)
        /\ got \in Seq(Values) /\ Len(got) < Len(L)
        /\ \A n \in 1 .. Len(got) : got[n] = due.tok
    BY <1>2 DEF LoadWord, AskInv, HeldInv
  <2>2. /\ job' = [job EXCEPT !.got = Append(got, x)] /\ rpc = "load"
        /\ UNCHANGED <<cmd, word, call, link, rpc, asked, due, role>>
    BY <1>2 DEF LoadWord
  <2>3. job'.got = Append(got, x) /\ job'.cmd = job.cmd /\ ShapeInv'
    BY <2>2 DEF AskInv, ShapeInv
  <2>4. Len(L) \in Nat /\ Len(got) + 1 \in 1 .. Len(L)
    BY <2>1, WordsOf DEF Matches
  <2>5. x = due.tok /\ x \in Values
    BY <2>1, <2>4 DEF Holds, Calls, Values
  <2> HIDE DEF L, got, x
  <2>6. /\ Append(got, x) \in Seq(Values) /\ Len(Append(got, x)) = Len(got) + 1
        /\ Len(Append(got, x)) <= Len(L)
    BY <2>1, <2>4, <2>5
  <2>7. \A n \in 1 .. Len(Append(got, x)) : Append(got, x)[n] = due.tok
    BY <2>1, <2>5, <2>6
  <2>8. HeldInv'
    BY <2>1, <2>2, <2>3, <2>6, <2>7 DEF HeldInv, Holds, L
  <2>9. QED
    BY <2>2, <2>3, <2>8 DEF AskInv, CallInv
<1>3. CASE Loaded
  BY <1>3 DEF Loaded, AskInv, ShapeInv, CallInv, HeldInv, Holds
<1>4. CASE Exec \/ Sleep \/ EventWins \/ LinkDown
  BY <1>4, AsksOn DEF Exec, Sleep, EventWins, LinkDown, Yields, NoJob, AskInv, ShapeInv
<1>5. CASE LinkUp
  BY <1>5, AsksOn DEF LinkUp, AskInv, ShapeInv
<1>6. QED
  BY <1>1, <1>2, <1>3, <1>4, <1>5 DEF Loop

LEMMA Inductive ==
  ASSUME Patient
  PROVE  Spec => []AskInv
<1>1. Init => AskInv
  BY DEF Init, AskInv, ShapeInv, CallInv, HeldInv, NoJob, Values
<1>2. AskInv /\ [Next]_vars => AskInv'
  <2> SUFFICES ASSUME AskInv, [Next]_vars PROVE AskInv'
    OBVIOUS
  <2>1. ASSUME NEW p \in Callers, Request(p) PROVE AskInv'
    BY <2>1, CallKeeps, StoreWordKeeps, CheckKeeps, StoreCmdKeeps DEF Request
  <2>2. CASE Loop \/ EventWins \/ LinkUp \/ LinkDown
    BY <2>2, LoopKeeps
  <2>3. CASE UNCHANGED vars
    BY <2>3 DEF vars, AskInv, ShapeInv, CallInv, HeldInv, Holds
  <2>4. QED
    BY <2>1, <2>2, <2>3 DEF Next
<1>3. QED
  BY <1>1, <1>2, PTL DEF Spec

\* The words, the calls and the loop keep their types, and the BLE thread never
\* acts on an argument that nobody stored (link_cmd, lib.rs).
THEOREM TypeCorrect ==
  ASSUME Patient
  PROVE  Spec => []TypeOK
<1>1. AskInv => TypeOK
  <2> SUFFICES ASSUME AskInv PROVE TypeOK
    OBVIOUS
  <2>1. ASSUME NEW p \in Callers, call[p] # None
        PROVE  /\ [cmd |-> call[p].cmd, tok |-> call[p].tok] \in Calls
               /\ call[p].at \in 1 .. Len(Words(call[p].cmd)) + 2
    BY <2>1 DEF AskInv, ShapeInv, CallInv, Places, Calls
  <2>2. ASSUME rpc = "exec"
        PROVE  /\ Len(job.got) = Len(Words(job.cmd))
               /\ None \notin {job.got[n] : n \in DOMAIN job.got}
    <3>1. /\ due \in Calls /\ due.cmd = job.cmd /\ job.got \in Seq(Values)
          /\ \A n \in 1 .. Len(job.got) : job.got[n] = due.tok
          /\ Len(job.got) = Len(Loads(job.cmd))
      BY <2>2 DEF AskInv, HeldInv
    <3>2. DOMAIN job.got = 1 .. Len(job.got) /\ due.tok \in Tokens
      BY <3>1 DEF Calls
    <3>3. QED
      BY <3>1, <3>2, WordsOf, CmdAssumption DEF Matches
  <2>3. QED
    BY <2>1, <2>2 DEF TypeOK, AskInv, ShapeInv, Values
<1>2. QED
  BY <1>1, Inductive, PTL

\* What link_control_once (radio.rs) asks of the host is the command of an accepted
\* call with all of its own arguments.
THEOREM ExecutesAsAskedAlways ==
  ASSUME Patient
  PROVE  Spec => []ExecutesAsAsked
<1>1. AskInv => ExecutesAsAsked
  <2> SUFFICES ASSUME AskInv, rpc = "exec" PROVE ExecutesAsAsked
    BY DEF ExecutesAsAsked
  <2>1. /\ due \in Calls /\ due.cmd = job.cmd /\ job.got \in Seq(Values)
        /\ \A n \in 1 .. Len(job.got) : job.got[n] = due.tok
    BY DEF AskInv, HeldInv
  <2>2. DOMAIN job.got = 1 .. Len(job.got)
    BY <2>1
  <2>3. due # None
    BY <2>1, CmdAssumption DEF Calls
  <2>4. QED
    BY <2>1, <2>2, <2>3 DEF ExecutesAsAsked
<1>2. QED
  BY <1>1, Inductive, PTL
=============================================================================
