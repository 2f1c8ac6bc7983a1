-------------------------- MODULE CentralLoopProofs --------------------------
(***************************************************************************)
(* Every safety property for any commands, arguments and configurations.   *)
(*                                                                         *)
(* A command never runs on a later link than the one it was accepted on,   *)
(* whenever the application calls; what a patient caller's command runs on *)
(* is what it asked for (second part of the module); and, again for any    *)
(* callers, types and the characteristics that a link remembers (third).   *)
(*                                                                         *)
(* The first argument follows the waiting command.  It can outlive its     *)
(* link, or its session, but after the end of a link the loop passes       *)
(* through idle, which takes whatever waits and drops what needs a link;   *)
(* the exception is the first link of a session, to config.peer_address,   *)
(* which is not preceded by idle.                                          *)
(***************************************************************************)
EXTENDS CentralLoop, WellFoundedInduction, SequenceTheorems, TLAPS

\* Where the loop is between the end of a link and its next look at CENTRAL_CMD.
BeforeIdle == {"top", "idle", "off"}

\* How long the command taken out or waiting may have waited to run on a link.
MayRun(since) == since # "link" /\ (since = "session" => cfg.auto # None)

\* Only a waiting command has a past, and it keeps it only until idle.
WaitInv ==
  /\ cmd = None => mine.since = "now"
  /\ mine.since = "link" => pc \in BeforeIdle
  /\ mine.since = "session" => cfg.auto # None \/ pc \in BeforeIdle

\* config.peer_address is used at the head of the loop only, at the start of a
\* session, or never.
AutoInv == auto => pc \in {"top", "off"} /\ mine.since # "link" /\ cfg.auto # None

\* Idle and a scan hand over nothing but connects and scans.
JobInv ==
  /\ pc = "load" /\ job.cmd \notin {"connect", "scanStart"} => MayRun(job.since)
  /\ pc = "exec" => MayRun(job.since)

\* The two histories are the records that the steps update field by field.
ShapeInv ==
  /\ mine = [tok |-> mine.tok, since |-> mine.since]
  /\ job = [cmd |-> job.cmd, got |-> job.got, tok |-> job.tok, since |-> job.since]

IInv == WaitInv /\ AutoInv /\ JobInv /\ ShapeInv

\* The loop's steps that leave the waiting command and the job alone.
LEMMA WaitsOn ==
  ASSUME IInv, UNCHANGED <<cmd, mine, pc, auto, job, cfg>>
  PROVE  IInv'
  BY DEF IInv, WaitInv, AutoInv, JobInv, ShapeInv, NoJob, MayRun, BeforeIdle

LEMMA ApplicationKeeps ==
  ASSUME IInv, Application
  PROVE  IInv'
<1>1. CASE Call
  BY <1>1, WaitsOn DEF Call, link
<1>2. CASE StoreWord \/ Check \/ StoreHandle
  BY <1>2, WaitsOn DEF StoreWord, Check, StoreHandle, link
<1>3. CASE StoreCmd
  BY <1>3 DEF StoreCmd, IInv, WaitInv, AutoInv, JobInv, ShapeInv, NoJob, MayRun
<1>4. CASE Notify
  BY <1>4, WaitsOn DEF Notify, link
<1>5. CASE Load
  BY <1>5 DEF Load, IInv, WaitInv, AutoInv, JobInv, ShapeInv, NoJob, MayRun, BeforeIdle
<1>6. CASE Unload
  BY <1>6, WaitsOn DEF Unload, slot, link
<1>7. QED
  BY <1>1, <1>2, <1>3, <1>4, <1>5, <1>6 DEF Application

LEMMA LoopKeeps ==
  ASSUME IInv, Loop
  PROVE  IInv'
<1> USE DEF IInv, WaitInv, AutoInv, JobInv, ShapeInv, NoJob, MayRun, BeforeIdle
<1>1. CASE Top
  <2>1. CASE unload
    BY <1>1, <2>1 DEF Top, slot
  <2>2. CASE ~unload /\ auto
    BY <1>1, <2>2 DEF Top, slot, AutoJob
  <2>3. CASE ~unload /\ ~auto
    BY <1>1, <2>3 DEF Top, slot
  <2>4. QED
    BY <2>1, <2>2, <2>3
<1>2. CASE Idle
  BY <1>2 DEF Idle, Swap, slot, link, NoOne
<1>3. CASE LoadWord
  BY <1>3 DEF LoadWord, slot, link
<1>4. CASE Loaded
  BY <1>4 DEF Loaded, slot, link
<1>5. CASE Scan
  BY <1>5 DEF Scan, Swap, slot, link, NoOne
<1>6. CASE Timer
  BY <1>6 DEF Timer, slot, link
<1>7. CASE Pump
  BY <1>7 DEF Pump, Swap, NoOne
<1>8. CASE Status
  BY <1>8 DEF Status, slot, link
<1>9. QED
  BY <1>1, <1>2, <1>3, <1>4, <1>5, <1>6, <1>7, <1>8 DEF Loop

LEMMA HostKeeps ==
  ASSUME IInv, Host
  PROVE  IInv'
<1> USE DEF IInv, WaitInv, AutoInv, JobInv, ShapeInv, NoJob, MayRun, BeforeIdle
<1>1. CASE ScanOpens
  BY <1>1 DEF ScanOpens, slot, link
<1>2. CASE ClientReady
  BY <1>2 DEF ClientReady, slot, link
<1>3. CASE HostAnswers
  BY <1>3 DEF HostAnswers, slot
<1>4. QED
  BY <1>1, <1>2, <1>3 DEF Host

\* Whatever ends a link leaves the loop before idle.
LEMMA LeaveKeeps ==
  ASSUME IInv, LeaveLink, pc' \in {"top", "off"}, pc \notin {"top", "off"}
  PROVE  IInv'
  BY DEF LeaveLink, IInv, WaitInv, AutoInv, JobInv, ShapeInv, NoJob, MayRun, BeforeIdle

LEMMA Inductive == Spec => []IInv
<1>1. Init => IInv
  BY DEF Init, IInv, WaitInv, AutoInv, JobInv, ShapeInv, NoJob, MayRun, NoOne
<1>2. IInv /\ [Next]_vars => IInv'
  <2> SUFFICES ASSUME IInv, [Next]_vars PROVE IInv'
    OBVIOUS
  <2>1. CASE Application \/ Loop \/ Host
    BY <2>1, ApplicationKeeps, LoopKeeps, HostKeeps
  <2>2. CASE ScanTimesOut
    BY <2>2 DEF ScanTimesOut, slot, link, IInv, WaitInv, AutoInv, JobInv, ShapeInv, MayRun,
                BeforeIdle
  <2>3. CASE Connected
    BY <2>3 DEF Connected, slot, IInv, WaitInv, AutoInv, JobInv, ShapeInv, NoJob, MayRun, BeforeIdle
  <2>4. CASE ConnectFails
    BY <2>4 DEF ConnectFails, slot, link, IInv, WaitInv, AutoInv, JobInv, ShapeInv, NoJob,
                MayRun, BeforeIdle
  <2>5. CASE LinkEnds
    BY <2>5, LeaveKeeps DEF LinkEnds, AwaitsSession
  <2>6. CASE UnloadSeen
    BY <2>6, LeaveKeeps DEF UnloadSeen, AwaitsSession
  <2>7. CASE UnloadSeenOutside
    BY <2>7, LeaveKeeps DEF UnloadSeenOutside, AwaitsSession, AwaitsIdle
  <2>8. CASE RunnerEnds
    BY <2>8, LeaveKeeps DEF RunnerEnds, AwaitsSession, AwaitsIdle
  <2>9. CASE UNCHANGED vars
    BY <2>9, WaitsOn DEF vars
  <2>10. QED
    BY <2>1, <2>2, <2>3, <2>4, <2>5, <2>6, <2>7, <2>8, <2>9 DEF Next
<1>3. QED
  BY <1>1, <1>2, PTL DEF Spec

\* A command accepted on one link is never carried out on a later one of its session
\* (client_session's loop, radio.rs), and one left over from an earlier session only
\* on the link to config.peer_address.
THEOREM NeverOnLaterLink == Spec => []NotOnLaterLink
<1>1. IInv => NotOnLaterLink
  BY DEF IInv, JobInv, ShapeInv, NoJob, MayRun, NotOnLaterLink
<1>2. QED
  BY <1>1, Inductive, PTL
-----------------------------------------------------------------------------
(***************************************************************************)
(* The arguments of a patient caller.  From its first store to the last    *)
(* load of the loop no other call writes the words it uses, but for a      *)
(* payload in the dual role.                                               *)
(***************************************************************************)
Values == Tokens \cup {None}

\* The word that Notify writes.
Dirty(w) == w = "data" /\ cfg.role = "dual"

\* The words that are loaded for a command hold a token.
Holds(c, tok) ==
  \A n \in 1 .. Len(Loads(c)) : ~Dirty(Loads(c)[n]) => word[Loads(c)[n]] = tok

WordInv ==
  /\ word \in [AllWords -> Values] /\ cfg \in Configs
  /\ call # None => call \in [cmd : Cmds, tok : Values, at : Nat]
  /\ cmd \in Cmds \cup {None}

\* While a call is going on nothing waits and nothing is loaded, and what the call
\* has stored is there.
CallInv ==
  call # None =>
    /\ cmd = None /\ pc # "load"
    /\ \A k \in 1 .. Len(Words(call.cmd)) :
         k < call.at /\ ~Dirty(Words(call.cmd)[k]) => word[Words(call.cmd)[k]] = call.tok
    /\ call.at = Len(Words(call.cmd)) + 3 /\ call.cmd \in WithHandle => word["handle"] = call.tok

\* What waits, and what was taken out, finds its words.
HeldInv ==
  /\ cmd # None => Holds(cmd, mine.tok)
  /\ pc = "load" =>
       /\ cmd = None /\ job.cmd \in Cmds /\ Holds(job.cmd, job.tok)
       /\ job.got \in Seq(Values) /\ Len(job.got) <= Len(Loads(job.cmd))
       /\ \A n \in 1 .. Len(job.got) : ~Dirty(Loads(job.cmd)[n]) => job.got[n] = job.tok

AskInv == ShapeInv /\ WordInv /\ CallInv /\ HeldInv /\ RunsAsAsked

\* The cells that hold arguments.
Cells == {"handle", "addr", "scan", "uuid", "data"}

LEMMA OneWord ==
  ASSUME NEW S, NEW w \in S, NEW s, s = <<w>>
  PROVE  s \in Seq(S) /\ \A k \in 1 .. Len(s) : s[k] = w
<1>1. s \in Seq(S) /\ Len(s) = 1 /\ s[1] = w
  OBVIOUS
<1>2. QED
  BY <1>1

\* No function stores the handle itself, and only the two writes have a payload.
LEMMA WordsOf ==
  ASSUME NEW c
  PROVE  /\ Words(c) \in Seq(Cells)
         /\ \A k \in 1 .. Len(Words(c)) : /\ Words(c)[k] # "handle"
                                          /\ Words(c)[k] = "data" => c \in {"write", "writeNoRsp"}
<1>1. CASE c = "connect"
  <2>1. Words(c) = <<"addr">>
    BY <1>1 DEF Words
  <2>2. Words(c) \in Seq(Cells) /\ \A k \in 1 .. Len(Words(c)) : Words(c)[k] = "addr"
    BY <2>1, OneWord DEF Cells
  <2>3. QED
    BY <2>2
<1>2. CASE c = "scanStart"
  <2>1. Words(c) = <<"scan">>
    BY <1>2 DEF Words
  <2>2. Words(c) \in Seq(Cells) /\ \A k \in 1 .. Len(Words(c)) : Words(c)[k] = "scan"
    BY <2>1, OneWord DEF Cells
  <2>3. QED
    BY <2>2
<1>3. CASE c \in {"discover", "readByUuid"}
  <2>1. Words(c) = <<"uuid">>
    BY <1>3 DEF Words
  <2>2. Words(c) \in Seq(Cells) /\ \A k \in 1 .. Len(Words(c)) : Words(c)[k] = "uuid"
    BY <2>1, OneWord DEF Cells
  <2>3. QED
    BY <2>2
<1>4. CASE c \in {"write", "writeNoRsp"}
  <2>1. Words(c) = <<"data">>
    BY <1>4 DEF Words
  <2>2. Words(c) \in Seq(Cells) /\ \A k \in 1 .. Len(Words(c)) : Words(c)[k] = "data"
    BY <2>1, OneWord DEF Cells
  <2>3. QED
    BY <1>4, <2>2
<1>5. CASE c \notin {"connect", "scanStart", "discover", "readByUuid", "write", "writeNoRsp"}
  <2>1. Words(c) = << >>
    BY <1>5 DEF Words
  <2>2. Words(c) \in Seq(Cells) /\ Len(Words(c)) = 0
    BY <2>1
  <2>3. QED
    BY <2>2
<1>6. QED
  BY <1>1, <1>2, <1>3, <1>4, <1>5

\* What is loaded is the handle or a word that the function has stored.
LEMMA LoadsOf ==
  ASSUME NEW c
  PROVE  /\ Loads(c) \in Seq(Cells)
         /\ \A n \in 1 .. Len(Loads(c)) :
              \/ Loads(c)[n] = "handle" /\ c \in WithHandle
              \/ \E k \in 1 .. Len(Words(c)) : Loads(c)[n] = Words(c)[k]
<1> DEFINE W == Words(c)
<1>1. W \in Seq(Cells)
  BY WordsOf
<1>2. CASE c \in WithHandle
  <2>1. Loads(c) = <<"handle">> \o W
    BY <1>2 DEF Loads
  <2> HIDE DEF W
  <2>2. <<"handle">> \in Seq(Cells) /\ Len(<<"handle">>) = 1
    BY DEF Cells
  <2>3. Loads(c) \in Seq(Cells) /\ Len(Loads(c)) = 1 + Len(W)
    BY <1>1, <2>1, <2>2
  <2>4. ASSUME NEW n \in 1 .. Len(Loads(c))
        PROVE  \/ Loads(c)[n] = "handle"
               \/ \E k \in 1 .. Len(W) : Loads(c)[n] = W[k]
    <3>1. CASE n = 1
      BY <1>1, <2>1, <2>2, <3>1
    <3>2. CASE n # 1
      <4>1. n - 1 \in 1 .. Len(W) /\ Loads(c)[n] = W[n - 1]
        BY <1>1, <2>1, <2>2, <2>3, <3>2
      <4>2. QED
        BY <4>1
    <3>3. QED
      BY <3>1, <3>2
  <2>5. QED
    BY <1>2, <2>3, <2>4 DEF W
<1>3. CASE c \notin WithHandle
  <2>1. Loads(c) = << >> \o W
    BY <1>3 DEF Loads
  <2> HIDE DEF W
  <2>2. Loads(c) = W
    BY <1>1, <2>1
  <2>3. QED
    BY <1>1, <2>2 DEF W
<1>4. QED
  BY <1>2, <1>3

LEMMA WordsKnown ==
  ASSUME NEW c \in Cmds
  PROVE  /\ \A k \in 1 .. Len(Words(c)) : Words(c)[k] \in AllWords
         /\ \A n \in 1 .. Len(Loads(c)) : Loads(c)[n] \in AllWords
         /\ "handle" \in AllWords
<1>1. DOMAIN Words(c) = 1 .. Len(Words(c))
  BY WordsOf
<1>2. \A k \in 1 .. Len(Words(c)) : Words(c)[k] \in AllWords
  BY <1>1 DEF AllWords
<1>3. QED
  BY <1>2, LoadsOf DEF AllWords

\* The payload of a write is the only word that a notification can reach.
LEMMA CleanLoads ==
  ASSUME ShapeInv, HeldInv, pc = "load", Len(job.got) = Len(Loads(job.cmd)), ~Shared
  PROVE  \A n \in DOMAIN job.got : job.got[n] = job.tok
<1>1. DOMAIN job.got = 1 .. Len(job.got)
  BY DEF HeldInv
<1>2. ASSUME NEW n \in 1 .. Len(Loads(job.cmd)) PROVE ~Dirty(Loads(job.cmd)[n])
  BY <1>2, LoadsOf, WordsOf DEF Dirty, Shared
<1>3. QED
  BY <1>1, <1>2 DEF HeldInv

\* The steps that leave the words, the call and what waits alone, and after which
\* the loop neither loads nor acts.
LEMMA AsksOn ==
  ASSUME AskInv, UNCHANGED <<cmd, word, call, cfg>>,
         mine' = [mine EXCEPT !.since = mine'.since],
         job' = [job EXCEPT !.since = job'.since] \/ job' = NoJob,
         pc' \notin {"load", "exec", "connecting", "scanOpen"}
  PROVE  AskInv'
<1>1. mine'.tok = mine.tok /\ ShapeInv'
  BY DEF AskInv, ShapeInv, NoJob
<1>2. QED
  BY <1>1 DEF AskInv, WordInv, CallInv, HeldInv, Holds, Dirty, RunsAsAsked

LEMMA ApplicationAsks ==
  ASSUME AskInv, Application, ~Hasty
  PROVE  AskInv'
<1> USE CmdAssumption
<1>1. CASE Call
  <2>1. \A c \in Cmds : ArgumentsOf(c) \subseteq Values
    BY ArgsAssumption DEF ArgumentsOf, Values
  <2>2. PICK c \in Cmds, tok \in Values : call' = [cmd |-> c, tok |-> tok, at |-> 1]
    BY <1>1, <2>1 DEF Call
  <2>3. \A k \in 1 .. Len(Words(c)) : ~(k < 1)
    BY WordsOf
  <2>4. 1 # Len(Words(c)) + 3
    BY WordsOf
  <2>5. QED
    BY <1>1, <2>2, <2>3, <2>4
    DEF Call, Patiently, link, AskInv, ShapeInv, WordInv, CallInv, HeldInv, Holds, Dirty,
        RunsAsAsked, Shared
<1>2. CASE StoreWord
  <2> DEFINE W == Words(call.cmd)
  <2>1. call.cmd \in Cmds /\ call.tok \in Values /\ call.at \in Nat /\ Len(W) \in Nat
    BY <1>2, WordsOf DEF StoreWord, AskInv, WordInv
  <2>2. call' = [cmd |-> call.cmd, tok |-> call.tok, at |-> call.at + 1]
    BY <1>2 DEF StoreWord, AskInv, WordInv
  <2>3. cmd = None /\ pc # "load"
    BY <1>2 DEF StoreWord, AskInv, CallInv
  <2>4. \A w \in AllWords : word'[w] = word[w] \/ word'[w] = call.tok
    BY <1>2 DEF StoreWord, AskInv, WordInv
  <2>5. word' \in [AllWords -> Values]
    BY <1>2, <2>1 DEF StoreWord, AskInv, WordInv
  <2>6. ASSUME NEW k \in 1 .. Len(W), k < call.at + 1, ~Dirty(W[k])
        PROVE  word'[W[k]] = call.tok
    <3>1. W[k] \in AllWords
      BY <2>1, WordsKnown
    <3>2. CASE k = call.at
      BY <1>2, <3>1, <3>2 DEF StoreWord, AskInv, WordInv
    <3>3. CASE k # call.at
      <4>1. word[W[k]] = call.tok
        BY <1>2, <2>1, <2>6, <3>3 DEF StoreWord, AskInv, CallInv
      <4>2. QED
        BY <2>4, <3>1, <4>1
    <3>4. QED
      BY <3>2, <3>3
  <2>7. call.at + 1 # Len(W) + 3
    BY <1>2, <2>1 DEF StoreWord
  <2> HIDE DEF W
  <2>8. CallInv'
    BY <1>2, <2>1, <2>2, <2>3, <2>6, <2>7 DEF StoreWord, CallInv, Dirty, W
  <2>9. QED
    BY <1>2, <2>1, <2>2, <2>3, <2>5, <2>8
    DEF StoreWord, link, AskInv, ShapeInv, WordInv, HeldInv, RunsAsAsked, Shared
<1>3. CASE Check
  <2>1. call # None => Len(Words(call.cmd)) \in Nat
    BY WordsOf
  <2>2. QED
    BY <1>3, <2>1 DEF Check, link, AskInv, ShapeInv, WordInv, CallInv, HeldInv, Holds, Dirty,
                 RunsAsAsked, Shared
<1>4. CASE StoreHandle
  <2> DEFINE W == Words(call.cmd)
  <2>1. call.cmd \in Cmds /\ call.tok \in Values /\ call.at \in Nat /\ Len(W) \in Nat
    BY <1>4, WordsOf DEF StoreHandle, AskInv, WordInv
  <2>2. call' = [cmd |-> call.cmd, tok |-> call.tok, at |-> call.at + 1]
    BY <1>4 DEF StoreHandle, AskInv, WordInv
  <2>3. cmd = None /\ pc # "load"
    BY <1>4 DEF StoreHandle, AskInv, CallInv
  <2>4. word' \in [AllWords -> Values]
    BY <1>4, <2>1 DEF StoreHandle, AskInv, WordInv, Values
  <2>5. \A k \in 1 .. Len(W) : W[k] \in AllWords /\ W[k] # "handle"
    BY <2>1, WordsKnown, WordsOf
  <2>6. \A k \in 1 .. Len(W) : word'[W[k]] = word[W[k]]
    BY <1>4, <2>5 DEF StoreHandle, AskInv, WordInv
  <2>7. call.cmd \in WithHandle => word'["handle"] = call.tok
    BY <1>4, <2>1, WordsKnown DEF StoreHandle, AskInv, WordInv
  <2>8. \A k \in 1 .. Len(W) : ~Dirty(W[k]) => word'[W[k]] = call.tok
    BY <1>4, <2>1, <2>6 DEF StoreHandle, AskInv, CallInv
  <2> HIDE DEF W
  <2>9. CallInv'
    BY <1>4, <2>1, <2>2, <2>3, <2>7, <2>8 DEF StoreHandle, CallInv, Dirty, W
  <2>10. QED
    BY <1>4, <2>1, <2>2, <2>3, <2>4, <2>9
    DEF StoreHandle, link, AskInv, ShapeInv, WordInv, HeldInv, RunsAsAsked, Shared
<1>5. CASE StoreCmd
  <2> DEFINE W == Words(call.cmd)
  <2>1. call.cmd \in Cmds /\ Len(W) \in Nat /\ call.at = Len(W) + 3 /\ pc # "load"
    BY <1>5, WordsOf DEF StoreCmd, AskInv, WordInv, CallInv
  <2>2. \A k \in 1 .. Len(W) : ~Dirty(W[k]) => word[W[k]] = call.tok
    BY <1>5, <2>1 DEF StoreCmd, AskInv, CallInv
  <2>3. call.cmd \in WithHandle => word["handle"] = call.tok
    BY <1>5, <2>1 DEF StoreCmd, AskInv, CallInv
  <2>4. Holds(call.cmd, call.tok)
    BY <2>2, <2>3, LoadsOf DEF Holds
  <2> HIDE DEF W
  <2>5. QED
    BY <1>5, <2>1, <2>4
    DEF StoreCmd, link, AskInv, ShapeInv, WordInv, CallInv, HeldInv, Holds, Dirty, RunsAsAsked,
        Shared
<1>6. CASE Notify
  <2>1. word' \in [AllWords -> Values]
    BY <1>6 DEF Notify, AskInv, WordInv, Values
  <2>2. \A w \in AllWords : ~Dirty(w) => word'[w] = word[w]
    BY <1>6 DEF Notify, AskInv, WordInv, Dirty
  <2>3. \A c \in Cmds : \A tok : Holds(c, tok) => Holds(c, tok)'
    BY <1>6, <2>2, WordsKnown DEF Notify, Holds, Dirty
  <2>4. call # None => call.cmd \in Cmds
    BY DEF AskInv, WordInv
  <2>5. call # None => \A k \in 1 .. Len(Words(call.cmd)) :
          ~Dirty(Words(call.cmd)[k]) => word'[Words(call.cmd)[k]] = word[Words(call.cmd)[k]]
    BY <2>2, <2>4, WordsKnown
  <2>6. call # None => word'["handle"] = word["handle"]
    BY <2>2, <2>4, WordsKnown DEF Dirty
  <2>7. CallInv'
    BY <1>6, <2>5, <2>6 DEF Notify, AskInv, CallInv, Dirty
  <2>8. HeldInv'
    BY <1>6, <2>3 DEF Notify, link, AskInv, WordInv, HeldInv, Dirty
  <2>9. QED
    BY <1>6, <2>1, <2>7, <2>8 DEF Notify, link, AskInv, ShapeInv, WordInv, RunsAsAsked, Shared
<1>7. CASE Load
  BY <1>7, AsksOn DEF Load, AskInv, ShapeInv
<1>8. CASE Unload
  BY <1>8 DEF Unload, slot, link, AskInv, ShapeInv, WordInv, CallInv, HeldInv, Holds, Dirty,
              RunsAsAsked, Shared
<1>9. QED
  BY <1>1, <1>2, <1>3, <1>4, <1>5, <1>6, <1>7, <1>8 DEF Application

\* The swap: what waited, if anything, is what the loop now loads for.
LEMMA SwapAsks ==
  ASSUME AskInv, Swap, UNCHANGED <<word, call, cfg>>,
         pc' \notin {"exec", "connecting", "scanOpen"},
         pc' = "load" => cmd # None
  PROVE  AskInv'
<1> USE CmdAssumption
<1>1. cmd' = None /\ job' = [cmd |-> cmd, got |-> <<>>, tok |-> mine.tok, since |-> mine.since]
  BY DEF Swap
<1>2. ShapeInv' /\ WordInv'
  BY DEF Swap, NoOne, AskInv, ShapeInv, WordInv
<1>3. CallInv'
  BY <1>1 DEF AskInv, CallInv, Dirty
<1>4. job'.got \in Seq(Values) /\ Len(job'.got) = 0
  BY <1>1
<1>5. Len(Loads(cmd)) \in Nat
  BY LoadsOf
<1>6. \A n \in 1 .. Len(job'.got) : FALSE
  BY <1>4
<1>7. pc' = "load" => cmd \in Cmds /\ Holds(cmd, mine.tok)
  BY DEF AskInv, WordInv, HeldInv
<1>8. HeldInv'
  BY <1>1, <1>4, <1>5, <1>6, <1>7 DEF HeldInv, Holds, Dirty
<1>9. QED
  BY <1>2, <1>3, <1>8 DEF AskInv, RunsAsAsked

LEMMA LoopAsks ==
  ASSUME AskInv, Loop
  PROVE  AskInv'
<1> USE CmdAssumption
<1>1. CASE Top
  <2>1. CASE unload
    BY <1>1, <2>1, AsksOn DEF Top, slot, AskInv, ShapeInv
  <2>2. CASE ~unload /\ auto
    <3>1. job' = AutoJob /\ pc' = "connecting" /\ UNCHANGED <<cmd, word, call, mine, cfg>>
      BY <1>1, <2>2 DEF Top, slot
    <3>2. \A n \in DOMAIN job'.got : job'.got[n] = job'.tok
      BY <3>1 DEF AutoJob
    <3>3. QED
      BY <3>1, <3>2 DEF AutoJob, AskInv, ShapeInv, WordInv, CallInv, HeldInv, Holds, Dirty,
                        RunsAsAsked
  <2>3. CASE ~unload /\ ~auto
    BY <1>1, <2>3, AsksOn DEF Top, slot, AskInv, ShapeInv
  <2>4. QED
    BY <2>1, <2>2, <2>3
<1>2. CASE Idle
  <2>1. CASE unload
    BY <1>2, <2>1, AsksOn DEF Idle, slot, AskInv, ShapeInv
  <2>2. CASE ~unload
    <3>1. cmd = None => cmd \notin {"connect", "scanStart"}
      BY DEF AllCmds, IdleCmds
    <3>2. QED
      BY <1>2, <2>2, <3>1, SwapAsks DEF Idle, link
  <2>3. QED
    BY <2>1, <2>2
<1>3. CASE LoadWord
  <2> DEFINE L == Loads(job.cmd)
             got == job.got
             x == word[L[Len(got) + 1]]
  <2>1. /\ cmd = None /\ job.cmd \in Cmds /\ Holds(job.cmd, job.tok)
        /\ got \in Seq(Values) /\ Len(got) <= Len(L)
        /\ \A n \in 1 .. Len(got) : ~Dirty(L[n]) => got[n] = job.tok
    BY <1>3 DEF LoadWord, AskInv, HeldInv
  <2>2. job' = [job EXCEPT !.got = Append(got, x)] /\ pc' = "load" /\ Len(got) < Len(L)
    BY <1>3 DEF LoadWord
  <2>3. /\ job'.got = Append(got, x) /\ job'.cmd = job.cmd /\ job'.tok = job.tok
        /\ ShapeInv'
    BY <1>3, <2>2 DEF LoadWord, slot, AskInv, ShapeInv
  <2>4. Len(L) \in Nat /\ Len(got) + 1 \in 1 .. Len(L) /\ L[Len(got) + 1] \in AllWords
    BY <2>1, <2>2, LoadsOf, WordsKnown
  <2>5. x \in Values
    BY <2>4 DEF AskInv, WordInv
  <2>6. ~Dirty(L[Len(got) + 1]) => x = job.tok
    BY <2>1, <2>4 DEF Holds
  <2> HIDE DEF L, got, x
  <2>7. Append(got, x) \in Seq(Values) /\ Len(Append(got, x)) = Len(got) + 1
    BY <2>1, <2>5
  <2>8. ASSUME NEW n \in 1 .. Len(Append(got, x)), ~Dirty(L[n])
        PROVE  Append(got, x)[n] = job.tok
    <3>1. CASE n = Len(got) + 1
      BY <2>1, <2>6, <2>8, <3>1
    <3>2. CASE n # Len(got) + 1
      BY <2>1, <2>7, <2>8, <3>2
    <3>3. QED
      BY <3>1, <3>2
  <2>9. Len(Append(got, x)) <= Len(L)
    BY <2>1, <2>2, <2>4, <2>7
  <2>10. UNCHANGED <<cmd, word, call, cfg>>
    BY <1>3 DEF LoadWord, slot
  <2>11. \A n \in 1 .. Len(job'.got) : ~Dirty(L[n]) => job'.got[n] = job.tok
    BY <2>3, <2>8
  <2>12. HeldInv'
    BY <2>1, <2>3, <2>7, <2>9, <2>10, <2>11 DEF HeldInv, Holds, Dirty, L
  <2>13. QED
    BY <1>3, <2>2, <2>3, <2>10, <2>12
    DEF LoadWord, slot, AskInv, WordInv, CallInv, Dirty, RunsAsAsked
<1>4. CASE Loaded
  <2>1. UNCHANGED <<cmd, word, call, mine, job, cfg>> /\ pc' # "load"
    BY <1>4 DEF Loaded, slot
  <2>2. ~Shared => \A n \in DOMAIN job.got : job.got[n] = job.tok
    BY <1>4, CleanLoads DEF Loaded, AskInv
  <2>3. QED
    BY <2>1, <2>2 DEF AskInv, ShapeInv, WordInv, CallInv, HeldInv, Holds, Dirty, RunsAsAsked, Shared
<1>5. CASE Scan
  <2>1. CASE unload /\ pc' = "top" /\ UNCHANGED <<slot, job>>
    BY <1>5, <2>1, AsksOn DEF Scan, slot, AskInv, ShapeInv
  <2>2. CASE ~unload /\ Swap
    <3>1. cmd = None => cmd # "connect"
      BY DEF AllCmds, IdleCmds
    <3>2. QED
      BY <1>5, <2>2, <3>1, SwapAsks DEF Scan, link
  <2>3. QED
    BY <1>5, <2>1, <2>2 DEF Scan
<1>6. CASE Timer
  BY <1>6, AsksOn DEF Timer, slot, AskInv, ShapeInv
<1>7. CASE Pump
  <2>1. cmd = None => cmd \notin ServerCmds
    BY DEF AllCmds
  <2>2. QED
    BY <1>7, <2>1, SwapAsks DEF Pump
<1>8. CASE Status
  BY <1>8, AsksOn DEF Status, slot, AskInv, ShapeInv
<1>9. QED
  BY <1>1, <1>2, <1>3, <1>4, <1>5, <1>6, <1>7, <1>8 DEF Loop

\* Whatever ends a link leaves the words and the waiting command as they are.
LEMMA LeaveAsks ==
  ASSUME AskInv, LeaveLink, pc' \in {"top", "off"}
  PROVE  AskInv'
<1>1. mine' = [mine EXCEPT !.since = mine'.since]
  BY DEF LeaveLink, AskInv, ShapeInv
<1>2. QED
  BY <1>1, AsksOn DEF LeaveLink

LEMMA InductiveAsks ==
  ASSUME ~Hasty
  PROVE  Spec => []AskInv
<1>1. Init => AskInv
  BY CmdAssumption
  DEF Init, AskInv, ShapeInv, WordInv, CallInv, HeldInv, RunsAsAsked, NoOne, NoJob, Values
<1>2. AskInv /\ [Next]_vars => AskInv'
  <2> SUFFICES ASSUME AskInv, [Next]_vars PROVE AskInv'
    OBVIOUS
  <2>1. CASE Application \/ Loop
    BY <2>1, ApplicationAsks, LoopAsks
  <2>2. CASE ScanOpens
    BY <2>2, AsksOn DEF ScanOpens, slot, link, AskInv, ShapeInv
  <2>3. CASE ClientReady
    BY <2>3, AsksOn DEF ClientReady, slot, link, AskInv, ShapeInv
  <2>4. CASE HostAnswers
    BY <2>4, AsksOn DEF HostAnswers, slot, AskInv, ShapeInv
  <2>5. CASE ScanTimesOut
    BY <2>5, AsksOn DEF ScanTimesOut, slot, link, AskInv, ShapeInv
  <2>6. CASE Connected
    BY <2>6, AsksOn DEF Connected, slot, AskInv, ShapeInv
  <2>7. CASE ConnectFails
    BY <2>7, AsksOn DEF ConnectFails, slot, link, AskInv, ShapeInv
  <2>8. CASE LinkEnds \/ UnloadSeen \/ UnloadSeenOutside \/ RunnerEnds
    BY <2>8, LeaveAsks DEF LinkEnds, UnloadSeen, UnloadSeenOutside, RunnerEnds
  <2>9. CASE UNCHANGED vars
    BY <2>9 DEF vars, AskInv, ShapeInv, WordInv, CallInv, HeldInv, Holds, Dirty, RunsAsAsked, Shared
  <2>10. QED
    BY <2>1, <2>2, <2>3, <2>4, <2>5, <2>6, <2>7, <2>8, <2>9 DEF Next, Host
<1>3. QED
  BY <1>1, <1>2, PTL DEF Spec

\* What central_loop asks of the host is what the accepted call asked for, whatever
\* the commands and their arguments, if the application waits with its next call
\* until the arguments of the last one were used (central_cmd, lib.rs).
THEOREM RunsAsAskedAlways ==
  ASSUME ~Hasty
  PROVE  Spec => []RunsAsAsked
<1>1. AskInv => RunsAsAsked
  BY DEF AskInv
<1>2. QED
  BY <1>1, InductiveAsks, PTL
-----------------------------------------------------------------------------
(***************************************************************************)
(* Types, and the characteristics that a link remembers, for callers that  *)
(* may call at any time.  connect() gets a peer although the words of the  *)
(* waiting command may be written anew while the loop loads them: "addr"   *)
(* holds an address from the first time that connect() has stored one.     *)
(***************************************************************************)
CallTyped ==
  call # None =>
    /\ call \in [cmd : Cmds, tok : Values, at : Nat]
    /\ call.at \in 1 .. Len(Words(call.cmd)) + 3
    /\ Words(call.cmd) # <<>> => call.tok \in Tokens

CellsTyped ==
  /\ cmd \in Cmds \cup {None} /\ word \in [AllWords -> Values] /\ cfg \in Configs
  /\ unload \in BOOLEAN /\ closing \in BOOLEAN /\ auto \in BOOLEAN
  /\ mine.since \in {"now", "link", "session"}

\* Whoever is about to connect has an address.
AddrInv ==
  /\ cmd = "connect" => word["addr"] \in Tokens
  /\ call # None /\ call.cmd = "connect" /\ call.at > 1 => word["addr"] \in Tokens
  /\ pc = "load" /\ job.cmd = "connect" =>
       word["addr"] \in Tokens /\ (Len(job.got) > 0 => job.got[1] \in Tokens)
  /\ pc = "connecting" => job.got[1] \in Tokens

InLink == {"pump", "status"} \cup AwaitsSession
NoLink == {"off", "top", "idle", "scan"} \cup AwaitsIdle

\* Where the loop is says whether there is a link; loading, what it loads for does.
PlaceInv ==
  /\ pc \in InLink \cup NoLink \cup {"load"} /\ peer \in Values
  /\ pc \in InLink => peer # None
  /\ pc \in NoLink => peer = None
  /\ pc = "load" =>
       /\ job.cmd \in Cmds
       /\ job.cmd \in IF peer = None THEN {"connect", "scanStart"} ELSE ServerCmds

LoadInv ==
  /\ pc = "load" => job.got \in Seq(Values) /\ Len(job.got) <= Len(Loads(job.cmd))
  /\ pc = "exec" => /\ job.cmd \in ServerCmds
                    /\ job.got \in Seq(Values) /\ Len(job.got) = Len(Loads(job.cmd))

\* The characteristics with their CCCDs.
Entries == Values \X {Cccd[p][x] : p \in Values, x \in Values}

\* What is remembered is right, and it is everything unless the store is full.
StoreInv ==
  /\ store \in Seq(Entries) /\ Len(store) <= StoreCap
  /\ \A n \in 1 .. Len(store) : store[n][2] = Cccd[peer][store[n][1]]
  /\ Len(store) < StoreCap => \A x \in found : \E n \in 1 .. Len(store) : store[n][1] = x
  /\ peer = None => store = <<>> /\ found = {}

TypeInv == CallTyped /\ CellsTyped /\ AddrInv /\ PlaceInv /\ LoadInv /\ StoreInv

\* connect() has an address to store and to load; words that are stored are loaded.
LEMMA WordsLoaded ==
  ASSUME NEW c
  PROVE  /\ Len(Words(c)) \in Nat /\ Len(Loads(c)) \in Nat
         /\ Loads(c) = <<>> => Words(c) = <<>>
         /\ c = "connect" => Words(c) = <<"addr">> /\ Loads(c) = <<"addr">>
<1> DEFINE W == Words(c)
<1>1. W \in Seq(Cells) /\ Loads(c) \in Seq(Cells)
  BY WordsOf, LoadsOf
<1>2. Loads(c) = <<>> => W = <<>>
  <2>1. CASE c \in WithHandle
    <3>1. Loads(c) = <<"handle">> \o W
      BY <2>1 DEF Loads
    <3> HIDE DEF W
    <3>2. Len(Loads(c)) = 1 + Len(W)
      BY <1>1, <3>1
    <3>3. QED
      BY <1>1, <3>2
  <2>2. CASE c \notin WithHandle
    <3>1. Loads(c) = <<>> \o W
      BY <2>2 DEF Loads
    <3> HIDE DEF W
    <3>2. QED
      BY <1>1, <3>1
  <2>3. QED
    BY <2>1, <2>2
<1>3. c = "connect" => W = <<"addr">> /\ Loads(c) = <<"addr">>
  <2>1. ASSUME c = "connect" PROVE W = <<"addr">> /\ c \notin WithHandle
    BY <2>1 DEF Words, WithHandle, Subscribes
  <2>2. ASSUME c = "connect" PROVE Loads(c) = <<>> \o <<"addr">>
    BY <2>1, <2>2 DEF Loads
  <2>3. QED
    BY <2>1, <2>2
<1> HIDE DEF W
<1>4. Len(W) \in Nat /\ Len(Loads(c)) \in Nat
  BY <1>1
<1>5. QED
  BY <1>2, <1>3, <1>4 DEF W

\* The absence of a command is none of them.
LEMMA ConnectIsACmd == "connect" # None
BY CmdAssumption DEF AllCmds, IdleCmds

LEMMA StoreAlone ==
  ASSUME StoreInv, UNCHANGED <<peer, store, found>>
  PROVE  StoreInv'
BY DEF StoreInv

\* The application's steps leave the loop alone, but for load().
LEMMA LoopAlone ==
  ASSUME PlaceInv, LoadInv, StoreInv, UNCHANGED <<pc, link, job>>
  PROVE  PlaceInv' /\ LoadInv' /\ StoreInv'
<1>1. PlaceInv' /\ LoadInv'
  BY DEF PlaceInv, LoadInv, link
<1>2. StoreInv'
  BY StoreAlone DEF link
<1>3. QED
  BY <1>1, <1>2

LEMMA CallTypes ==
  ASSUME TypeInv, Call
  PROVE  TypeInv'
<1>1. PICK c \in Cmds : \E tok \in ArgumentsOf(c) : call' = [cmd |-> c, tok |-> tok, at |-> 1]
  BY DEF Call
<1>2. PICK tok \in ArgumentsOf(c) : call' = [cmd |-> c, tok |-> tok, at |-> 1]
  BY <1>1
<1>3. tok \in Values /\ (Words(c) # <<>> => tok \in Tokens)
  <2>1. Args[c] \subseteq Tokens
    BY ArgsAssumption
  <2>2. QED
    BY <1>2, <2>1, WordsLoaded DEF ArgumentsOf, Values
<1>4. CallTyped'
  BY <1>2, <1>3, WordsLoaded DEF CallTyped
<1>5. CellsTyped' /\ AddrInv'
  BY <1>2 DEF Call, link, TypeInv, CellsTyped, AddrInv
<1>6. QED
  BY <1>4, <1>5, LoopAlone DEF Call, TypeInv

LEMMA StoreWordTypes ==
  ASSUME TypeInv, StoreWord
  PROVE  TypeInv'
<1> DEFINE W == Words(call.cmd)
<1>1. /\ call.cmd \in Cmds /\ call.tok \in Values /\ call.at \in 1 .. Len(W) /\ Len(W) \in Nat
      /\ W \in Seq(Cells) /\ call' = [cmd |-> call.cmd, tok |-> call.tok, at |-> call.at + 1]
  BY WordsLoaded, WordsOf DEF StoreWord, TypeInv, CallTyped
<1>2. call.tok \in Tokens
  <2>1. W # <<>>
    BY <1>1
  <2>2. QED
    BY <2>1 DEF TypeInv, CallTyped, StoreWord
<1>3. word' \in [AllWords -> Values]
      /\ \A w \in AllWords : word'[w] = IF w = W[call.at] THEN call.tok ELSE word[w]
  BY <1>1, WordsKnown DEF StoreWord, TypeInv, CellsTyped
<1>4. CallTyped'
  BY <1>1, <1>2 DEF CallTyped
<1>5. CellsTyped'
  BY <1>3 DEF StoreWord, link, TypeInv, CellsTyped
<1>6. "connect" \in Cmds => "addr" \in AllWords
  BY WordsLoaded, WordsKnown
<1>7. /\ "connect" \in Cmds /\ word["addr"] \in Tokens => word'["addr"] \in Tokens
      /\ call.cmd = "connect" => word'["addr"] \in Tokens
  <2>1. ASSUME call.cmd = "connect" PROVE call.at = 1 /\ W[1] = "addr"
    <3>1. W = <<"addr">>
      BY <2>1, WordsLoaded
    <3>2. Len(W) = 1 /\ W[1] = "addr"
      BY <3>1
    <3>3. call.at \in 1 .. Len(W)
      BY <1>1
    <3> HIDE DEF W
    <3>4. QED
      BY <3>2, <3>3
  <2> HIDE DEF W
  <2>2. QED
    BY <1>1, <1>2, <1>3, <1>6, <2>1
<1>8. AddrInv'
  <2>1. /\ cmd' = cmd /\ pc' = pc /\ job' = job /\ (cmd = "connect" => "connect" \in Cmds)
        /\ (pc = "load" /\ job.cmd = "connect" => "connect" \in Cmds)
    BY ConnectIsACmd DEF StoreWord, TypeInv, CellsTyped, PlaceInv
  <2>2. call'.cmd = call.cmd
    BY <1>1
  <2>3. QED
    BY <1>7, <2>1, <2>2 DEF TypeInv, AddrInv
<1>9. QED
  BY <1>4, <1>5, <1>8, LoopAlone DEF StoreWord, TypeInv

LEMMA StoreHandleTypes ==
  ASSUME TypeInv, StoreHandle
  PROVE  TypeInv'
<1>1. /\ call.cmd \in Cmds /\ call.tok \in Values /\ call.at \in Nat
      /\ Len(Words(call.cmd)) \in Nat /\ call.at = Len(Words(call.cmd)) + 2
      /\ call' = [cmd |-> call.cmd, tok |-> call.tok, at |-> call.at + 1]
  BY WordsLoaded DEF StoreHandle, TypeInv, CallTyped
<1>2. CallTyped'
  <2>1. Words(call.cmd) # <<>> => call.tok \in Tokens
    BY DEF TypeInv, CallTyped, StoreHandle
  <2>2. QED
    BY <1>1, <2>1 DEF CallTyped
<1>3. /\ word' \in [AllWords -> Values]
      /\ \A w \in AllWords : w # "handle" => word'[w] = word[w]
  BY <1>1 DEF StoreHandle, TypeInv, CellsTyped, Values
<1>4. CellsTyped'
  BY <1>3 DEF StoreHandle, link, TypeInv, CellsTyped
<1>5. "connect" \in Cmds => "addr" \in AllWords
  BY WordsLoaded, WordsKnown
<1>6. AddrInv'
  <2>1. /\ cmd' = cmd /\ pc' = pc /\ job' = job /\ (cmd = "connect" => "connect" \in Cmds)
        /\ (pc = "load" /\ job.cmd = "connect" => "connect" \in Cmds)
    BY ConnectIsACmd DEF StoreHandle, TypeInv, CellsTyped, PlaceInv
  <2>2. call'.cmd = call.cmd /\ call.at > 1 /\ call # None
    BY <1>1 DEF StoreHandle
  <2>3. QED
    BY <1>1, <1>3, <1>5, <2>1, <2>2 DEF TypeInv, AddrInv
<1>7. QED
  BY <1>2, <1>4, <1>6, LoopAlone DEF StoreHandle, TypeInv

LEMMA ApplicationTypes ==
  ASSUME TypeInv, IInv, Application
  PROVE  TypeInv'
<1>1. CASE Call
  BY <1>1, CallTypes
<1>2. CASE StoreWord
  BY <1>2, StoreWordTypes
<1>3. CASE Check
  <2>1. Len(Words(call.cmd)) \in Nat /\ call # None /\ call.at = Len(Words(call.cmd)) + 1
    BY <1>3, WordsLoaded DEF Check
  <2>2. \/ call' = None
        \/ call' = [cmd |-> call.cmd, tok |-> call.tok, at |-> call.at + 1]
    BY <1>3 DEF Check, TypeInv, CallTyped
  <2>3. CallTyped'
    BY <1>3, <2>1, <2>2 DEF Check, TypeInv, CallTyped
  <2>4. call.cmd = "connect" => word["addr"] \in Tokens
    <3>1. call.cmd = "connect" => Words(call.cmd) = <<"addr">>
      BY WordsLoaded
    <3>2. call.cmd = "connect" => Len(Words(call.cmd)) = 1
      BY <3>1
    <3>3. call.cmd = "connect" => call.at > 1
      BY <2>1, <3>2
    <3>4. QED
      BY <2>1, <3>3 DEF TypeInv, AddrInv
  <2>5. call' # None => call'.cmd = call.cmd
    BY <2>2
  <2>6. AddrInv'
    BY <1>3, <2>4, <2>5 DEF Check, TypeInv, AddrInv
  <2>7. CellsTyped'
    BY <1>3 DEF Check, link, TypeInv, CellsTyped
  <2>8. QED
    BY <1>3, <2>3, <2>6, <2>7, LoopAlone DEF Check, TypeInv
<1>4. CASE StoreHandle
  BY <1>4, StoreHandleTypes
<1>5. CASE StoreCmd
  <2>1. Len(Words(call.cmd)) \in Nat
    BY WordsLoaded
  <2>2. CallTyped'
    BY <1>5 DEF StoreCmd, CallTyped
  <2>3. CellsTyped'
    BY <1>5, <2>1 DEF StoreCmd, link, TypeInv, CallTyped, CellsTyped
  <2>4. AddrInv'
    BY <1>5, <2>1 DEF StoreCmd, TypeInv, CallTyped, AddrInv
  <2>5. QED
    BY <1>5, <2>2, <2>3, <2>4, LoopAlone DEF StoreCmd, TypeInv
<1>6. CASE Notify
  <2>1. /\ word' \in [AllWords -> Values]
        /\ \A w \in AllWords : w # "data" => word'[w] = word[w]
    BY <1>6 DEF Notify, TypeInv, CellsTyped, Values
  <2>2. "connect" \in Cmds => "addr" \in AllWords
    BY WordsLoaded, WordsKnown
  <2>3. CallTyped' /\ CellsTyped'
    BY <1>6, <2>1 DEF Notify, link, TypeInv, CallTyped, CellsTyped
  <2>4. "connect" \in Cmds => word'["addr"] = word["addr"]
    BY <2>1, <2>2
  <2>5. AddrInv'
    BY <1>6, <2>4, CmdAssumption DEF Notify, TypeInv, CallTyped, CellsTyped, AddrInv, PlaceInv
  <2>6. QED
    BY <1>6, <2>3, <2>5, LoopAlone DEF Notify, TypeInv
<1>7. CASE Load
  <2>1. CallTyped' /\ AddrInv'
    BY <1>7 DEF Load, TypeInv, CallTyped, AddrInv
  <2>2. mine'.since \in {"now", "link", "session"}
    BY <1>7 DEF Load, TypeInv, CellsTyped, IInv, ShapeInv
  <2>3. CellsTyped'
    BY <1>7, <2>2 DEF Load, link, TypeInv, CellsTyped
  <2>4. PlaceInv' /\ LoadInv'
    BY <1>7 DEF Load, link, TypeInv, PlaceInv, LoadInv, NoLink, InLink, AwaitsSession, AwaitsIdle
  <2>5. QED
    BY <1>7, <2>1, <2>3, <2>4, StoreAlone DEF Load, link, TypeInv
<1>8. CASE Unload
  <2>1. CallTyped' /\ CellsTyped' /\ AddrInv'
    BY <1>8 DEF Unload, slot, link, TypeInv, CallTyped, CellsTyped, AddrInv
  <2>2. QED
    BY <1>8, <2>1, LoopAlone DEF Unload, TypeInv
<1>9. QED
  BY <1>1, <1>2, <1>3, <1>4, <1>5, <1>6, <1>7, <1>8 DEF Application

\* What a discovery reports is a sequence.
LEMMA FindingsAre ==
  ASSUME LoadInv, pc = "exec", NEW s \in Findings(job.cmd)
  PROVE  s \in Seq(Values)
<1>1. CASE job.cmd = "discover"
  <2>1. Words(job.cmd) = <<"uuid">> /\ job.cmd \notin WithHandle
    BY <1>1 DEF Words, WithHandle, Subscribes
  <2>2. Loads(job.cmd) = <<>> \o <<"uuid">>
    BY <2>1 DEF Loads
  <2>3. Len(Loads(job.cmd)) = 1
    BY <2>2
  <2>4. job.got \in Seq(Values) /\ Len(job.got) = 1
    BY <2>3 DEF LoadInv
  <2>5. job.got[1] \in Values
    BY <2>4
  <2>6. s = <<>> \/ s = <<job.got[1]>>
    BY <1>1 DEF Findings
  <2>7. <<job.got[1]>> \in Seq(Values) /\ <<>> \in Seq(Values)
    BY <2>5, OneWord
  <2>8. QED
    BY <2>6, <2>7
<1>2. CASE job.cmd = "discoverAll"
  <2>1. s \in Parts
    BY <1>2 DEF Findings
  <2>2. PICK p \in UNION {[1 .. k -> DOMAIN Chrs] : k \in 0 .. Len(Chrs)} :
               s = [n \in DOMAIN p |-> Chrs[p[n]]]
    BY <2>1 DEF Parts
  <2>3. PICK k \in 0 .. Len(Chrs) : p \in [1 .. k -> DOMAIN Chrs]
    OBVIOUS
  <2>4. \A n \in 1 .. k : Chrs[p[n]] \in Values
    BY <2>3, ChrsAssumption DEF Values
  <2>5. s \in [1 .. k -> Values] /\ k \in Nat
    BY <2>2, <2>3, <2>4, ChrsAssumption
  <2>6. QED
    BY <2>5
<1>3. CASE job.cmd \notin {"discover", "discoverAll"}
  <2>1. Findings(job.cmd) = {<<>>}
    BY <1>3 DEF Findings
  <2>2. s = <<>> /\ <<>> \in Seq(Values)
    BY <2>1
  <2>3. QED
    BY <2>2
<1>4. QED
  BY <1>1, <1>2, <1>3

\* A report is remembered as far as there is room.
LEMMA PushKeeps ==
  ASSUME StoreInv, peer # None, peer \in Values, NEW s \in Seq(Values),
         store' = Push([n \in DOMAIN s |-> <<s[n], Cccd[peer][s[n]]>>]),
         found' = found \cup {s[n] : n \in DOMAIN s}, peer' = peer
  PROVE  StoreInv'
<1> DEFINE new == [n \in DOMAIN s |-> <<s[n], Cccd[peer][s[n]]>>]
           all == store \o new
           k == IF Len(all) < StoreCap THEN Len(all) ELSE StoreCap
<1>1. DOMAIN s = 1 .. Len(s) /\ Len(s) \in Nat /\ \A n \in 1 .. Len(s) : s[n] \in Values
  OBVIOUS
<1>2. /\ new \in Seq(Entries) /\ Len(new) = Len(s)
      /\ \A n \in 1 .. Len(s) : new[n] = <<s[n], Cccd[peer][s[n]]>>
  <2>1. \A n \in 1 .. Len(s) : <<s[n], Cccd[peer][s[n]]>> \in Entries
    BY <1>1 DEF Entries
  <2>2. new = [n \in 1 .. Len(s) |-> <<s[n], Cccd[peer][s[n]]>>]
    BY <1>1
  <2>3. QED
    BY <1>1, <2>1, <2>2
<1>3. store \in Seq(Entries) /\ Len(store) \in Nat /\ Len(store) <= StoreCap /\ StoreCap \in Nat
  BY CapAssumption DEF StoreInv
<1> HIDE DEF new
<1>4. /\ all \in Seq(Entries) /\ Len(all) = Len(store) + Len(s)
      /\ \A n \in 1 .. Len(store) : all[n] = store[n]
      /\ \A n \in 1 .. Len(s) : all[Len(store) + n] = new[n]
  BY <1>1, <1>2, <1>3
<1> HIDE DEF all
<1>5. k \in Nat /\ k <= Len(all) /\ k <= StoreCap /\ (k < StoreCap => k = Len(all)) /\ k \in 0 .. Len(all)
  BY <1>1, <1>3, <1>4
<1>6. store' = SubSeq(all, 1, k)
  BY DEF Push, all, new
<1> HIDE DEF k
<1>7. store' \in Seq(Entries) /\ Len(store') = k /\ \A n \in 1 .. k : store'[n] = all[n]
  BY <1>4, <1>5, <1>6
<1>8. \A n \in 1 .. Len(all) : all[n][2] = Cccd[peer][all[n][1]]
  <2>1. ASSUME NEW n \in 1 .. Len(all) PROVE all[n][2] = Cccd[peer][all[n][1]]
    <3>1. CASE n \in 1 .. Len(store)
      BY <1>4, <3>1 DEF StoreInv
    <3>2. CASE n \notin 1 .. Len(store)
      <4>1. n - Len(store) \in 1 .. Len(s) /\ Len(store) + (n - Len(store)) = n
        BY <1>1, <1>3, <1>4, <3>2
      <4>2. all[n] = new[n - Len(store)]
        BY <1>4, <4>1
      <4>3. QED
        BY <1>2, <4>1, <4>2
    <3>3. QED
      BY <3>1, <3>2
  <2>2. QED
    BY <2>1
<1>9. \A n \in 1 .. Len(store') : store'[n][2] = Cccd[peer'][store'[n][1]]
  <2>1. \A n \in 1 .. k : n \in 1 .. Len(all)
    BY <1>1, <1>3, <1>4, <1>5
  <2>2. QED
    BY <1>7, <1>8, <2>1
<1>10. ASSUME Len(store') < StoreCap, NEW x \in found'
       PROVE  \E n \in 1 .. Len(store') : store'[n][1] = x
  <2>1. k = Len(all)
    BY <1>5, <1>7, <1>10
  <2>2. CASE x \in found
    <3>1. Len(store) < StoreCap
      BY <1>1, <1>3, <1>4, <1>7, <1>10, <2>1
    <3>2. PICK n \in 1 .. Len(store) : store[n][1] = x
      BY <2>2, <3>1 DEF StoreInv
    <3>3. n \in 1 .. k /\ all[n] = store[n]
      BY <1>1, <1>3, <1>4, <2>1
    <3>4. QED
      BY <1>7, <3>2, <3>3
  <2>3. CASE x \notin found
    <3>1. PICK n \in 1 .. Len(s) : x = s[n]
      BY <1>1, <2>3
    <3>2. Len(store) + n \in 1 .. k /\ all[Len(store) + n] = new[n]
      BY <1>1, <1>3, <1>4, <2>1
    <3>3. new[n][1] = x
      BY <1>2, <3>1
    <3>4. QED
      BY <1>7, <3>2, <3>3
  <2>4. QED
    BY <2>2, <2>3
<1>11. QED
  BY <1>5, <1>7, <1>9, <1>10 DEF StoreInv

\* The loop leaves the words alone.
LEMMA CallAlone ==
  ASSUME CallTyped, UNCHANGED call
  PROVE  CallTyped'
BY DEF CallTyped

\* A command is taken out of its cell.
LEMMA SwapTypes ==
  ASSUME TypeInv, IInv, Swap, UNCHANGED <<word, call, unload, auto, cfg>>, closing' \in BOOLEAN
  PROVE  /\ CallTyped' /\ CellsTyped'
         /\ job'.cmd = cmd /\ job'.got = <<>> /\ job'.got \in Seq(Values) /\ Len(job'.got) = 0
         /\ \A c : Len(Loads(c)) \in Nat
         /\ pc' # "connecting" => AddrInv'
<1>1. job' = [cmd |-> cmd, got |-> <<>>, tok |-> mine.tok, since |-> mine.since] /\ cmd' = None
      /\ mine'.since = "now"
  BY DEF Swap, NoOne
<1>2. CallTyped' /\ CellsTyped'
  BY <1>1, CallAlone DEF TypeInv, CellsTyped
<1>3. job'.cmd = cmd /\ job'.got = <<>> /\ job'.got \in Seq(Values) /\ Len(job'.got) = 0
  BY <1>1
<1>4. pc' # "connecting" => AddrInv'
  BY <1>1, <1>3, ConnectIsACmd DEF TypeInv, AddrInv
<1>5. QED
  BY <1>2, <1>3, <1>4, WordsLoaded

\* The steps that leave the words, the call, what waits and the link alone, and
\* after which the loop is neither loading nor connecting nor at the host.
LEMMA MovesOn ==
  ASSUME TypeInv, UNCHANGED <<slot, unload, link, cfg>>, auto' \in BOOLEAN,
         \/ peer = None /\ pc' \in NoLink \ {"connecting"}
         \/ peer # None /\ pc' \in InLink \ {"exec"}
  PROVE  TypeInv'
<1>1. CallTyped' /\ CellsTyped'
  BY CallAlone DEF slot, link, TypeInv, CellsTyped
<1>2. pc' \notin {"load", "connecting", "exec"}
  BY DEF NoLink, InLink, AwaitsIdle, AwaitsSession
<1>3. AddrInv' /\ LoadInv'
  BY <1>2 DEF slot, TypeInv, AddrInv, LoadInv
<1>4. PlaceInv'
  BY <1>2 DEF link, TypeInv, PlaceInv, NoLink, InLink, AwaitsIdle, AwaitsSession
<1>5. QED
  BY <1>1, <1>3, <1>4, StoreAlone DEF link, TypeInv

\* A command is taken out while there is no link.
LEMMA SwapsOutside ==
  ASSUME TypeInv, IInv, Swap, UNCHANGED <<word, call, unload, auto, link, cfg>>, peer = None,
         \/ pc' \in {"idleSleep", "scanSleep", "top"}
         \/ pc' = "load" /\ cmd \in {"connect", "scanStart"}
  PROVE  TypeInv'
<1>1. closing' \in BOOLEAN /\ peer' = None /\ pc' # "connecting"
  BY DEF link, TypeInv, CellsTyped
<1>2. /\ CallTyped' /\ CellsTyped' /\ AddrInv'
      /\ job'.cmd = cmd /\ job'.got \in Seq(Values) /\ Len(job'.got) = 0
      /\ \A c : Len(Loads(c)) \in Nat
  BY <1>1, SwapTypes
<1>3. LoadInv'
  BY <1>2 DEF LoadInv
<1>4. cmd \in {"connect", "scanStart"} => cmd \in Cmds
  BY CmdAssumption DEF TypeInv, CellsTyped, AllCmds, IdleCmds
<1>5. PlaceInv'
  BY <1>1, <1>2, <1>4 DEF TypeInv, PlaceInv, NoLink, InLink, AwaitsIdle, AwaitsSession
<1>6. QED
  BY <1>2, <1>3, <1>5, StoreAlone DEF link, TypeInv

LEMMA TopTypes ==
  ASSUME TypeInv, IInv, Top
  PROVE  TypeInv'
<1>1. /\ auto' \in BOOLEAN /\ closing' \in BOOLEAN /\ peer = None /\ pc = "top"
      /\ UNCHANGED <<slot, unload, link, cfg>>
  BY DEF Top, link, TypeInv, CellsTyped, PlaceInv, NoLink
<1>2. CASE ~unload /\ auto
  <2>1. cfg.auto \in Tokens
    BY <1>2, ConfigAssumption DEF IInv, AutoInv, TypeInv, CellsTyped, Config
  <2>2. pc' = "connecting" /\ job'.got = <<cfg.auto>>
    BY <1>2 DEF Top, AutoJob
  <2>3. job'.got[1] \in Tokens
    BY <2>1, <2>2
  <2>4. AddrInv'
    BY <1>1, <2>2, <2>3 DEF slot, TypeInv, AddrInv
  <2>5. PlaceInv' /\ LoadInv'
    BY <1>1, <2>2 DEF link, TypeInv, PlaceInv, LoadInv, InLink, NoLink, AwaitsIdle, AwaitsSession
  <2>6. CallTyped' /\ CellsTyped'
    BY <1>1, CallAlone DEF slot, TypeInv, CellsTyped
  <2>7. QED
    BY <1>1, <2>4, <2>5, <2>6, StoreAlone DEF link, TypeInv
<1>3. CASE unload \/ ~auto
  <2>1. pc' \in {"off", "idle"}
    BY <1>3 DEF Top
  <2>2. QED
    BY <1>1, <2>1, MovesOn DEF NoLink
<1>4. QED
  BY <1>2, <1>3

LEMMA IdleTypes ==
  ASSUME TypeInv, IInv, Idle
  PROVE  TypeInv'
<1>1. peer = None /\ UNCHANGED <<unload, auto, link, cfg>> /\ auto' \in BOOLEAN
  BY DEF Idle, TypeInv, CellsTyped, PlaceInv, NoLink
<1>2. CASE unload
  <2>1. pc' = "off" /\ UNCHANGED slot
    BY <1>2 DEF Idle
  <2>2. QED
    BY <1>1, <2>1, MovesOn DEF NoLink
<1>3. CASE ~unload
  <2>1. /\ Swap /\ UNCHANGED <<word, call>>
        /\ pc' = "idleSleep" \/ (pc' = "load" /\ cmd \in {"connect", "scanStart"})
    BY <1>3 DEF Idle
  <2>2. QED
    BY <1>1, <2>1, SwapsOutside
<1>4. QED
  BY <1>2, <1>3

LEMMA ScanTypes ==
  ASSUME TypeInv, IInv, Scan
  PROVE  TypeInv'
<1>1. peer = None /\ UNCHANGED <<unload, auto, link, cfg>> /\ auto' \in BOOLEAN
  BY DEF Scan, TypeInv, CellsTyped, PlaceInv, NoLink
<1>2. CASE unload
  <2>1. pc' = "top" /\ UNCHANGED slot
    BY <1>2 DEF Scan
  <2>2. QED
    BY <1>1, <2>1, MovesOn DEF NoLink
<1>3. CASE ~unload
  <2>1. /\ Swap /\ UNCHANGED <<word, call>>
        /\ pc' \in {"top", "scanSleep"} \/ (pc' = "load" /\ cmd \in {"connect", "scanStart"})
    BY <1>3 DEF Scan
  <2>2. QED
    BY <1>1, <2>1, SwapsOutside
<1>4. QED
  BY <1>2, <1>3

LEMMA LoadWordTypes ==
  ASSUME TypeInv, IInv, LoadWord
  PROVE  TypeInv'
<1> DEFINE L == Loads(job.cmd)
           w == L[Len(job.got) + 1]
<1>1. /\ pc = "load" /\ pc' = "load" /\ job.cmd \in Cmds /\ job.got \in Seq(Values)
      /\ Len(job.got) < Len(L) /\ Len(job.got) \in Nat /\ Len(L) \in Nat
  BY WordsLoaded DEF LoadWord, TypeInv, PlaceInv, LoadInv
<1>2. job' = [cmd |-> job.cmd, got |-> Append(job.got, word[w]), tok |-> job.tok, since |-> job.since]
  BY DEF LoadWord, IInv, ShapeInv
<1>3. Len(job.got) + 1 \in 1 .. Len(L)
  BY <1>1
<1>4. w \in AllWords
  BY <1>1, <1>3, WordsKnown
<1>5. word[w] \in Values
  BY <1>4 DEF TypeInv, CellsTyped
<1>6. job.cmd = "connect" => Len(job.got) = 0 /\ w = "addr"
  <2>1. ASSUME job.cmd = "connect" PROVE Len(job.got) = 0 /\ w = "addr"
    <3>1. L = <<"addr">>
      BY <2>1, WordsLoaded
    <3>2. Len(L) = 1 /\ L[1] = "addr"
      BY <3>1
    <3> HIDE DEF L
    <3>3. Len(job.got) = 0
      BY <1>1, <3>2
    <3>4. QED
      BY <3>2, <3>3
  <2>2. QED
    BY <2>1
<1> HIDE DEF w
<1>7. /\ job'.cmd = job.cmd /\ job'.got \in Seq(Values) /\ Len(job'.got) = Len(job.got) + 1
      /\ job'.got[Len(job.got) + 1] = word[w]
  BY <1>1, <1>2, <1>5
<1>8. UNCHANGED <<slot, unload, auto, link, cfg>>
  BY DEF LoadWord
<1>9. AddrInv'
  <2>1. job.cmd = "connect" => word["addr"] \in Tokens /\ job'.got[1] = word["addr"]
    BY <1>1, <1>6, <1>7 DEF TypeInv, AddrInv
  <2>2. QED
    BY <1>1, <1>7, <1>8, <2>1 DEF slot, TypeInv, AddrInv
<1>10. PlaceInv'
  BY <1>1, <1>7, <1>8 DEF link, TypeInv, PlaceInv
<1>11. LoadInv'
  BY <1>1, <1>7 DEF LoadInv
<1>12. CallTyped' /\ CellsTyped'
  BY <1>8, CallAlone DEF slot, link, TypeInv, CellsTyped
<1>13. QED
  BY <1>8, <1>9, <1>10, <1>11, <1>12, StoreAlone DEF link, TypeInv

LEMMA LoadedTypes ==
  ASSUME TypeInv, IInv, Loaded
  PROVE  TypeInv'
<1>1. /\ pc = "load" /\ Len(job.got) = Len(Loads(job.cmd)) /\ job.got \in Seq(Values)
      /\ UNCHANGED <<slot, unload, auto, link, job, cfg>> /\ auto' \in BOOLEAN
  BY DEF Loaded, TypeInv, LoadInv, CellsTyped
<1>2. CallTyped' /\ CellsTyped'
  BY <1>1, CallAlone DEF slot, link, TypeInv, CellsTyped
<1>3. CASE peer # None
  <2>1. job.cmd \in ServerCmds /\ pc' = "exec"
    BY <1>1, <1>3 DEF Loaded, TypeInv, PlaceInv, ServerCmds
  <2>2. AddrInv' /\ LoadInv' /\ PlaceInv'
    BY <1>1, <1>3, <2>1
       DEF slot, link, TypeInv, AddrInv, LoadInv, PlaceInv, InLink, NoLink, AwaitsSession, AwaitsIdle
  <2>3. QED
    BY <1>1, <1>2, <2>2, StoreAlone DEF link, TypeInv
<1>4. CASE peer = None /\ job.cmd = "scanStart"
  <2>1. pc' = "scanOpen"
    BY <1>4 DEF Loaded
  <2>2. QED
    BY <1>1, <1>4, <2>1, MovesOn DEF NoLink, AwaitsIdle
<1>5. CASE peer = None /\ job.cmd = "connect"
  <2>1. pc' = "connecting"
    BY <1>5 DEF Loaded
  <2>2. Len(job.got) > 0
    <3>1. Loads(job.cmd) = <<"addr">>
      BY <1>5, WordsLoaded
    <3>2. Len(Loads(job.cmd)) = 1
      BY <3>1
    <3>3. QED
      BY <1>1, <3>2
  <2>3. AddrInv' /\ LoadInv' /\ PlaceInv'
    BY <1>1, <1>5, <2>1, <2>2
       DEF slot, link, TypeInv, AddrInv, LoadInv, PlaceInv, InLink, NoLink, AwaitsSession, AwaitsIdle
  <2>4. QED
    BY <1>1, <1>2, <2>3, StoreAlone DEF link, TypeInv
<1>6. QED
  BY <1>1, <1>3, <1>4, <1>5 DEF TypeInv, PlaceInv

LEMMA PumpTypes ==
  ASSUME TypeInv, IInv, Pump
  PROVE  TypeInv'
<1>1. /\ pc = "pump" /\ Swap /\ pc' = IF cmd \in ServerCmds THEN "load" ELSE "sleep"
      /\ UNCHANGED <<word, call, unload, auto, peer, store, found, cfg>> /\ peer # None
      /\ closing' \in BOOLEAN /\ pc' # "connecting"
  BY DEF Pump, TypeInv, CellsTyped, PlaceInv, InLink
<1>2. /\ CallTyped' /\ CellsTyped' /\ AddrInv'
      /\ job'.cmd = cmd /\ job'.got \in Seq(Values) /\ Len(job'.got) = 0
      /\ \A c : Len(Loads(c)) \in Nat
  BY <1>1, SwapTypes
<1>3. LoadInv'
  BY <1>1, <1>2 DEF LoadInv
<1>4. cmd \in ServerCmds => cmd \in Cmds
  BY CmdAssumption DEF TypeInv, CellsTyped, AllCmds
<1>5. PlaceInv'
  BY <1>1, <1>2, <1>4 DEF TypeInv, PlaceInv, NoLink, InLink, AwaitsIdle, AwaitsSession
<1>6. QED
  BY <1>1, <1>2, <1>3, <1>5, StoreAlone DEF TypeInv

LEMMA HostAnswersTypes ==
  ASSUME TypeInv, IInv, HostAnswers
  PROVE  TypeInv'
<1>1. /\ pc = "exec" /\ pc' = "status" /\ peer # None /\ peer \in Values
      /\ UNCHANGED <<slot, unload, auto, peer, closing, job, cfg>>
  BY DEF HostAnswers, TypeInv, PlaceInv, InLink, AwaitsSession
<1>2. CallTyped' /\ CellsTyped'
  BY <1>1, CallAlone DEF slot, TypeInv, CellsTyped
<1>3. AddrInv' /\ LoadInv' /\ PlaceInv'
  BY <1>1 DEF slot, TypeInv, AddrInv, LoadInv, PlaceInv, InLink, NoLink, AwaitsSession, AwaitsIdle
<1>4. PICK s \in Findings(job.cmd) :
        /\ store' = Push([n \in DOMAIN s |-> <<s[n], Cccd[peer][s[n]]>>])
        /\ found' = found \cup {s[n] : n \in DOMAIN s}
  BY DEF HostAnswers
<1>5. s \in Seq(Values)
  BY <1>1, FindingsAre DEF TypeInv
<1>6. StoreInv'
  BY <1>1, <1>4, <1>5, PushKeeps DEF TypeInv
<1>7. QED
  BY <1>2, <1>3, <1>6 DEF TypeInv

LEMMA LeaveTypes ==
  ASSUME TypeInv, IInv, LeaveLink, pc' \in {"top", "off"}, UNCHANGED unload
  PROVE  TypeInv'
<1>1. /\ peer' = None /\ closing' = FALSE /\ store' = <<>> /\ found' = {}
      /\ UNCHANGED <<cmd, word, call, auto, cfg>>
  BY DEF LeaveLink
<1>2. mine'.since \in {"now", "link", "session"}
  BY DEF LeaveLink, TypeInv, CellsTyped, IInv, ShapeInv
<1>3. CallTyped' /\ CellsTyped'
  BY <1>1, <1>2, CallAlone DEF TypeInv, CellsTyped
<1>4. AddrInv' /\ LoadInv' /\ PlaceInv'
  BY <1>1 DEF TypeInv, AddrInv, LoadInv, PlaceInv, Values, InLink, NoLink, AwaitsSession, AwaitsIdle
<1>5. StoreInv'
  BY <1>1, CapAssumption DEF StoreInv
<1>6. QED
  BY <1>3, <1>4, <1>5 DEF TypeInv

LEMMA ConnectedTypes ==
  ASSUME TypeInv, Connected
  PROVE  TypeInv'
<1>1. /\ pc = "connecting" /\ pc' = "init" /\ peer = None /\ peer' = job.got[1]
      /\ job.got[1] \in Tokens /\ UNCHANGED <<slot, unload, auto, closing, store, found, cfg>>
  BY DEF Connected, TypeInv, AddrInv, PlaceInv, NoLink, AwaitsIdle
<1>2. CallTyped' /\ CellsTyped'
  BY <1>1, CallAlone DEF slot, TypeInv, CellsTyped
<1>3. peer' \in Values /\ peer' # None
  BY <1>1, CmdAssumption DEF Values
<1>4. AddrInv' /\ LoadInv' /\ PlaceInv'
  BY <1>1, <1>3
     DEF slot, TypeInv, AddrInv, LoadInv, PlaceInv, InLink, NoLink, AwaitsSession, AwaitsIdle
<1>5. StoreInv'
  <2>1. store = <<>> /\ found = {}
    BY <1>1 DEF TypeInv, StoreInv
  <2>2. QED
    BY <1>1, <1>3, <2>1 DEF TypeInv, StoreInv
<1>6. QED
  BY <1>2, <1>4, <1>5 DEF TypeInv

LEMMA TimerTypes ==
  ASSUME TypeInv, Timer \/ Status \/ ScanOpens \/ ClientReady \/ ScanTimesOut \/ ConnectFails
  PROVE  TypeInv'
<1>1. UNCHANGED <<slot, unload, auto, link, cfg>> /\ auto' \in BOOLEAN
  BY DEF Timer, Status, ScanOpens, ClientReady, ScanTimesOut, ConnectFails, TypeInv, CellsTyped
<1>2. \/ peer = None /\ pc' \in {"idle", "scan", "top", "retry"}
      \/ peer # None /\ pc' \in {"pump", "sleep"}
  BY DEF Timer, Status, ScanOpens, ClientReady, ScanTimesOut, ConnectFails, TypeInv, PlaceInv,
         InLink, NoLink, AwaitsIdle, AwaitsSession
<1>3. QED
  BY <1>1, <1>2, MovesOn DEF NoLink, InLink, AwaitsIdle, AwaitsSession

LEMMA TypesHold == Spec => []TypeInv
<1>1. ASSUME Init PROVE TypeInv
  <2>1. CallTyped /\ CellsTyped /\ PlaceInv /\ LoadInv
    BY <1>1 DEF Init, NoOne, CallTyped, CellsTyped, PlaceInv, LoadInv, Values, InLink, NoLink,
                AwaitsIdle, AwaitsSession
  <2>2. AddrInv /\ StoreInv
    BY <1>1, ConnectIsACmd, CapAssumption DEF Init, AddrInv, StoreInv
  <2>3. QED
    BY <2>1, <2>2 DEF TypeInv
<1>2. ASSUME TypeInv, IInv, [Next]_vars PROVE TypeInv'
  <2> USE <1>2
  <2>1. CASE Application
    BY <2>1, ApplicationTypes
  <2>2. CASE Top \/ Idle \/ Scan
    BY <2>2, TopTypes, IdleTypes, ScanTypes
  <2>3. CASE LoadWord \/ Loaded \/ Pump
    BY <2>3, LoadWordTypes, LoadedTypes, PumpTypes
  <2>4. CASE HostAnswers
    BY <2>4, HostAnswersTypes
  <2>5. CASE Timer \/ Status \/ ScanOpens \/ ClientReady \/ ScanTimesOut \/ ConnectFails
    BY <2>5, TimerTypes
  <2>6. CASE Connected
    BY <2>6, ConnectedTypes
  <2>7. CASE LinkEnds \/ UnloadSeen \/ UnloadSeenOutside \/ RunnerEnds
    <3>1. LeaveLink /\ pc' \in {"top", "off"} /\ UNCHANGED unload
      BY <2>7 DEF LinkEnds, UnloadSeen, UnloadSeenOutside, RunnerEnds, LeaveLink
    <3>2. QED
      BY <3>1, LeaveTypes
  <2>8. CASE UNCHANGED vars
    <3>1. CallTyped' /\ CellsTyped' /\ AddrInv'
      BY <2>8 DEF vars, TypeInv, CallTyped, CellsTyped, AddrInv
    <3>2. PlaceInv' /\ LoadInv' /\ StoreInv'
      BY <2>8 DEF vars, TypeInv, PlaceInv, LoadInv, StoreInv
    <3>3. QED
      BY <3>1, <3>2 DEF TypeInv
  <2>9. QED
    BY <2>1, <2>2, <2>3, <2>4, <2>5, <2>6, <2>7, <2>8 DEF Next, Loop, Host
<1>3. QED
  BY <1>1, <1>2, Inductive, PTL DEF Spec

\* Whatever the application calls and when, a link has a peer and only a link has
\* one, the loop hands the host a command of the GATT client with all its
\* arguments, and the store of characteristics keeps within its capacity.
THEOREM TypeCorrect == Spec => []TypeOK
<1>1. ASSUME TypeInv PROVE TypeOK
  <2>1. /\ cmd \in Cmds \cup {None} /\ word \in [AllWords -> Tokens \cup {None}]
        /\ unload \in BOOLEAN /\ closing \in BOOLEAN /\ auto \in BOOLEAN
        /\ mine.since \in {"now", "link", "session"} /\ cfg \in Configs
    BY <1>1 DEF TypeInv, CellsTyped, Values
  <2>2. call # None => call.cmd \in Cmds /\ call.at \in 1 .. Len(Words(call.cmd)) + 3
    BY <1>1 DEF TypeInv, CallTyped
  <2>3. /\ pc \in {"off", "top", "idle", "load", "scan", "pump", "status"} \cup AwaitsIdle \cup AwaitsSession
        /\ peer \in Tokens \cup {None}
        /\ pc \in {"pump", "status"} \cup AwaitsSession => peer # None
    BY <1>1 DEF TypeInv, PlaceInv, InLink, NoLink, Values
  <2>4. /\ pc = "exec" => job.cmd \in ServerCmds /\ Len(job.got) = Len(Loads(job.cmd))
        /\ Len(store) <= StoreCap /\ (peer = None => found = {})
    BY <1>1 DEF TypeInv, LoadInv, StoreInv
  <2>5. QED
    BY <2>1, <2>2, <2>3, <2>4 DEF TypeOK
<1>2. QED
  BY <1>1, TypesHold, PTL

\* The CHOOSE that stands for the first match finds one.
LEMMA FirstOf ==
  ASSUME NEW S, S \subseteq Nat, S # {}
  PROVE  (CHOOSE n \in S : \A m \in S : n <= m) \in S
<1> DEFINE Less == OpToRel(<, Nat)
<1>1. IsWellFoundedOn(Less, Nat)
  BY NatLessThanWellFounded
<1>2. \A m, n \in Nat : m < n => <<m, n>> \in Less
  BY DEF OpToRel
<1> HIDE DEF Less
<1>3. PICK n \in S : \A m \in S : <<m, n>> \notin Less
  BY <1>1, WFMin, Zenon
<1>4. ASSUME NEW m \in S PROVE n <= m
  <2>1. n \in Nat /\ m \in Nat
    OBVIOUS
  <2>2. ~(m < n)
    BY <1>2, <1>3, <2>1
  <2>3. QED
    BY <2>1, <2>2
<1>5. QED
  BY <1>4

\* A subscription to a characteristic that was reported on this link goes to its
\* own CCCD, wherever the peer keeps it, on whatever peer and after whatever
\* discoveries: client_session's store holds what this link reported, and nothing of
\* an earlier one, until it is full.
THEOREM SubscribesRight == Spec => []SubscribesCccd
<1>1. ASSUME TypeInv PROVE SubscribesCccd
  <2> DEFINE chr == job.got[1]
             known == {n \in DOMAIN store : store[n][1] = chr}
             first == CHOOSE n \in known : \A m \in known : n <= m
  <2>1. ASSUME chr \in found, Len(store) < StoreCap PROVE Target(chr) = Cccd[peer][chr]
    <3>1. /\ DOMAIN store = 1 .. Len(store) /\ Len(store) \in Nat
          /\ \A n \in 1 .. Len(store) : store[n][2] = Cccd[peer][store[n][1]]
      BY <1>1 DEF TypeInv, StoreInv
    <3>2. known # {}
      BY <1>1, <2>1, <3>1 DEF TypeInv, StoreInv
    <3>3. known \subseteq Nat
      BY <3>1
    <3>4. Target(chr) = store[first][2]
      BY <3>2 DEF Target
    <3>5. first \in known
      <4> HIDE DEF known
      <4>1. QED
        BY <3>2, <3>3, FirstOf
    <3> HIDE DEF first, chr
    <3>6. QED
      BY <3>1, <3>4, <3>5
  <2>2. QED
    BY <2>1 DEF SubscribesCccd
<1>2. QED
  BY <1>1, TypesHold, PTL
=============================================================================
