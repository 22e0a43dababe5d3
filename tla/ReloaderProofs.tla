--------------------------- MODULE ReloaderProofs ---------------------------
(***************************************************************************)
(* The hand-over of a reloaded certificate, key or CA from the threads of  *)
(* the watcher to the accept loop of the server, for any number of threads *)
(* and any history of the files.                                           *)
(***************************************************************************)
EXTENDS Reloader, TLAPS

USE SMTT(40), ZenonT(40), Z3T(40), SMTT(30), Z3T(30)

Points == {"idle", "exists", "rewatch", "load", "load_key", "store", "flag"}

Shape ==
  /\ pc \in [Procs -> Points]
  /\ cfg = [f \in Files |-> cfg[f]]

Announced == flag \/ \E p \in Procs : pc[p] = "flag"

\* If the CAs the accept loop has read are no longer the stored ones, the
\* thread that stored the others has set the flag or is about to.
StaleIsAnnounced ==
  acc = "build" /\ "ca" \in Files /\ accCa # cfg["ca"] => Announced

Inv == Shape /\ NoLostReload /\ StaleIsAnnounced

-----------------------------------------------------------------------------
LEMMA InvInit ==
  ASSUME Init
  PROVE  Inv
<1>1. pc \in [Procs -> Points]
  BY DEF Init, Points
<1>2. cfg = [f \in Files |-> cfg[f]]
  BY DEF Init, First
<1>3. NoLostReload
  BY DEF Init, NoLostReload
<1>4. StaleIsAnnounced
  BY DEF Init, StaleIsAnnounced
<1> QED BY <1>1, <1>2, <1>3, <1>4 DEF Inv, Shape

\* A step that leaves the stored configuration, the acceptor and the accept
\* loop alone, clears no flag and takes no thread past the point where it
\* sets it.
LEMMA Frame ==
  ASSUME Inv, reloader' = reloader, bad \subseteq bad', cfg' = cfg,
         Role = "server" => active' = active,
         flag => flag', acc' = acc, accCa' = accCa,
         pc' \in [Procs -> Points],
         flag' \/ \A p \in Procs : pc[p] = "flag" => pc'[p] = "flag"
  PROVE  Inv'
<1>1. Files' = Files /\ Role' = Role
  BY DEF Files, Role
<1>2. Buildable(cfg)' => Buildable(cfg)
  BY <1>1 DEF Buildable
<1>3. Shape'
  BY <1>1 DEF Inv, Shape
<1>4. Announced => Announced'
  BY ZenonT(40) DEF Announced
<1>5. NoLostReload'
  BY <1>1, <1>2 DEF Inv, NoLostReload
<1>6. StaleIsAnnounced'
  BY <1>1, <1>4, ZenonT(40) DEF Inv, StaleIsAnnounced
<1> QED BY <1>3, <1>5, <1>6 DEF Inv

\* A thread that is not about to set the flag moves on, and so may a thread
\* it starts: no other thread is disturbed.
PcMoves ==
  /\ pc' \in [Procs -> Points]
  /\ \A q \in Procs : pc[q] = "flag" => pc'[q] = "flag"

LEMMA Moves ==
  ASSUME Inv, NEW p \in Procs, pc[p] # "flag",
         NEW x \in Points, pc' = [pc EXCEPT ![p] = x]
  PROVE  PcMoves
BY DEF Inv, Shape, PcMoves

LEMMA ReturnMoves ==
  ASSUME Inv, NEW p \in Procs, pc[p] # "flag", Return(p)
  PROVE  PcMoves
<1>1. pc' = [pc EXCEPT ![p] = "idle"] /\ "idle" \in Points
  BY DEF Return, Points
<1> QED BY <1>1, Moves, ZenonT(40)

LEMMA RewatchMoves ==
  ASSUME Inv, NEW p \in Procs, pc[p] # "flag", NEW f, StartRewatch(p, f)
  PROVE  PcMoves
<1>1. PICK t \in IF p = Loop THEN Threads ELSE {p} :
        /\ p = Loop => pc[t] = "idle"
        /\ pc' = [[pc EXCEPT ![p] = "idle"] EXCEPT ![t] = "exists"]
  BY ZenonT(40) DEF StartRewatch
<1>2. t \in Procs /\ pc[t] # "flag"
  BY <1>1, ReloaderAssumption DEF Threads, Procs
<1>3. pc \in [Procs -> Points] /\ {"idle", "exists"} \subseteq Points
  BY DEF Inv, Shape, Points
<1> QED BY <1>1, <1>2, <1>3 DEF PcMoves

-----------------------------------------------------------------------------
\* Whoever edits the files, and start-up.
LEMMA OutsideStep ==
  ASSUME Inv,
         \/ \E f \in Files : EditFile(f) \/ RemoveFile(f) \/ CreateFile(f)
         \/ StartStep
  PROVE  Inv'
<1> USE DEF fileVars, watchVars, accVars
<1>1. /\ reloader' = reloader /\ cfg' = cfg /\ active' = active /\ flag' = flag
      /\ acc' = acc /\ accCa' = accCa /\ pc' = pc
  BY ZenonT(40) DEF EditFile, RemoveFile, CreateFile, NewContent, StartStep, Watch,
     InstallWatcher
<1>2. bad \subseteq bad'
  BY ZenonT(40) DEF EditFile, RemoveFile, CreateFile, NewContent, StartStep, Watch,
     InstallWatcher
<1> QED BY <1>1, <1>2, Frame, ZenonT(40) DEF Inv, Shape

\* The event handler on the watcher's thread.
LEMMA HandleStep ==
  ASSUME Inv, HandleEvent
  PROVE  Inv'
<1> USE DEF fileVars, accVars
<1>1. /\ reloader' = reloader /\ bad' = bad /\ cfg' = cfg /\ active' = active
      /\ flag' = flag /\ acc' = acc /\ accCa' = accCa
  BY DEF HandleEvent
<1>2. Loop \in Procs /\ pc[Loop] = "idle" /\ "load" \in Points
  BY ReloaderAssumption DEF HandleEvent, Loop, Procs, Points
<1>3. \/ pc' = [pc EXCEPT ![Loop] = "load"]
      \/ StartRewatch(Loop, Head(events)[2])
  BY ZenonT(40) DEF HandleEvent
<1>4. PcMoves
  BY <1>2, <1>3, Moves, RewatchMoves
<1> QED BY <1>1, <1>4, Frame, ZenonT(40) DEF PcMoves

\* The steps of a thread before it stores what it has read.
LEMMA LoadStep ==
  ASSUME Inv, NEW p \in Procs, FileExists(p) \/ Rewatch(p) \/ Load(p)
  PROVE  Inv'
<1> USE DEF fileVars, accVars
<1>1. /\ reloader' = reloader /\ bad' = bad /\ cfg' = cfg /\ active' = active
      /\ flag' = flag /\ acc' = acc /\ accCa' = accCa
  BY ZenonT(40)
  DEF FileExists, Rewatch, Load, RulesLoad, ServerLoad, ClientLoadCert,
     ClientLoadKey
<1>2. pc[p] # "flag"
  BY ZenonT(40)
  DEF FileExists, Rewatch, Load, RulesLoad, ServerLoad, ClientLoadCert,
     ClientLoadKey
<1>3. \/ \E x \in {"rewatch", "load", "store", "load_key"} :
           pc' = [pc EXCEPT ![p] = x]
      \/ Return(p)
      \/ StartRewatch(p, of[p])
  <2>1. CASE FileExists(p)
    BY <2>1, ZenonT(40) DEF FileExists
  <2>2. CASE Rewatch(p)
    BY <2>2, ZenonT(40) DEF Rewatch
  <2>3. CASE RulesLoad(p)
    BY <2>3, ZenonT(40) DEF RulesLoad
  <2>4. CASE ServerLoad(p)
    BY <2>4, ZenonT(40) DEF ServerLoad
  <2>5. CASE ClientLoadCert(p)
    BY <2>5, ZenonT(40) DEF ClientLoadCert
  <2>6. CASE ClientLoadKey(p)
    BY <2>6, ZenonT(40) DEF ClientLoadKey
  <2> QED BY <2>1, <2>2, <2>3, <2>4, <2>5, <2>6, ZenonT(40) DEF Load
<1>4. {"rewatch", "load", "store", "load_key"} \subseteq Points
  BY DEF Points
<1>5. PcMoves
  BY <1>2, <1>3, <1>4, Moves, ReturnMoves, RewatchMoves, ZenonT(40)
<1> QED BY <1>1, <1>5, Frame, ZenonT(40) DEF PcMoves

\* Rules and connectors are not the acceptor's business; a thread that has
\* stored for the server is at the point where it sets the flag.
LEMMA StoreStep ==
  ASSUME Inv, NEW p \in Procs, Store(p)
  PROVE  Inv'
<1> USE DEF fileVars, accVars
<1>0. /\ reloader' = reloader /\ bad' = bad /\ acc' = acc /\ accCa' = accCa
      /\ pc \in [Procs -> Points] /\ {"flag", "idle"} \subseteq Points
  BY ZenonT(40)
  DEF Store, RulesStore, ServerStore, ClientStore, SetFlag, Inv, Shape,
     Points
<1>1. CASE RulesStore(p) \/ ClientStore(p)
  <2>1. /\ cfg' = cfg /\ flag' = flag /\ Role # "server" /\ pc[p] = "store"
        /\ Return(p) \/ pc' = [pc EXCEPT ![p] = "flag"]
    BY <1>1, ZenonT(40) DEF RulesStore, ClientStore
  <2>2. PcMoves
    BY <1>0, <2>1, Moves, ReturnMoves, ZenonT(40)
  <2> QED BY <1>0, <2>1, <2>2, Frame, ZenonT(40) DEF PcMoves
<1>2. CASE SetFlag(p)
  <2>1. /\ cfg' = cfg /\ flag' = TRUE /\ active' = active
        /\ pc' = [pc EXCEPT ![p] = "idle"]
    BY <1>2, ZenonT(40) DEF SetFlag, Return
  <2>2. pc' \in [Procs -> Points]
    BY <1>0, <2>1
  <2> QED BY <1>0, <2>1, <2>2, Frame, ZenonT(40)
<1>3. CASE ServerStore(p)
  <2>1. /\ cfg' = [cfg EXCEPT ![of[p]] = loaded[p][of[p]]]
        /\ pc' = [pc EXCEPT ![p] = "flag"]
    BY <1>3 DEF ServerStore
  <2>2. pc' \in [Procs -> Points] /\ pc'[p] = "flag"
    BY <1>0, <2>1
  <2>3. Files' = Files
    BY <1>0 DEF Files
  <2>4. cfg' = [f \in Files |-> cfg'[f]]
    BY <2>1, ZenonT(40) DEF Inv, Shape
  <2>5. Shape'
    BY <2>2, <2>3, <2>4 DEF Shape
  <2>6. NoLostReload'
    BY <2>2, ZenonT(40) DEF NoLostReload
  <2>7. StaleIsAnnounced'
    BY <2>2, ZenonT(40) DEF StaleIsAnnounced, Announced
  <2> QED BY <2>5, <2>6, <2>7 DEF Inv
<1> QED BY <1>1, <1>2, <1>3, ZenonT(40) DEF Store

\* The accept loop clears the flag before it reads, and what it then builds
\* is the stored configuration unless a thread has stored since.
LEMMA AcceptLemma ==
  ASSUME Inv, AcceptStep
  PROVE  Inv'
<1> USE DEF fileVars, accVars
<1>0. /\ reloader' = reloader /\ bad' = bad /\ cfg' = cfg /\ pc' = pc
  BY ZenonT(40) DEF AcceptStep, SwapFlag, ReadCa, BuildAcceptor
<1>1. Files' = Files /\ Role' = Role /\ (Buildable(cfg)' <=> Buildable(cfg))
  BY <1>0, ZenonT(40) DEF Files, Role, Buildable
<1>2. Shape'
  BY <1>0, <1>1, ZenonT(40) DEF Inv, Shape
<1>3. Announced' <=> flag' \/ \E p \in Procs : pc[p] = "flag"
  BY <1>0, ZenonT(40) DEF Announced
<1>4. CASE SwapFlag
  <2>1. acc' = "ca"
    BY <1>4 DEF SwapFlag
  <2>2. NoLostReload' /\ StaleIsAnnounced'
    BY <2>1, ZenonT(40) DEF NoLostReload, StaleIsAnnounced
  <2> QED BY <1>2, <2>2 DEF Inv
<1>5. CASE ReadCa
  <2>1. "ca" \in Files => accCa' = cfg["ca"]
    BY <1>5 DEF ReadCa
  <2>2. NoLostReload'
    BY <1>0, <1>1, <1>5, <2>1, ZenonT(40) DEF ReadCa, NoLostReload
  <2>3. StaleIsAnnounced'
    BY <1>0, <1>1, <2>1, ZenonT(40) DEF StaleIsAnnounced
  <2> QED BY <1>2, <2>2, <2>3 DEF Inv
<1>6. CASE BuildAcceptor
  <2> DEFINE c == [f \in Files |-> IF f = "ca" THEN accCa ELSE cfg[f]]
  <2>1. /\ active' = IF Buildable(c) THEN c ELSE active
        /\ flag' = flag /\ acc = "build" /\ acc' = "idle"
    BY <1>6 DEF BuildAcceptor
  <2>2. ("ca" \in Files => accCa = cfg["ca"]) => c = cfg
    BY DEF Inv, Shape
  <2> HIDE DEF c
  <2>3. Buildable(cfg) /\ cfg # active' => Announced
    <3>1. CASE "ca" \in Files => accCa = cfg["ca"]
      BY <2>1, <2>2, <3>1, ZenonT(40)
    <3>2. CASE ~("ca" \in Files => accCa = cfg["ca"])
      BY <2>1, <3>2, ZenonT(40) DEF Inv, StaleIsAnnounced
    <3> QED BY <3>1, <3>2
  <2>4. NoLostReload'
    BY <1>0, <1>1, <2>1, <2>3, ZenonT(40) DEF NoLostReload, Announced
  <2>5. StaleIsAnnounced'
    BY <2>1 DEF StaleIsAnnounced
  <2> QED BY <1>2, <2>4, <2>5 DEF Inv
<1> QED BY <1>4, <1>5, <1>6 DEF AcceptStep

LEMMA InvStep ==
  ASSUME Inv, [Next]_vars
  PROVE  Inv'
<1>1. CASE \/ \E f \in Files : EditFile(f) \/ RemoveFile(f) \/ CreateFile(f)
           \/ StartStep
  BY <1>1, OutsideStep, ZenonT(40)
<1>2. CASE HandleEvent
  BY <1>2, HandleStep
<1>3. ASSUME NEW p \in Procs, ProcStep(p)
      PROVE  Inv'
  BY <1>3, LoadStep, StoreStep, ZenonT(40) DEF ProcStep
<1>4. CASE AcceptStep
  BY <1>4, AcceptLemma
<1>5. CASE UNCHANGED vars
  <2>1. /\ reloader' = reloader /\ bad' = bad /\ cfg' = cfg /\ active' = active
        /\ flag' = flag /\ acc' = acc /\ accCa' = accCa /\ pc' = pc
    BY <1>5, ZenonT(40) DEF vars, fileVars, accVars
  <2>2. pc \in [Procs -> Points]
    BY DEF Inv, Shape
  <2> QED BY <2>1, <2>2, Frame, ZenonT(40)
<1> QED BY <1>1, <1>2, <1>3, <1>4, <1>5, ZenonT(40) DEF Next

-----------------------------------------------------------------------------
\* No reload is lost between the watcher's threads and the accept loop: a
\* usable configuration that was stored and is not in the acceptor is
\* announced by the flag, is about to be, or is being read.  It is the order
\* that counts: store, then set; clear, then read (server.rs, TlsContext).
THEOREM ReloadsNeverLost == Spec => []NoLostReload
<1>1. Init => Inv
  BY InvInit
<1>2. Inv /\ [Next]_vars => Inv'
  BY InvStep
<1>3. Inv => NoLostReload
  BY DEF Inv
<1> QED BY <1>1, <1>2, <1>3, PTL DEF Spec
=============================================================================
