---------------------------- MODULE SessionProofs ---------------------------
(***************************************************************************)
(* An add that returned lasts, for any number of API threads, pieces and   *)
(* peers and however often the process dies.                               *)
(***************************************************************************)
EXTENDS Session, TLAPS

Files ==
    [kind : {"absent", "empty", "garbled", "state"}, data : BOOLEAN, bits : SUBSET Pieces]

Objects ==
    [status : {"none", "live", "removed", "freed"}, have : SUBSET Pieces, known : SUBSET Peers,
     paused : BOOLEAN, stopping : BOOLEAN]

AddPcs == {"idle", "construct", "insert", "write"}
MainPcs == AddPcs \cup {"restore", "check", "destroy_write", "destroy_join"}
ClientPcs == AddPcs \cup {"save", "remove_write", "join", "destruct"}
Work == [pc : MainPcs \cup ClientPcs, inc : 0 .. MaxAdds, saved : Files, stale : BOOLEAN]

\* The types the invariant needs.
Typed ==
    /\ stage \in {"down", "restoring", "up", "stopping"}
    /\ tor \in 0 .. MaxAdds
    /\ made \in Nat
    /\ torrent \in [Torrents -> Objects]
    /\ caller \in [Callers -> Work]
    /\ file \in Files
    /\ owed \in BOOLEAN
    /\ spoilt \in BOOLEAN

\* Who may be where: requests run while the API is open and through the
\* destructor, main before and after.
Places ==
    /\ caller["main"].pc \in MainPcs
    /\ stage \in {"up", "down"} => caller["main"].pc = "idle"
    /\ caller["main"].pc \in {"destroy_write", "destroy_join"} => stage = "stopping"
    /\ stage = "stopping" => caller["main"].pc \in {"destroy_write", "destroy_join"}
    /\ \A c \in Clients : /\ caller[c].pc \in ClientPcs
                          /\ stage \notin {"up", "stopping"} => caller[c].pc = "idle"
                          /\ caller[c].pc \in {"save", "remove_write", "join", "destruct"} =>
                               caller[c].inc # NoTorrent
                          /\ caller[c].pc = "remove_write" => ~caller[c].saved.data

\* An add that writes holds mutex_; the file has no data yet, and is empty unless
\* a remove saved into it.
WriterAlone ==
    \A c \in Callers : At(c, "write") =>
      /\ mutex = c /\ tor # NoTorrent /\ ~owed
      /\ ~file.data
      /\ ~spoilt => file.kind = "empty"

\* The file has data, or is empty and the one who emptied it brings them.
Readable ==
    \/ load_state.data
    \/ /\ file.kind = "empty"
       /\ \/ \E d \in Callers : At(d, "write")
          \/ At("main", "destroy_write") /\ caller["main"].saved.data

\* Data an add has loaded stand when no save of a remove and none that failed came
\* since.
ReadStands ==
    \A c \in Callers : At(c, "insert") /\ ~caller[c].stale /\ caller[c].saved.data => Readable

\* The destructor writes what it read before it truncated the file.
ShutdownSaves ==
    At("main", "destroy_write") =>
      /\ mutex = "main" /\ tor # NoTorrent
      /\ ~file.data
      /\ ~spoilt => file.kind = "empty"
      /\ caller["main"].saved.kind = "state"
      /\ owed /\ ~spoilt => caller["main"].saved.data

\* In every stage the file would restore what is owed.
Kept ==
    owed /\ ~spoilt /\ ~At("main", "destroy_write") =>
      /\ load_state.data
      /\ stage = "up" => tor # NoTorrent

Safe == WriterAlone /\ ReadStands /\ ShutdownSaves /\ Kept

IInv == Typed /\ Places /\ Safe

-----------------------------------------------------------------------------

USE SessionAssumption DEF Callers, Torrents, NoTorrent

LEMMA MainIsCaller == "main" \in Callers /\ "free" \notin Callers
OBVIOUS

LEMMA FilesTyped ==
    /\ Absent \in Files /\ Empty \in Files /\ Garbled \in Files
    /\ \A b \in BOOLEAN, bits \in SUBSET Pieces : State(b, bits) \in Files
BY DEF Files, Absent, Empty, Garbled, State

LEMMA LoadTyped ==
    ASSUME file \in Files
    PROVE  /\ load_state \in Files
           /\ load_state.data <=> (file.kind = "state" /\ file.data)
BY FilesTyped DEF load_state, Absent, Files

LEMMA IdleTyped == Idle \in Work /\ Idle.pc = "idle"
BY FilesTyped DEF Idle, Work, AddPcs, MainPcs

LEMMA InitIInv == Init => IInv
<1> SUFFICES ASSUME Init PROVE IInv
  OBVIOUS
<1> DEFINE restore == [Idle EXCEPT !.pc = "restore"]
<1>1. restore \in Work /\ restore.pc = "restore"
  BY IdleTyped DEF Idle, Work, MainPcs
<1>2. caller = [c \in Callers |-> IF c = "main" THEN restore ELSE Idle]
  BY DEF Init
<1> HIDE DEF restore
<1>3. caller \in [Callers -> Work] /\ caller["main"].pc = "restore"
      /\ \A c \in Clients : caller[c].pc = "idle"
  BY <1>1, <1>2, IdleTyped
<1>4. torrent \in [Torrents -> Objects]
  BY DEF Init, NoObject, Objects
<1>5. Typed
  <2>1. file \in Files
    BY FilesTyped DEF Init
  <2>2. tor \in 0 .. MaxAdds /\ made \in Nat
    BY DEF Init
  <2> QED
    BY <1>3, <1>4, <2>1, <2>2 DEF Init, Typed
<1>6. Places
  BY <1>3 DEF Init, Places, MainPcs, ClientPcs, AddPcs
<1>7. Safe
  BY <1>3 DEF Init, Safe, WriterAlone, ReadStands, Readable, ShutdownSaves, Kept, At
<1> QED
  BY <1>5, <1>6, <1>7 DEF IInv

\* Steps that are about the Torrent objects or the workers only.
LEMMA Frame ==
    ASSUME IInv, UNCHANGED <<stage, mutex, tor, made, caller, file, owed, spoilt>>,
           torrent' \in [Torrents -> Objects]
    PROVE  IInv'
<1>1. Typed' /\ Places'
  BY DEF IInv, Typed, Places
<1>2. Safe'
  BY DEF IInv, Safe, WriterAlone, ReadStands, Readable, ShutdownSaves, Kept, At, load_state
<1> QED
  BY <1>1, <1>2 DEF IInv

\* The process dies: the file stands, unless it is empty.
LEMMA DieKeeps ==
    ASSUME IInv, Die
    PROVE  IInv'
<1>1. \A c \in Callers : caller'[c] = Idle /\ caller'[c].pc = "idle"
  BY IdleTyped DEF Die
<1>2. Typed'
  <2>1. torrent' \in [Torrents -> Objects]
    BY DEF Die, NoObject, Objects
  <2>2. caller' \in [Callers -> Work]
    BY IdleTyped DEF Die
  <2>3. stage' \in {"down", "restoring", "up", "stopping"} /\ tor' \in 0 .. MaxAdds
    BY DEF Die
  <2>4. made' \in Nat /\ file' \in Files /\ owed' \in BOOLEAN
    BY DEF Die, IInv, Typed
  <2>5. spoilt' \in BOOLEAN
    BY DEF Die, IInv, Typed
  <2> QED
    BY <2>1, <2>2, <2>3, <2>4, <2>5 DEF Typed
<1>3. Places'
  BY <1>1, MainIsCaller DEF Die, Places, MainPcs, ClientPcs, AddPcs
<1>4. WriterAlone' /\ ReadStands' /\ ShutdownSaves'
  BY <1>1, MainIsCaller DEF WriterAlone, ReadStands, ShutdownSaves, At
<1>5. Kept'
  <2> SUFFICES ASSUME owed', ~spoilt' PROVE load_state'.data
    BY DEF Kept, Die
  <2>1. owed /\ ~spoilt /\ file.kind # "empty" /\ file' = file
    BY DEF Die
  <2>2. ~At("main", "destroy_write")
    BY <2>1 DEF IInv, Safe, ShutdownSaves
  <2>3. load_state.data
    BY <2>1, <2>2 DEF IInv, Safe, Kept
  <2> QED
    BY <2>1, <2>3 DEF load_state
<1> QED
  BY <1>2, <1>3, <1>4, <1>5 DEF IInv, Safe

\* A caller goes on to pc.
LEMMA GotoTyped ==
    ASSUME Typed, NEW c \in Callers, NEW pc \in MainPcs \cup ClientPcs, Goto(c, pc)
    PROVE  /\ caller' \in [Callers -> Work]
           /\ caller'[c].pc = pc /\ caller'[c].saved = caller[c].saved
           /\ caller'[c].stale = caller[c].stale /\ caller'[c].inc = caller[c].inc
           /\ \A d \in Callers \ {c} : caller'[d] = caller[d]
<1> DEFINE new == [caller[c] EXCEPT !.pc = pc]
<1>1. caller' = [caller EXCEPT ![c] = new]
  BY DEF Goto
<1>2. /\ new \in Work /\ new.pc = pc /\ new.saved = caller[c].saved
      /\ new.stale = caller[c].stale /\ new.inc = caller[c].inc
  BY DEF Typed, Work
<1> HIDE DEF new
<1> QED
  BY <1>1, <1>2 DEF Typed

\* A caller is through.
LEMMA ReturnTyped ==
    ASSUME Typed, NEW c \in Callers, Return(c)
    PROVE  /\ caller' \in [Callers -> Work]
           /\ caller'[c].pc = "idle"
           /\ \A d \in Callers \ {c} : caller'[d] = caller[d]
           /\ stage' = IF stage = "restoring" THEN "up" ELSE stage
<1>1. caller' = [caller EXCEPT ![c] = Idle]
  BY DEF Return, LeaveFrom
<1> QED
  BY <1>1, IdleTyped DEF Typed, Return, LeaveFrom

\* Where an add may be.
LEMMA AdderPlace ==
    ASSUME IInv, NEW c \in Callers, NEW pc \in {"check", "construct", "insert", "write"}, At(c, pc)
    PROVE  /\ c = "main" => stage = "restoring"
           /\ c \in Clients => stage \in {"up", "stopping"}
<1>1. c \in Clients \/ c = "main"
  OBVIOUS
<1>2. CASE c = "main"
  BY <1>2 DEF IInv, Typed, Places, At
<1>3. CASE c \in Clients
  BY <1>3 DEF IInv, Typed, Places, At
<1> QED
  BY <1>1, <1>2, <1>3

\* Who writes holds mutex_, so there is one at most.
LEMMA OneWriter ==
    ASSUME IInv
    PROVE  /\ \A c, d \in Callers : At(c, "write") /\ At(d, "write") => c = d
           /\ \A c \in Callers : At(c, "write") => ~At("main", "destroy_write")
           /\ mutex \in {"free", "others"} =>
                ~At("main", "destroy_write") /\ \A c \in Callers : ~At(c, "write")
<1>1. \A c \in Callers : At(c, "write") => mutex = c
  BY DEF IInv, Safe, WriterAlone
<1>2. At("main", "destroy_write") => mutex = "main"
  BY DEF IInv, Safe, ShutdownSaves
<1>3. ~(At("main", "write") /\ At("main", "destroy_write"))
  BY DEF At
<1>4. "free" \notin Callers /\ "others" \notin Callers /\ "main" \in Callers
  OBVIOUS
<1> QED
  BY <1>1, <1>2, <1>3, <1>4

\* A caller goes on that does not save: what the file would restore stays.
LEMMA CallerMoves ==
    ASSUME IInv, NEW c \in Callers,
           UNCHANGED <<tor, file, owed, spoilt>>,
           \A d \in Callers \ {c} : caller'[d] = caller[d] /\ (mutex = d => mutex' = d),
           ~At(c, "write"), ~At(c, "destroy_write"),
           caller'[c].pc \notin {"write", "destroy_write"},
           caller'[c].pc = "insert" => caller'[c].saved = load_state,
           stage' = "up" => stage = "up" \/ tor # NoTorrent \/ ~load_state.data
    PROVE  Safe'
<1>1. load_state' = load_state
  BY DEF load_state
<1>2. \A d \in Callers : At(d, "write") <=> At(d, "write")'
  BY DEF At
<1>3. /\ At("main", "destroy_write") <=> At("main", "destroy_write")'
      /\ At("main", "destroy_write") => caller'["main"] = caller["main"] /\ c # "main"
  BY DEF At
<1>4. WriterAlone'
  <2> SUFFICES ASSUME NEW d \in Callers, At(d, "write")'
               PROVE  /\ mutex' = d /\ tor' # NoTorrent /\ ~owed'
                      /\ ~file'.data
                      /\ ~spoilt' => file'.kind = "empty"
    BY DEF WriterAlone
  <2>1. At(d, "write") /\ d # c
    BY <1>2 DEF At
  <2> QED
    BY <2>1 DEF IInv, Safe, WriterAlone
<1>5. Readable <=> Readable'
  BY <1>1, <1>2, <1>3 DEF Readable
<1>6. ReadStands'
  <2> SUFFICES ASSUME NEW d \in Callers, At(d, "insert")', ~caller'[d].stale, caller'[d].saved.data
               PROVE  Readable'
    BY DEF ReadStands
  <2>1. CASE d = c
    BY <1>1, <2>1 DEF Readable, At
  <2>2. CASE d # c
    BY <1>5, <2>2 DEF IInv, Safe, ReadStands, At
  <2> QED
    BY <2>1, <2>2
<1>7. ShutdownSaves'
  BY <1>3, MainIsCaller DEF IInv, Safe, ShutdownSaves
<1>8. Kept'
  BY <1>1, <1>3 DEF IInv, Safe, Kept
<1> QED
  BY <1>4, <1>6, <1>7, <1>8 DEF Safe

\* Threads of Swarm lock and unlock.
LEMMA OthersKeep ==
    ASSUME IInv, OthersLock \/ OthersUnlock
    PROVE  IInv'
<1>1. mutex \in {"free", "others"} /\ UNCHANGED <<stage, tor, made, torrent, caller, file, owed, spoilt>>
  BY DEF OthersLock, OthersUnlock, historyVars
<1>2. ~At("main", "destroy_write") /\ \A c \in Callers : ~At(c, "write")
  BY <1>1, OneWriter
<1>3. Typed' /\ Places'
  BY <1>1 DEF IInv, Typed, Places
<1>4. WriterAlone' /\ ShutdownSaves'
  BY <1>1, <1>2 DEF WriterAlone, ShutdownSaves, At
<1>5. ReadStands' /\ Kept'
  BY <1>1 DEF IInv, Safe, ReadStands, Readable, Kept, At, load_state
<1> QED
  BY <1>3, <1>4, <1>5 DEF IInv, Safe

LEMMA BootKeeps ==
    ASSUME IInv, Boot
    PROVE  IInv'
<1>1. Goto("main", "restore") /\ stage = "down" /\ stage' = "restoring"
      /\ UNCHANGED <<mutex, tor, made, torrent, file, owed, spoilt>>
  BY DEF Boot, Goto, historyVars
<1>2. /\ caller' \in [Callers -> Work]
      /\ caller'["main"].pc = "restore"
      /\ \A d \in Callers \ {"main"} : caller'[d] = caller[d]
  BY <1>1, GotoTyped DEF IInv, MainPcs
<1>3. \A d \in Callers \ {"main"} : caller[d].pc = "idle"
  BY <1>1 DEF IInv, Places
<1>4. Typed'
  BY <1>1, <1>2 DEF IInv, Typed
<1>5. Places'
  BY <1>1, <1>2, <1>3 DEF Places, MainPcs, ClientPcs, AddPcs
<1>6. Safe'
  <2>1. caller["main"].pc = "idle"
    BY <1>1 DEF IInv, Places
  <2> QED
    BY <1>1, <1>2, <2>1, MainIsCaller, CallerMoves DEF At
<1> QED
  BY <1>4, <1>5, <1>6 DEF IInv

LEMMA RestoreKeeps ==
    ASSUME IInv, restore_torrents
    PROVE  IInv'
<1>1. At("main", "restore") /\ stage = "restoring"
      /\ UNCHANGED <<mutex, tor, made, torrent, file, owed, spoilt>>
  BY DEF restore_torrents, historyVars, IInv, Typed, Places, At
<1>2. /\ caller' \in [Callers -> Work]
      /\ \A d \in Callers \ {"main"} : caller'[d] = caller[d]
      /\ \/ caller'["main"].pc = "check" /\ stage' = "restoring"
         \/ caller'["main"].pc = "idle" /\ stage' = "up" /\ ~load_state.data
  <2>1. CASE load_state.data
    <3>1. Goto("main", "check") /\ stage' = stage
      BY <2>1 DEF restore_torrents
    <3> QED
      BY <1>1, <3>1, GotoTyped DEF IInv, MainPcs
  <2>2. CASE ~load_state.data
    <3>1. Return("main")
      BY <2>2 DEF restore_torrents
    <3> QED
      BY <1>1, <2>2, <3>1, ReturnTyped DEF IInv
  <2> QED
    BY <2>1, <2>2
<1>3. \A d \in Callers \ {"main"} : caller[d].pc = "idle"
  BY <1>1 DEF IInv, Places
<1>4. Typed'
  BY <1>1, <1>2 DEF IInv, Typed
<1>5. Places'
  BY <1>2, <1>3 DEF Places, MainPcs, ClientPcs, AddPcs
<1>6. Safe'
  BY <1>1, <1>2, MainIsCaller, CallerMoves DEF At
<1> QED
  BY <1>4, <1>5, <1>6 DEF IInv

\* The first check of an add moves the caller only.
LEMMA AddCheckKeeps ==
    ASSUME IInv, NEW c \in Callers, AddCheck(c)
    PROVE  IInv'
<1>1. /\ c = "main" => stage = "restoring"
      /\ c \in Clients => stage \in {"up", "stopping"}
      /\ ~At(c, "write") /\ ~At(c, "destroy_write")
  <2>1. CASE At(c, "check")
    BY <2>1, AdderPlace DEF At
  <2>2. CASE Free(c)
    BY <2>2 DEF Free, IInv, Places, At
  <2> QED
    BY <2>1, <2>2 DEF AddCheck
<1>2. UNCHANGED <<mutex, tor, made, torrent, file, owed, spoilt>>
  BY DEF AddCheck, historyVars
<1>3. /\ caller' \in [Callers -> Work]
      /\ \A d \in Callers \ {c} : caller'[d] = caller[d]
      /\ \/ caller'[c].pc = "construct" /\ stage' = stage
         \/ /\ caller'[c].pc = "idle" /\ tor # NoTorrent
            /\ stage' = IF stage = "restoring" THEN "up" ELSE stage
  <2>1. CASE tor = NoTorrent
    <3>1. Goto(c, "construct") /\ stage' = stage
      BY <2>1 DEF AddCheck
    <3> QED
      BY <3>1, GotoTyped DEF IInv, MainPcs, AddPcs
  <2>2. CASE tor # NoTorrent
    <3>1. Return(c)
      BY <2>2 DEF AddCheck
    <3> QED
      BY <2>2, <3>1, ReturnTyped DEF IInv
  <2> QED
    BY <2>1, <2>2
<1>4. Typed'
  BY <1>2, <1>3 DEF IInv, Typed
<1>5. Places'
  BY <1>1, <1>3 DEF IInv, Places, MainPcs, ClientPcs, AddPcs
<1>6. Safe'
  BY <1>1, <1>2, <1>3, CallerMoves
<1> QED
  BY <1>4, <1>5, <1>6 DEF IInv

\* The state is read: data that were read are in the file.
LEMMA AddConstructKeeps ==
    ASSUME IInv, NEW c \in Callers, AddConstruct(c)
    PROVE  IInv'
<1>1. /\ c = "main" => stage = "restoring"
      /\ c \in Clients => stage \in {"up", "stopping"}
      /\ ~At(c, "write") /\ ~At(c, "destroy_write")
  BY AdderPlace DEF AddConstruct, At
<1>2. UNCHANGED <<stage, mutex, tor, made, torrent, file, owed, spoilt>>
  BY DEF AddConstruct, historyVars
<1>3. load_state \in Files
  BY LoadTyped DEF IInv, Typed
<1> DEFINE new == [caller[c] EXCEPT !.saved = load_state, !.pc = "insert"]
<1>4. caller' = [caller EXCEPT ![c] = new]
  BY DEF AddConstruct
<1>5. new \in Work /\ new.pc = "insert" /\ new.saved = load_state
  BY <1>3 DEF IInv, Typed, Work, MainPcs, AddPcs
<1> HIDE DEF new
<1>6. /\ caller' \in [Callers -> Work]
      /\ caller'[c].pc = "insert" /\ caller'[c].saved = load_state
      /\ \A d \in Callers \ {c} : caller'[d] = caller[d]
  BY <1>4, <1>5 DEF IInv, Typed
<1>7. Typed'
  BY <1>2, <1>6 DEF IInv, Typed
<1>8. Places'
  BY <1>1, <1>2, <1>6 DEF IInv, Places, MainPcs, ClientPcs, AddPcs
<1>9. Safe'
  BY <1>1, <1>2, <1>6, CallerMoves
<1> QED
  BY <1>7, <1>8, <1>9 DEF IInv

\* The second check and the entry into the map.
LEMMA AddInsertKeeps ==
    ASSUME IInv, NEW c \in Callers, AddInsert(c)
    PROVE  IInv'
<1>1. /\ c = "main" => stage = "restoring"
      /\ c \in Clients => stage \in {"up", "stopping"}
      /\ At(c, "insert") /\ mutex = "free"
  BY AdderPlace DEF AddInsert
<1>2. ~At("main", "destroy_write") /\ \A d \in Callers : ~At(d, "write")
  BY <1>1, OneWriter
<1>3. CASE tor # NoTorrent
  <2>1. Return(c) /\ UNCHANGED <<mutex, tor, made, torrent, file, owed, spoilt>>
    BY <1>3 DEF AddInsert, historyVars
  <2>2. /\ caller' \in [Callers -> Work]
        /\ \A d \in Callers \ {c} : caller'[d] = caller[d]
        /\ caller'[c].pc = "idle"
        /\ stage' = IF stage = "restoring" THEN "up" ELSE stage
    BY <2>1, ReturnTyped DEF IInv
  <2>3. Typed'
    BY <2>1, <2>2 DEF IInv, Typed
  <2>4. Places'
    BY <1>1, <2>2 DEF IInv, Places, MainPcs, ClientPcs, AddPcs
  <2>5. Safe'
    BY <1>1, <1>3, <2>1, <2>2, CallerMoves DEF At
  <2> QED
    BY <2>3, <2>4, <2>5 DEF IInv
<1>4. CASE tor = NoTorrent
  <2> DEFINE saved == caller[c].saved
             save == /\ MustSave(saved)
                     /\ Truncate /\ mutex' = c
                     /\ Goto(c, "write")
                     /\ owed' = FALSE /\ spoilt' = caller[c].stale
                     /\ UNCHANGED stage
             done == /\ Return(c)
                     /\ owed' = TRUE /\ spoilt' = (caller[c].stale \/ MustSave(saved))
                     /\ UNCHANGED <<mutex, file>>
  <2>1. /\ made + 1 \in Torrents /\ made' = made + 1 /\ tor' = made + 1
        /\ torrent' = [torrent EXCEPT ![made + 1] =
                         [NoObject EXCEPT !.status = "live", !.have = saved.bits]]
        /\ save \/ done
    BY <1>4 DEF AddInsert
  <2>2. saved \in Files /\ caller[c].stale \in BOOLEAN /\ MustSave(saved) \in BOOLEAN
    BY DEF IInv, Typed, Work, MustSave
  <2>3. torrent' \in [Torrents -> Objects]
    <3>1. [NoObject EXCEPT !.status = "live", !.have = saved.bits] \in Objects
      BY <2>2 DEF NoObject, Objects, Files
    <3> QED
      BY <2>1, <3>1 DEF IInv, Typed
  <2>4. tor' \in 0 .. MaxAdds /\ tor' # NoTorrent /\ made' \in Nat
    BY <2>1 DEF IInv, Typed
  <2>5. CASE save
    <3>1. /\ caller' \in [Callers -> Work]
          /\ \A d \in Callers \ {c} : caller'[d] = caller[d]
          /\ caller'[c].pc = "write"
      BY <2>5, GotoTyped DEF IInv, MainPcs, AddPcs
    <3>2. file' = Empty /\ file' \in Files /\ file'.kind = "empty" /\ file'.data = FALSE
      BY <2>5, FilesTyped DEF Empty, Truncate
    <3>3. Typed'
      BY <2>2, <2>3, <2>4, <2>5, <3>1, <3>2 DEF IInv, Typed
    <3>4. Places'
      BY <1>1, <2>5, <3>1 DEF IInv, Places, MainPcs, ClientPcs, AddPcs
    <3>5. WriterAlone'
      BY <1>2, <2>4, <2>5, <3>1, <3>2 DEF WriterAlone, At
    <3>6. ReadStands'
      BY <3>1, <3>2 DEF ReadStands, Readable, At
    <3>7. ShutdownSaves' /\ Kept'
      BY <1>2, <2>5, <3>1, MainIsCaller DEF ShutdownSaves, Kept, At
    <3> QED
      BY <3>3, <3>4, <3>5, <3>6, <3>7 DEF IInv, Safe
  <2>6. CASE done
    <3>1. /\ caller' \in [Callers -> Work]
          /\ \A d \in Callers \ {c} : caller'[d] = caller[d]
          /\ caller'[c].pc = "idle"
          /\ stage' = IF stage = "restoring" THEN "up" ELSE stage
      BY <2>6, ReturnTyped DEF IInv
    <3>2. Typed'
      BY <2>2, <2>3, <2>4, <2>6, <3>1 DEF IInv, Typed
    <3>3. Places'
      BY <1>1, <3>1 DEF IInv, Places, MainPcs, ClientPcs, AddPcs
    <3>4. WriterAlone' /\ ShutdownSaves'
      BY <1>2, <3>1, MainIsCaller DEF WriterAlone, ShutdownSaves, At
    <3>5. load_state' = load_state /\ (Readable => load_state.data)
      BY <1>2, <2>6 DEF load_state, Readable
    <3>6. ReadStands'
      BY <3>1, <3>5 DEF IInv, Safe, ReadStands, Readable, At
    <3>7. Kept'
      <4>1. ~spoilt' => saved.data /\ ~caller[c].stale
        BY <2>2, <2>6 DEF MustSave, Files
      <4> QED
        BY <1>1, <2>4, <3>5, <4>1 DEF IInv, Safe, ReadStands, Kept
    <3> QED
      BY <3>2, <3>3, <3>4, <3>6, <3>7 DEF IInv, Safe
  <2> QED
    BY <2>1, <2>5, <2>6
<1> QED
  BY <1>3, <1>4

\* A save overtakes every add that has read the file.
LEMMA Overtaken ==
    ASSUME Typed, NEW c \in Callers, NEW new \in Work,
           caller' = [Overtakes(c) EXCEPT ![c] = new]
    PROVE  /\ caller' \in [Callers -> Work]
           /\ caller'[c] = new
           /\ \A d \in Callers \ {c} :
                /\ caller'[d].pc = caller[d].pc /\ caller'[d].saved = caller[d].saved
                /\ caller'[d].inc = caller[d].inc
                /\ At(d, "insert") => caller'[d].stale
<1> DEFINE old(d) == [caller[d] EXCEPT !.stale = @ \/ At(d, "insert")]
<1>1. Overtakes(c) = [d \in Callers |-> old(d)]
  BY DEF Overtakes
<1>2. \A d \in Callers : /\ old(d) \in Work
                         /\ old(d).pc = caller[d].pc /\ old(d).saved = caller[d].saved
                         /\ old(d).inc = caller[d].inc
                         /\ At(d, "insert") => old(d).stale
  BY DEF Typed, Work, At
<1> HIDE DEF old
<1>3. caller' = [d \in Callers |-> IF d = c THEN new ELSE old(d)]
  BY <1>1
<1>4. caller' \in [Callers -> Work]
  BY <1>2, <1>3
<1>5. caller'[c] = new /\ \A d \in Callers \ {c} : caller'[d] = old(d)
  BY <1>3
<1>6. ASSUME NEW d \in Callers \ {c}
      PROVE  /\ caller'[d].pc = caller[d].pc /\ caller'[d].saved = caller[d].saved
             /\ caller'[d].inc = caller[d].inc
             /\ At(d, "insert") => caller'[d].stale
  BY <1>2, <1>5
<1> QED
  BY <1>4, <1>5, <1>6

\* The same where the caller keeps its record but for pc and saved.
LEMMA OvertakesTyped ==
    ASSUME Typed, NEW c \in Callers,
           NEW pc \in MainPcs \cup ClientPcs, NEW saved \in Files,
           caller' = [Overtakes(c) EXCEPT ![c].pc = pc, ![c].saved = saved]
    PROVE  /\ caller' \in [Callers -> Work]
           /\ caller'[c].pc = pc /\ caller'[c].saved = saved /\ caller'[c].inc = caller[c].inc
           /\ \A d \in Callers \ {c} :
                /\ caller'[d].pc = caller[d].pc /\ caller'[d].saved = caller[d].saved
                /\ caller'[d].inc = caller[d].inc
                /\ At(d, "insert") => caller'[d].stale
<1> DEFINE own == [Overtakes(c)[c] EXCEPT !.pc = pc, !.saved = saved]
<1>1. caller' = [Overtakes(c) EXCEPT ![c] = own]
  BY DEF Overtakes
<1>2. own \in Work /\ own.pc = pc /\ own.saved = saved /\ own.inc = caller[c].inc
  <2>1. Overtakes(c)[c] = [caller[c] EXCEPT !.stale = @ \/ At(c, "insert")]
    BY DEF Overtakes
  <2>2. Overtakes(c)[c] \in Work /\ Overtakes(c)[c].inc = caller[c].inc
    <3>1. caller[c] \in Work /\ caller[c].stale \in BOOLEAN /\ At(c, "insert") \in BOOLEAN
      BY DEF Typed, Work, At
    <3>2. \A x \in Work, b \in BOOLEAN : LET y == [x EXCEPT !.stale = b]
                                        IN  y \in Work /\ y.inc = x.inc
      BY DEF Work
    <3> QED
      BY ONLY <2>1, <3>1, <3>2
  <2> DEFINE o == Overtakes(c)[c]
  <2>3. o \in Work /\ o.inc = caller[c].inc
    BY <2>2
  <2> HIDE DEF o
  <2>4. \A x \in Work : LET y == [x EXCEPT !.pc = pc, !.saved = saved]
                        IN  y \in Work /\ y.pc = pc /\ y.saved = saved /\ y.inc = x.inc
    BY DEF Work
  <2>5. own = [o EXCEPT !.pc = pc, !.saved = saved]
    BY DEF o
  <2> HIDE DEF own
  <2> QED
    BY <2>3, <2>4, <2>5
<1> HIDE DEF own
<1> QED
  BY <1>1, <1>2, Overtaken

\* The write of an add under mutex_ completes the file, finds what a remove left
\* there, or fails.
LEMMA AddWriteKeeps ==
    ASSUME IInv, NEW c \in Callers, AddWrite(c)
    PROVE  IInv'
<1>1. /\ c = "main" => stage = "restoring"
      /\ c \in Clients => stage \in {"up", "stopping"}
      /\ At(c, "write")
  BY AdderPlace DEF AddWrite
<1>2. /\ mutex = c /\ tor # NoTorrent /\ ~file.data
      /\ ~spoilt => file.kind = "empty"
  BY <1>1 DEF IInv, Safe, WriterAlone
<1>3. ~At("main", "destroy_write") /\ \A d \in Callers \ {c} : ~At(d, "write")
  BY <1>1, OneWriter
<1>4. owed' = TRUE /\ UNCHANGED <<tor, made, torrent>>
  BY DEF AddWrite
<1> DEFINE s == State(TRUE, caller[c].saved.bits)
<1>5. s \in Files /\ s.kind = "state" /\ s.data = TRUE
  BY FilesTyped DEF IInv, Typed, Work, Files, State
<1>6. \/ Write(s) /\ Return(c) /\ UNCHANGED spoilt
      \/ WriteFails /\ LeaveFrom(Overtakes(c), c) /\ spoilt' = TRUE
  BY DEF AddWrite
<1> HIDE DEF s
<1>7. /\ caller' \in [Callers -> Work]
      /\ caller'[c].pc = "idle"
      /\ \A d \in Callers \ {c} : /\ caller'[d].pc = caller[d].pc
                                  /\ caller'[d].saved = caller[d].saved
                                  /\ caller'[d].inc = caller[d].inc
      /\ stage' = IF stage = "restoring" THEN "up" ELSE stage
  <2>1. CASE Return(c) /\ spoilt' = spoilt
    BY <2>1, ReturnTyped DEF IInv
  <2>2. CASE LeaveFrom(Overtakes(c), c) /\ spoilt' = TRUE
    <3>1. caller' = [Overtakes(c) EXCEPT ![c] = Idle]
          /\ stage' = IF stage = "restoring" THEN "up" ELSE stage
      BY <2>2 DEF LeaveFrom
    <3> QED
      BY <2>2, <3>1, IdleTyped, Overtaken DEF IInv
  <2> QED
    BY <1>6, <2>1, <2>2
<1>8. file' \in Files /\ spoilt' \in BOOLEAN
  BY <1>5, <1>6, FilesTyped DEF Write, WriteFails, IInv, Typed
<1>9. Typed'
  BY <1>4, <1>7, <1>8 DEF IInv, Typed
<1>10. Places'
  BY <1>1, <1>7 DEF IInv, Places, MainPcs, ClientPcs, AddPcs
<1>11. WriterAlone' /\ ShutdownSaves'
  BY <1>3, <1>7, MainIsCaller DEF WriterAlone, ShutdownSaves, At
<1>12. CASE Write(s) /\ Return(c) /\ UNCHANGED spoilt
  <2>1. file.kind = "empty" => load_state'.data
    BY <1>5, <1>12 DEF Write, load_state
  <2>2. ReadStands'
    <3> SUFFICES ASSUME NEW d \in Callers, At(d, "insert")', ~caller'[d].stale, caller'[d].saved.data
                 PROVE  load_state'.data
      BY DEF ReadStands, Readable
    <3>1. d # c /\ caller'[d] = caller[d]
      BY <1>7, <1>12, ReturnTyped DEF At, IInv
    <3>2. Readable
      BY <3>1 DEF IInv, Safe, ReadStands, At
    <3>3. ~load_state.data
      BY <1>2, LoadTyped DEF IInv, Typed
    <3> QED
      BY <2>1, <3>2, <3>3 DEF Readable
  <2>3. Kept'
    BY <1>2, <1>4, <1>12, <2>1 DEF Kept
  <2> QED
    BY <1>9, <1>10, <1>11, <2>2, <2>3 DEF IInv, Safe
<1>13. CASE WriteFails /\ LeaveFrom(Overtakes(c), c) /\ spoilt' = TRUE
  <2>1. caller' = [Overtakes(c) EXCEPT ![c] = Idle]
    BY <1>13 DEF LeaveFrom
  <2>2. \A d \in Callers \ {c} : At(d, "insert") => caller'[d].stale
    BY <2>1, IdleTyped, Overtaken DEF IInv
  <2>3. ReadStands'
    BY <1>7, <2>2 DEF ReadStands, At
  <2>4. Kept'
    BY <1>13 DEF Kept
  <2> QED
    BY <1>9, <1>10, <1>11, <2>3, <2>4 DEF IInv, Safe
<1> QED
  BY <1>6, <1>12, <1>13

\* Where a remove may be.
LEMMA RemoverPlace ==
    ASSUME IInv, NEW c \in Callers, NEW pc \in {"save", "remove_write", "join", "destruct"}, At(c, pc)
    PROVE  /\ c \in Clients /\ c # "main" /\ stage \in {"up", "stopping"}
           /\ caller[c].inc \in Torrents
<1>1. c \in Clients
  BY DEF IInv, Places, At, MainPcs, AddPcs
<1>2. stage \in {"up", "stopping"} /\ caller[c].inc # NoTorrent
  BY <1>1 DEF IInv, Places, At
<1>3. caller[c].inc \in 0 .. MaxAdds
  BY DEF IInv, Typed, Work
<1> QED
  BY <1>1, <1>2, <1>3

\* A remove's save, its truncation or its write: whoever wrote or read before is
\* overtaken, and what was owed is spoilt.
LEMMA RemoveSpoils ==
    ASSUME IInv, NEW c \in Clients,
           UNCHANGED <<mutex, tor, owed>>,
           spoilt' = (spoilt \/ tor # NoTorrent \/ owed),
           file' = file \/ ~file'.data,
           caller'[c].pc \in {"remove_write", "join"},
           \A d \in Callers \ {c} :
             /\ caller'[d].pc = caller[d].pc /\ caller'[d].saved = caller[d].saved
             /\ At(d, "insert") => caller'[d].stale
    PROVE  Safe'
<1>1. c # "main" /\ caller'["main"].pc = caller["main"].pc
      /\ caller'["main"].saved = caller["main"].saved
  OBVIOUS
<1>2. WriterAlone'
  BY DEF IInv, Safe, WriterAlone, At
<1>3. ReadStands'
  BY DEF ReadStands, At
<1>4. ShutdownSaves'
  BY <1>1 DEF IInv, Safe, ShutdownSaves, At
<1>5. Kept'
  BY DEF IInv, Typed, Kept
<1> QED
  BY <1>2, <1>3, <1>4, <1>5 DEF Safe

LEMMA RemoveSaveKeeps ==
    ASSUME IInv, NEW c \in Callers, RemoveSave(c)
    PROVE  IInv'
<1>1. /\ c \in Clients /\ c # "main" /\ stage \in {"up", "stopping"}
      /\ caller[c].inc \in Torrents /\ At(c, "save")
  BY RemoverPlace DEF RemoveSave
<1>2. UNCHANGED <<stage, mutex, tor, made, owed>>
  BY DEF RemoveSave
<1>3. torrent' \in [Torrents -> Objects]
  <2>1. torrent' = [torrent EXCEPT ![caller[c].inc] = [torrent[caller[c].inc] EXCEPT !.have = {}]]
    BY DEF RemoveSave
  <2>2. [torrent[caller[c].inc] EXCEPT !.have = {}] \in Objects
    BY <1>1 DEF IInv, Typed, Objects
  <2> QED
    BY <2>1, <2>2 DEF IInv, Typed
<1> DEFINE s == State(FALSE, torrent[caller[c].inc].have)
           save == /\ Truncate
                   /\ caller' = [Overtakes(c) EXCEPT ![c].pc = "remove_write", ![c].saved = s]
                   /\ spoilt' = (spoilt \/ tor # NoTorrent \/ owed)
<1>4. save \/ (Goto(c, "join") /\ UNCHANGED <<file, spoilt>>)
  BY DEF RemoveSave
<1>5. CASE Goto(c, "join") /\ UNCHANGED <<file, spoilt>>
  <2>1. /\ caller' \in [Callers -> Work]
        /\ caller'[c].pc = "join" /\ caller'[c].inc = caller[c].inc
        /\ \A d \in Callers \ {c} : caller'[d] = caller[d]
    BY <1>5, GotoTyped DEF IInv, ClientPcs
  <2>2. Typed'
    BY <1>2, <1>3, <1>5, <2>1 DEF IInv, Typed
  <2>3. Places'
    BY <1>1, <1>2, <2>1 DEF IInv, Places, MainPcs, ClientPcs, AddPcs
  <2>4. Safe'
    BY <1>1, <1>2, <1>5, <2>1, CallerMoves DEF At
  <2> QED
    BY <2>2, <2>3, <2>4 DEF IInv
<1>6. CASE save
  <2>1. s \in Files /\ s.data = FALSE
    BY <1>1, FilesTyped DEF IInv, Typed, Objects, State
  <2> HIDE DEF s
  <2>2. /\ caller' \in [Callers -> Work]
        /\ caller'[c].pc = "remove_write" /\ caller'[c].saved = s /\ caller'[c].inc = caller[c].inc
        /\ \A d \in Callers \ {c} :
             /\ caller'[d].pc = caller[d].pc /\ caller'[d].saved = caller[d].saved
             /\ caller'[d].inc = caller[d].inc
             /\ At(d, "insert") => caller'[d].stale
    BY <1>6, <2>1, OvertakesTyped DEF IInv, ClientPcs
  <2>3. file' \in Files /\ ~file'.data
    BY <1>6, FilesTyped DEF Empty, Truncate
  <2>4. Typed'
    BY <1>2, <1>3, <1>6, <2>2, <2>3 DEF IInv, Typed
  <2>5. Places'
    BY <1>1, <1>2, <2>1, <2>2 DEF IInv, Places, MainPcs, ClientPcs, AddPcs
  <2>6. Safe'
    BY <1>1, <1>2, <1>6, <2>2, <2>3, RemoveSpoils
  <2> QED
    BY <2>4, <2>5, <2>6 DEF IInv
<1> QED
  BY <1>4, <1>5, <1>6

LEMMA RemoveWriteKeeps ==
    ASSUME IInv, NEW c \in Callers, RemoveWrite(c)
    PROVE  IInv'
<1>1. /\ c \in Clients /\ c # "main" /\ stage \in {"up", "stopping"}
      /\ caller[c].inc \in Torrents /\ At(c, "remove_write")
  BY RemoverPlace DEF RemoveWrite
<1>2. spoilt' = (spoilt \/ tor # NoTorrent \/ owed)
      /\ UNCHANGED <<stage, mutex, tor, made, torrent, owed>>
  BY DEF RemoveWrite
<1>3. caller[c].saved \in Files /\ ~caller[c].saved.data
  BY <1>1 DEF IInv, Typed, Work, Places, At
<1>4. file' \in Files /\ (file' = file \/ ~file'.data)
  <2>1. file' = caller[c].saved \/ file' = Garbled \/ file' = file
    BY DEF RemoveWrite, Write, WriteFails
  <2>2. ~Garbled.data
    BY DEF Garbled
  <2> QED
    BY <1>3, <2>1, <2>2, FilesTyped DEF IInv, Typed
<1>5. caller' = [Overtakes(c) EXCEPT ![c].pc = "join", ![c].saved = Absent]
  BY DEF RemoveWrite
<1>6. /\ caller' \in [Callers -> Work]
      /\ caller'[c].pc = "join" /\ caller'[c].inc = caller[c].inc
      /\ \A d \in Callers \ {c} :
           /\ caller'[d].pc = caller[d].pc /\ caller'[d].saved = caller[d].saved
           /\ caller'[d].inc = caller[d].inc
           /\ At(d, "insert") => caller'[d].stale
  BY <1>5, FilesTyped, OvertakesTyped DEF IInv, ClientPcs
<1>7. Typed'
  BY <1>2, <1>4, <1>6 DEF IInv, Typed
<1>8. Places'
  BY <1>1, <1>2, <1>6 DEF IInv, Places, MainPcs, ClientPcs, AddPcs
<1>9. Safe'
  BY <1>1, <1>2, <1>4, <1>6, RemoveSpoils
<1> QED
  BY <1>7, <1>8, <1>9 DEF IInv

\* The workers are joined, then the Torrent is freed.
LEMMA RemoveJoinKeeps ==
    ASSUME IInv, NEW c \in Callers, RemoveJoin(c) \/ RemoveDestroy(c)
    PROVE  IInv'
<1>1. /\ c \in Clients /\ c # "main" /\ stage \in {"up", "stopping"}
      /\ At(c, "join") \/ At(c, "destruct")
  BY RemoverPlace DEF RemoveJoin, RemoveDestroy
<1>2. UNCHANGED <<tor, made, file, owed, spoilt>> /\ (mutex' = mutex \/ mutex = c)
  BY DEF RemoveJoin, RemoveDestroy, historyVars
<1>3. /\ caller' \in [Callers -> Work]
      /\ \A d \in Callers \ {c} : caller'[d] = caller[d]
      /\ \/ caller'[c].pc = "idle"
         \/ caller'[c].pc = "destruct" /\ caller'[c].inc = caller[c].inc
      /\ stage' = stage
  <2>1. CASE RemoveJoin(c)
    BY <2>1, GotoTyped DEF RemoveJoin, IInv, ClientPcs
  <2>2. CASE RemoveDestroy(c)
    BY <1>1, <2>2, ReturnTyped DEF RemoveDestroy, IInv
  <2> QED
    BY <2>1, <2>2
<1>4. torrent' \in [Torrents -> Objects]
  <2>1. [NoObject EXCEPT !.status = "freed"] \in Objects
    BY DEF NoObject, Objects
  <2> QED
    BY <2>1 DEF RemoveJoin, RemoveDestroy, IInv, Typed
<1>5. Typed'
  BY <1>2, <1>3, <1>4 DEF IInv, Typed
<1>6. Places'
  <2>1. caller[c].inc # NoTorrent
    BY <1>1 DEF IInv, Places, At
  <2> QED
    BY <1>1, <1>3, <2>1 DEF IInv, Places, MainPcs, ClientPcs, AddPcs
<1>7. Safe'
  BY <1>1, <1>2, <1>3, CallerMoves DEF At
<1> QED
  BY <1>5, <1>6, <1>7 DEF IInv

\* The Torrent leaves the map, and nothing is owed.
LEMMA RemoveKeeps ==
    ASSUME IInv, NEW c \in Clients, Remove(c)
    PROVE  IInv'
<1>1. stage \in {"up", "stopping"} /\ mutex = "free" /\ tor \in Torrents
  BY DEF Remove, Free, IInv, Typed
<1>2. tor' = NoTorrent /\ owed' = FALSE /\ UNCHANGED <<stage, mutex, made, file, spoilt>>
  BY DEF Remove
<1>3. torrent' \in [Torrents -> Objects]
  <2>1. Leaving(torrent[tor]) \in Objects
    BY <1>1 DEF IInv, Typed, Leaving, NoObject, Objects
  <2>2. torrent' = [torrent EXCEPT ![tor] = Leaving(torrent[tor])]
    BY DEF Remove
  <2> QED
    BY <2>1, <2>2 DEF IInv, Typed
<1> DEFINE new == [caller[c] EXCEPT !.pc = "save", !.inc = tor]
<1>4. caller' = [caller EXCEPT ![c] = new]
  BY DEF Remove
<1>5. new \in Work /\ new.pc = "save" /\ new.inc = tor
  <2>1. caller[c] \in Work /\ tor \in 0 .. MaxAdds /\ "save" \in ClientPcs
    BY DEF IInv, Typed, ClientPcs
  <2> QED
    BY <2>1 DEF Work
<1> HIDE DEF new
<1>6. /\ caller' \in [Callers -> Work]
      /\ caller'[c].pc = "save" /\ caller'[c].inc # NoTorrent
      /\ \A d \in Callers \ {c} : caller'[d] = caller[d]
  BY <1>1, <1>4, <1>5 DEF IInv, Typed
<1>7. Typed'
  <2>1. tor' \in 0 .. MaxAdds
    BY <1>2
  <2> QED
    BY <1>2, <1>3, <1>6, <2>1 DEF IInv, Typed
<1>8. Places'
  BY <1>1, <1>2, <1>6 DEF IInv, Places, MainPcs, ClientPcs, AddPcs
<1>9. /\ \A d \in Callers : ~At(d, "write") /\ ~At(d, "write")'
      /\ ~At("main", "destroy_write") /\ ~At("main", "destroy_write")'
  BY <1>1, <1>6, OneWriter, MainIsCaller DEF At
<1>10. WriterAlone' /\ ShutdownSaves' /\ Kept'
  BY <1>1, <1>2, <1>6, <1>9, MainIsCaller DEF WriterAlone, ShutdownSaves, Kept, At
<1>11. ReadStands'
  BY <1>2, <1>6, <1>9 DEF IInv, Safe, ReadStands, Readable, At, load_state
<1> QED
  BY <1>7, <1>8, <1>10, <1>11 DEF IInv, Safe

\* The destructor's first record of main.
LEMMA ShutdownTyped ==
    ASSUME Typed, NEW pc \in {"destroy_write", "destroy_join"}, NEW saved \in Files,
           Shutdown(pc, tor, saved)
    PROVE  /\ caller' \in [Callers -> Work]
           /\ caller'["main"].pc = pc /\ caller'["main"].saved = saved
           /\ \A d \in Callers \ {"main"} : caller'[d] = caller[d]
<1> DEFINE new == [pc |-> pc, inc |-> tor, saved |-> saved, stale |-> FALSE]
<1>1. caller' = [caller EXCEPT !["main"] = new]
  BY DEF Shutdown
<1>2. new \in Work /\ new.pc = pc /\ new.saved = saved
  BY DEF Typed, Work, MainPcs
<1> HIDE DEF new
<1> QED
  BY <1>1, <1>2, MainIsCaller DEF Typed

\* The destructor reads the state, truncates the file ...
LEMMA DestroyKeeps ==
    ASSUME IInv, Destroy
    PROVE  IInv'
<1>1. stage = "up" /\ mutex = "free" /\ caller["main"].pc = "idle"
      /\ stage' = "stopping" /\ UNCHANGED <<made, owed, spoilt>>
  BY DEF Destroy, At, historyVars
<1>2. ~At("main", "destroy_write") /\ \A d \in Callers : ~At(d, "write")
  BY <1>1, OneWriter
<1> DEFINE s == State(load_state.data, torrent[tor].have)
           save == /\ tor # NoTorrent
                   /\ Truncate /\ mutex' = "main"
                   /\ torrent' = [torrent EXCEPT ![tor].stopping = TRUE]
                   /\ Shutdown("destroy_write", tor, s)
                   /\ UNCHANGED tor
           skip == /\ torrent' = IF tor = NoTorrent THEN torrent
                        ELSE [torrent EXCEPT ![tor] = [Leaving(@) EXCEPT !.have = {}]]
                   /\ Shutdown("destroy_join", tor, Absent)
                   /\ tor' = NoTorrent
                   /\ UNCHANGED <<mutex, file>>
<1>3. save \/ skip
  BY DEF Destroy
<1>4. CASE save
  <2>1. tor \in Torrents
    BY <1>4 DEF IInv, Typed
  <2>2. torrent' \in [Torrents -> Objects]
    <3>1. torrent' = [torrent EXCEPT ![tor] = [torrent[tor] EXCEPT !.stopping = TRUE]]
      BY <1>4
    <3>2. [torrent[tor] EXCEPT !.stopping = TRUE] \in Objects
      BY <2>1 DEF IInv, Typed, Objects
    <3> QED
      BY <3>1, <3>2 DEF IInv, Typed
  <2>3. s \in Files /\ s.kind = "state" /\ s.data = load_state.data
    <3>1. load_state.data \in BOOLEAN /\ torrent[tor].have \in SUBSET Pieces
      BY <2>1, LoadTyped DEF IInv, Typed, Files, Objects
    <3> QED
      BY <3>1, FilesTyped DEF State
  <2> HIDE DEF s
  <2>4. /\ caller' \in [Callers -> Work]
        /\ caller'["main"].pc = "destroy_write" /\ caller'["main"].saved = s
        /\ \A d \in Callers \ {"main"} : caller'[d] = caller[d]
    BY <1>4, <2>3, ShutdownTyped DEF IInv
  <2>5. file' \in Files /\ file'.kind = "empty" /\ ~file'.data /\ mutex' = "main" /\ tor' = tor
    BY <1>4, FilesTyped DEF Empty, Truncate
  <2>6. Typed'
    BY <1>1, <2>2, <2>4, <2>5 DEF IInv, Typed
  <2>7. Places'
    BY <1>1, <2>4 DEF IInv, Places, MainPcs, ClientPcs, AddPcs
  <2>8. WriterAlone' /\ Kept'
    BY <1>2, <2>4 DEF WriterAlone, Kept, At
  <2>9. ReadStands'
    <3> SUFFICES ASSUME NEW d \in Callers, At(d, "insert")', ~caller'[d].stale, caller'[d].saved.data
                 PROVE  s.data
      BY <2>4, <2>5 DEF ReadStands, Readable, At
    <3>1. d # "main" /\ caller'[d] = caller[d]
      BY <2>4 DEF At
    <3> QED
      BY <1>2, <2>3, <3>1 DEF IInv, Safe, ReadStands, Readable, At
  <2>10. ShutdownSaves'
    <3>1. owed /\ ~spoilt => load_state.data
      BY <1>2 DEF IInv, Safe, Kept
    <3> QED
      BY <1>1, <1>4, <2>3, <2>4, <2>5, <3>1 DEF ShutdownSaves
  <2> QED
    BY <2>6, <2>7, <2>8, <2>9, <2>10 DEF IInv, Safe
<1>5. CASE skip
  <2>1. torrent' \in [Torrents -> Objects]
    <3> DEFINE new == [Leaving(torrent[tor]) EXCEPT !.have = {}]
    <3>1. torrent' = torrent \/ torrent' = [torrent EXCEPT ![tor] = new]
      BY <1>5
    <3>2. tor \in Torrents => new \in Objects
      BY DEF IInv, Typed, Leaving, NoObject, Objects
    <3> HIDE DEF new
    <3> QED
      BY <3>1, <3>2 DEF IInv, Typed
  <2>2. /\ caller' \in [Callers -> Work]
        /\ caller'["main"].pc = "destroy_join"
        /\ \A d \in Callers \ {"main"} : caller'[d] = caller[d]
    BY <1>5, FilesTyped, ShutdownTyped DEF IInv
  <2>3. Typed'
    BY <1>1, <1>5, <2>1, <2>2 DEF IInv, Typed
  <2>4. Places'
    BY <1>1, <2>2 DEF IInv, Places, MainPcs, ClientPcs, AddPcs
  <2>5. load_state' = load_state
    BY <1>5 DEF load_state
  <2>6. WriterAlone' /\ ShutdownSaves'
    BY <1>2, <2>2 DEF WriterAlone, ShutdownSaves, At
  <2>7. ReadStands'
    <3> SUFFICES ASSUME NEW d \in Callers, At(d, "insert")', ~caller'[d].stale, caller'[d].saved.data
                 PROVE  load_state.data
      BY <2>5 DEF ReadStands, Readable
    <3>1. d # "main" /\ caller'[d] = caller[d]
      BY <2>2 DEF At
    <3> QED
      BY <1>2, <3>1 DEF IInv, Safe, ReadStands, Readable, At
  <2>8. Kept'
    BY <1>1, <1>2, <2>5 DEF IInv, Safe, Kept
  <2> QED
    BY <2>3, <2>4, <2>6, <2>7, <2>8 DEF IInv, Safe
<1> QED
  BY <1>3, <1>4, <1>5

\* ... and writes it again, or fails to: nobody else can have written data.
LEMMA DestroyWriteKeeps ==
    ASSUME IInv, DestroyWrite
    PROVE  IInv'
<1>1. At("main", "destroy_write") /\ stage = "stopping" /\ "main" \in Callers
      /\ \A d \in Callers : ~At(d, "write")
  BY OneWriter DEF DestroyWrite, IInv, Places, At
<1>2. /\ ~file.data /\ caller["main"].saved.kind = "state"
      /\ ~spoilt => file.kind = "empty"
      /\ owed /\ ~spoilt => caller["main"].saved.data
      /\ caller["main"].saved \in Files
  BY <1>1 DEF IInv, Safe, ShutdownSaves, Typed, Work
<1>3. tor' = NoTorrent /\ UNCHANGED <<stage, made, owed>>
  BY DEF DestroyWrite
<1> DEFINE succeeds == /\ Write(caller["main"].saved)
                       /\ Goto("main", "destroy_join")
                       /\ UNCHANGED spoilt
           fails == /\ WriteFails
                    /\ caller' = [Overtakes("main") EXCEPT !["main"].pc = "destroy_join"]
                    /\ spoilt' = TRUE
<1>4. succeeds \/ fails
  BY DEF DestroyWrite
<1>5. /\ caller' \in [Callers -> Work]
      /\ caller'["main"].pc = "destroy_join"
      /\ \A d \in Callers \ {"main"} :
           /\ caller'[d].pc = caller[d].pc /\ caller'[d].saved = caller[d].saved
           /\ caller'[d].inc = caller[d].inc
      /\ succeeds => \A d \in Callers \ {"main"} : caller'[d] = caller[d]
      /\ succeeds \/ \A d \in Callers \ {"main"} : At(d, "insert") => caller'[d].stale
  <2>1. CASE succeeds
    BY <1>1, <2>1, GotoTyped DEF IInv, MainPcs
  <2>2. CASE fails /\ ~succeeds
    <3> DEFINE own == [Overtakes("main")["main"] EXCEPT !.pc = "destroy_join"]
    <3>1. caller' = [Overtakes("main") EXCEPT !["main"] = own]
      BY <1>1, <2>2 DEF Overtakes
    <3>2. own \in Work /\ own.pc = "destroy_join"
      <4>1. Overtakes("main")["main"] = [caller["main"] EXCEPT !.stale = @ \/ At("main", "insert")]
        BY <1>1 DEF Overtakes
      <4>2. Overtakes("main")["main"] \in Work
        BY <1>1, <4>1 DEF IInv, Typed, Work, At
      <4> QED
        BY <4>2 DEF Work, MainPcs
    <3> HIDE DEF own, succeeds
    <3> QED
      BY <1>1, <2>2, <3>1, <3>2, Overtaken DEF IInv
  <2> QED
    BY <1>4, <2>1, <2>2
<1>6. torrent' \in [Torrents -> Objects]
  <2> DEFINE new == [Leaving(torrent[tor]) EXCEPT !.have = {}]
  <2>1. torrent' = [torrent EXCEPT ![tor] = new]
    BY DEF DestroyWrite
  <2>2. tor \in Torrents => new \in Objects
    BY DEF IInv, Typed, Leaving, NoObject, Objects
  <2> HIDE DEF new
  <2> QED
    BY <2>1, <2>2 DEF IInv, Typed
<1>7. file' \in Files /\ spoilt' \in BOOLEAN
  BY <1>2, <1>4, FilesTyped DEF Write, WriteFails, IInv, Typed
<1>8. Typed'
  BY <1>3, <1>5, <1>6, <1>7 DEF IInv, Typed
<1>9. Places'
  BY <1>1, <1>3, <1>5 DEF IInv, Places, MainPcs, ClientPcs, AddPcs
<1>10. WriterAlone' /\ ShutdownSaves'
  BY <1>1, <1>5 DEF WriterAlone, ShutdownSaves, At
<1>11. succeeds /\ file.kind = "empty" => file' = caller["main"].saved /\ load_state' = file'
  BY <1>2 DEF Write, load_state
<1>12. ReadStands'
  <2> SUFFICES ASSUME NEW d \in Callers, At(d, "insert")', ~caller'[d].stale, caller'[d].saved.data
               PROVE  load_state'.data
    BY DEF ReadStands, Readable
  <2>1. d # "main" /\ At(d, "insert") /\ succeeds /\ caller'[d] = caller[d]
    BY <1>5 DEF At
  <2>2. Readable /\ ~load_state.data
    BY <1>2, <2>1, LoadTyped DEF IInv, Typed, Safe, ReadStands
  <2> QED
    BY <1>1, <1>11, <2>1, <2>2 DEF Readable
<1>13. Kept'
  BY <1>1, <1>2, <1>3, <1>4, <1>11 DEF Kept
<1> QED
  BY <1>8, <1>9, <1>10, <1>12, <1>13 DEF IInv, Safe

\* A step of a worker that does not end the process.
LEMMA WorkersKeep ==
    ASSUME IInv, NEW i \in Torrents, TrackerProgress(i) \/ TW_Ask(i) \/ PeerStep(i)
    PROVE  IInv'
<1>1. CASE TW_Ask(i)
  <2>1. PICK r \in Responses :
          torrent' = [torrent EXCEPT ![tor].known = @ \cup get_peers(r).peers]
    BY <1>1 DEF TW_Ask
  <2>2. get_peers(r).peers \in SUBSET Peers
    BY DEF Responses, get_peers, parse_compact_peers, Throws, Returns
  <2>3. torrent' \in [Torrents -> Objects]
    <3> DEFINE new == [torrent[tor] EXCEPT !.known = torrent[tor].known \cup get_peers(r).peers]
    <3>1. torrent' = [torrent EXCEPT ![tor] = new]
      BY <2>1
    <3>2. tor \in Torrents => new \in Objects
      BY <2>2 DEF IInv, Typed, Objects
    <3> HIDE DEF new
    <3> QED
      BY <3>1, <3>2 DEF IInv, Typed
  <2>4. UNCHANGED <<stage, mutex, tor, made, caller, file, owed, spoilt>>
    BY <1>1 DEF TW_Ask, historyVars
  <2> QED
    BY <2>3, <2>4, Frame
<1>2. CASE TrackerProgress(i) \/ PeerStep(i)
  <2>1. Die \/ UNCHANGED <<stage, mutex, tor, made, torrent, caller, file, owed, spoilt>>
    BY <1>2 DEF TrackerProgress, TW_Top, TW_Paused, TW_Rest, TW_Wait, TW_Dangling, TwOnly,
                PeerStep, PW_Top, PW_Work, PW_Dangling, PwOnly, historyVars
  <2> QED
    BY <2>1, Frame, DieKeeps DEF IInv, Typed
<1> QED
  BY <1>1, <1>2

\* Pausing, peers of a magnet link, pieces and status calls.
LEMMA TorrentKeeps ==
    ASSUME IInv,
           \/ \E c \in Clients : pause_torrent(c) \/ resume_torrent(c)
           \/ MagnetPeers \/ Receive \/ get_torrent_status \/ update_speeds
    PROVE  IInv'
<1>1. CASE Die
  BY <1>1, DieKeeps
<1>2. CASE UNCHANGED vars
  BY <1>2, Frame DEF vars, IInv, Typed
<1>3. CASE /\ UNCHANGED <<stage, mutex, tor, made, caller, file, owed, spoilt>>
           /\ \/ \E b \in BOOLEAN : torrent' = [torrent EXCEPT ![tor].paused = b]
              \/ \E ps \in SUBSET Peers : torrent' = [torrent EXCEPT ![tor].known = @ \cup ps]
              \/ \E p \in Pieces : torrent' = [torrent EXCEPT ![tor].have = @ \cup {p}]
  <2>1. torrent' \in [Torrents -> Objects]
    <3>1. ASSUME NEW b \in BOOLEAN, torrent' = [torrent EXCEPT ![tor].paused = b]
          PROVE  torrent' \in [Torrents -> Objects]
      BY <3>1 DEF IInv, Typed, Objects
    <3>2. ASSUME NEW ps \in SUBSET Peers, torrent' = [torrent EXCEPT ![tor].known = @ \cup ps]
          PROVE  torrent' \in [Torrents -> Objects]
      BY <3>2 DEF IInv, Typed, Objects
    <3>3. ASSUME NEW p \in Pieces, torrent' = [torrent EXCEPT ![tor].have = @ \cup {p}]
          PROVE  torrent' \in [Torrents -> Objects]
      BY <3>3 DEF IInv, Typed, Objects
    <3> QED
      BY <1>3, <3>1, <3>2, <3>3
  <2> QED
    BY <1>3, <2>1, Frame
<1> QED
  BY <1>1, <1>2, <1>3 DEF pause_torrent, resume_torrent, SetPaused, MagnetPeers, Receive,
     get_torrent_status, update_speeds, UsePieceManager, historyVars

\* The inductive invariant holds throughout.
THEOREM Invariance == Spec => []IInv
<1>1. IInv /\ [Next]_vars => IInv'
  <2> SUFFICES ASSUME IInv, [Next]_vars PROVE IInv'
    OBVIOUS
  <2>1. CASE UNCHANGED vars
    BY <2>1, Frame DEF vars, IInv, Typed
  <2>2. CASE Crash \/ DestroyJoin
    BY <2>2, DieKeeps DEF Crash, DestroyJoin
  <2>3. CASE Boot \/ restore_torrents \/ OthersLock \/ OthersUnlock
    BY <2>3, BootKeeps, RestoreKeeps, OthersKeep
  <2>4. ASSUME NEW c \in Callers, AddStep(c) PROVE IInv'
    BY <2>4, AddCheckKeeps, AddConstructKeeps, AddInsertKeeps, AddWriteKeeps DEF AddStep
  <2>5. ASSUME NEW c \in Callers, RemoveStep(c) PROVE IInv'
    BY <2>5, RemoveSaveKeeps, RemoveWriteKeeps, RemoveJoinKeeps DEF RemoveStep
  <2>6. ASSUME NEW c \in Clients, Remove(c) PROVE IInv'
    BY <2>6, RemoveKeeps
  <2>7. CASE Destroy \/ DestroyWrite
    BY <2>7, DestroyKeeps, DestroyWriteKeeps
  <2>8. ASSUME NEW i \in Torrents, TW_Ask(i) \/ TrackerProgress(i) \/ PeerStep(i) PROVE IInv'
    BY <2>8, WorkersKeep
  <2>9. CASE \/ \E c \in Clients : pause_torrent(c) \/ resume_torrent(c)
             \/ MagnetPeers \/ Receive \/ get_torrent_status \/ update_speeds
    BY <2>9, TorrentKeeps
  <2> QED
    BY <2>1, <2>2, <2>3, <2>4, <2>5, <2>6, <2>7, <2>8, <2>9 DEF Next
<1> QED
  BY InitIInv, <1>1, PTL DEF Spec

\* For any number of API threads and restarts, and requests that outlive the
\* server: an add that returned is in the map while the API is open and in a file
\* that restores it, apart from a save cut or failed and from the race with a
\* remove's save that the property names.
THEOREM AddsLast == Spec => []AddedSurvives
<1>1. IInv => AddedSurvives
  <2> SUFFICES ASSUME IInv, owed, stage = "up", ~spoilt
               PROVE  tor # NoTorrent /\ load_state.data
    BY DEF AddedSurvives
  <2>1. ~At("main", "destroy_write")
    BY DEF IInv, Places, At
  <2> QED
    BY <2>1 DEF IInv, Safe, Kept
<1> QED
  BY Invariance, <1>1, PTL
=============================================================================
