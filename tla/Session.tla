------------------------------ MODULE Session -------------------------------
(***************************************************************************)
(* One torrent id over the life of TorrentManager: it is added, removed    *)
(* and added again by API requests that run each in a thread of its own,   *)
(* saved to its state file by StateManager, and restored after the program *)
(* was stopped or died.  What happens between the peers of a torrent is in *)
(* Swarm and PieceManager; here a piece is verified and written.           *)
(*                                                                         *)
(* Every TorrentManager::add_torrent_impl makes a new Torrent, numbered in *)
(* the order they enter the map.  Its two workers find their torrent by id *)
(* again and again, so a worker may come to serve a later Torrent.         *)
(***************************************************************************)
EXTENDS Integers, FiniteSets

CONSTANTS
    Clients,   \* threads of API requests
    Removers,  \* bound: those of them that may ask for a removal
    Pieces,
    Peers,     \* addresses that trackers and the DHT report
    MaxAdds,   \* bound: Torrents that enter the map
    Restarts,  \* bound: whether the program is started again after it ended
    SavesFail  \* bound: whether the bytes of a save may be lost

ASSUME SessionAssumption ==
    /\ MaxAdds \in Nat \ {0}
    /\ Removers \subseteq Clients
    /\ Restarts \in BOOLEAN /\ SavesFail \in BOOLEAN
    /\ {"main", "free", "others"} \cap Clients = {}

Callers == Clients \cup {"main"}   \* main restores and destroys
Torrents == 1 .. MaxAdds
NoTorrent == 0

VARIABLES
    stage,    \* "down", "restoring", "up" or "stopping"
    mutex,    \* TorrentManager::mutex_, where it is held over several steps: by
              \* a caller, or by "others", the threads of Swarm
    tor,      \* the Torrent the map holds for the id
    made,     \* how many entered the map
    torrent,  \* the Torrent objects
    tw,       \* tracker_worker of each Torrent: pc and what it refers to
    pw,       \* peer_worker of each Torrent
    caller,   \* what each caller does
    file,     \* the state file
    disk,     \* pieces whose bytes are in the files
    owed,     \* history: an add returned and no remove followed
    spoilt    \* history: the end of the process cut the file, a save failed, or a
              \* remove saved over an add

vars == <<stage, mutex, tor, made, torrent, tw, pw, caller, file, disk, owed, spoilt>>
historyVars == <<owed, spoilt>>

Absent == [kind |-> "absent", data |-> FALSE, bits |-> {}]
Empty == [kind |-> "empty", data |-> FALSE, bits |-> {}]
Garbled == [kind |-> "garbled", data |-> FALSE, bits |-> {}]
State(data, bits) == [kind |-> "state", data |-> data, bits |-> bits]

NoObject == [status |-> "none", have |-> {}, known |-> {},
             paused |-> FALSE, stopping |-> FALSE]
NoThread == [pc |-> "none", ref |-> NoTorrent]
Idle == [pc |-> "idle", inc |-> NoTorrent, saved |-> Absent, stale |-> FALSE]

\* main() before the first torrent; the constructor restores first of all.
Init ==
    /\ stage = "restoring" /\ mutex = "free" /\ tor = NoTorrent /\ made = 0
    /\ torrent = [i \in Torrents |-> NoObject]
    /\ tw = [i \in Torrents |-> NoThread] /\ pw = [i \in Torrents |-> NoThread]
    /\ caller = [c \in Callers |-> IF c = "main" THEN [Idle EXCEPT !.pc = "restore"] ELSE Idle]
    /\ file = Absent /\ disk = {}
    /\ owed = FALSE /\ spoilt = FALSE

-----------------------------------------------------------------------------
(* StateManager.                                                            *)

\* load_state: a file that is empty or no JSON object reads as no state.
load_state == IF file.kind = "state" THEN file ELSE Absent

\* save_state, first half: the bitfield and the rest become a string, and
\* write_file opens the file, which truncates it.
Truncate == file' = Empty

\* Second half: the bytes land at the start of the file.  Another save may have
\* written meanwhile; what it left beyond our end makes the file unreadable.
\* A state with the torrent's data is the longer one.
Write(s) ==
    \/ /\ file.kind = "state" => (s.data \/ ~file.data)
       /\ file' = s
    \/ /\ file.kind = "garbled" \/ (file.kind = "state" /\ (s.data => file.data))
       /\ file' = Garbled

\* The bytes do not land, or not all of them: save_state's result, when there is
\* one, is not looked at.
WriteFails == SavesFail /\ file' \in {file, Garbled}

-----------------------------------------------------------------------------
(* The process.                                                             *)

\* Everything but the files is gone, whoever was at work.
Die ==
    /\ stage' = "down" /\ mutex' = "free" /\ tor' = NoTorrent
    /\ torrent' = [i \in Torrents |-> NoObject]
    /\ tw' = [i \in Torrents |-> NoThread] /\ pw' = [i \in Torrents |-> NoThread]
    /\ caller' = [c \in Callers |-> Idle]
    /\ spoilt' = (spoilt \/ file.kind = "empty")
    /\ UNCHANGED <<made, file, disk, owed>>

Crash == stage # "down" /\ Die

\* The process is started again: TorrentManager's constructor.
Boot ==
    /\ stage = "down" /\ Restarts
    /\ stage' = "restoring"
    /\ caller' = [caller EXCEPT !["main"].pc = "restore"]
    /\ UNCHANGED <<mutex, tor, made, torrent, tw, pw, file, disk, historyVars>>

\* An operation of caller c is over; with restore_torrents the API opens.
LeaveFrom(cs, c) ==
    /\ caller' = [cs EXCEPT ![c] = Idle]
    /\ stage' = IF stage = "restoring" THEN "up" ELSE stage

Return(c) == LeaveFrom(caller, c)

Goto(c, pc) == caller' = [caller EXCEPT ![c].pc = pc]

At(c, pc) == caller[c].pc = pc

\* Requests run in detached threads: stop() of the server waits for none, and
\* the destructor meets those under way and those accepted last.
Free(c) == c \in Clients /\ stage \in {"up", "stopping"} /\ At(c, "idle")

\* Callers that read the file before it was saved to behind their back, or before
\* a save that failed.
Overtakes(c) == [d \in Callers |-> [caller[d] EXCEPT !.stale = @ \/ At(d, "insert")]]

\* The loops, listener and callbacks of Swarm hold mutex_, over blocking sends and
\* joins too, and release it, or never do.
OthersLock ==
    /\ stage # "down" /\ mutex = "free" /\ mutex' = "others"
    /\ UNCHANGED <<stage, tor, made, torrent, tw, pw, caller, file, disk, historyVars>>
OthersUnlock ==
    /\ mutex = "others" /\ mutex' = "free"
    /\ UNCHANGED <<stage, tor, made, torrent, tw, pw, caller, file, disk, historyVars>>

-----------------------------------------------------------------------------
(* Adding.  Every add comes with the torrent's data: a magnet link adds no  *)
(* torrent.                                                                 *)

\* restore_torrents: list_saved_torrents found the file, if there is one.
restore_torrents ==
    /\ At("main", "restore")
    /\ IF load_state.data THEN Goto("main", "check") /\ UNCHANGED stage ELSE Return("main")
    /\ UNCHANGED <<mutex, tor, made, torrent, tw, pw, file, disk, historyVars>>

\* add_torrent and add_torrent_data call add_torrent_impl: the first check.
AddCheck(c) ==
    /\ Free(c) \/ At(c, "check")
    /\ mutex = "free"
    /\ IF tor = NoTorrent THEN Goto(c, "construct") /\ UNCHANGED stage ELSE Return(c)
    /\ UNCHANGED <<mutex, tor, made, torrent, tw, pw, file, disk, historyVars>>

\* PieceManager's constructor creates every file anew, then the state is loaded,
\* outside the lock.
AddConstruct(c) ==
    /\ At(c, "construct")
    /\ disk' = {}
    /\ caller' = [caller EXCEPT ![c].saved = load_state, ![c].pc = "insert"]
    /\ UNCHANGED <<stage, mutex, tor, made, torrent, tw, pw, file, historyVars>>

SavesUnlessLoaded(saved) == saved.kind = "absent"   \* mutant: data is never added

\* What an add saves: data that the loaded state lacks.
MustSave(saved) == saved.kind = "absent" \/ ~saved.data

\* The second check, the threads, the map, and the beginning of the save, all
\* under mutex_.  The Torrent holds what the saved bitfield says.
AddInsert(c) ==
    /\ At(c, "insert") /\ mutex = "free"
    /\ IF tor # NoTorrent
       THEN /\ Return(c)
            /\ UNCHANGED <<mutex, tor, made, torrent, tw, pw, file, historyVars>>
       ELSE LET n == made + 1
                saved == caller[c].saved
            IN  /\ n \in Torrents
                /\ made' = n /\ tor' = n
                /\ torrent' = [torrent EXCEPT ![n] =
                                 [NoObject EXCEPT !.status = "live", !.have = saved.bits]]
                /\ tw' = [tw EXCEPT ![n].pc = "top"]
                /\ pw' = [pw EXCEPT ![n].pc = "top"]
                /\ \/ /\ MustSave(saved)
                      /\ Truncate /\ mutex' = c
                      /\ Goto(c, "write")
                      /\ owed' = FALSE /\ spoilt' = caller[c].stale
                      /\ UNCHANGED stage
                   \/ /\ Return(c)   \* nothing to save, or the file does not open
                      /\ owed' = TRUE /\ spoilt' = (caller[c].stale \/ MustSave(saved))
                      /\ UNCHANGED <<mutex, file>>
    /\ UNCHANGED disk

AddWrite(c) ==
    /\ At(c, "write")
    /\ \/ Write(State(TRUE, caller[c].saved.bits)) /\ Return(c) /\ UNCHANGED spoilt
       \/ WriteFails /\ LeaveFrom(Overtakes(c), c) /\ spoilt' = TRUE
    /\ mutex' = "free"
    /\ owed' = TRUE
    /\ UNCHANGED <<tor, made, torrent, tw, pw, disk>>

\* add_magnet_link only starts a DHT lookup; its callback adds the peers found
\* if a torrent of that hash is in the map by then.
MagnetPeers ==
    /\ stage = "up" /\ mutex = "free" /\ tor # NoTorrent
    /\ \E ps \in SUBSET Peers : torrent' = [torrent EXCEPT ![tor].known = @ \cup ps]
    /\ UNCHANGED <<stage, mutex, tor, made, tw, pw, caller, file, disk, historyVars>>

-----------------------------------------------------------------------------
(* Removing, pausing and asking.                                            *)

\* A Torrent outside the map: nobody reads its peers or paused any more.
Leaving(t) == [NoObject EXCEPT !.status = "removed", !.have = t.have, !.stopping = TRUE]


\* remove_torrent under mutex_: the Torrent is told to stop and leaves the map.
Remove(c) ==
    /\ c \in Removers
    /\ Free(c) /\ mutex = "free" /\ tor # NoTorrent
    /\ torrent' = [torrent EXCEPT ![tor] = Leaving(@)]
    /\ caller' = [caller EXCEPT ![c].pc = "save", ![c].inc = tor]
    /\ tor' = NoTorrent
    /\ owed' = FALSE
    /\ UNCHANGED <<stage, mutex, made, tw, pw, file, disk, spoilt>>

\* Outside the lock: get_bitfield, the last that is read of it, and the save
\* without the torrent's data, if the file opens.
RemoveSave(c) ==
    /\ At(c, "save")
    /\ \/ /\ Truncate
          /\ caller' = [Overtakes(c) EXCEPT
               ![c].pc = "remove_write", ![c].saved = State(FALSE, torrent[caller[c].inc].have)]
          /\ spoilt' = (spoilt \/ tor # NoTorrent \/ owed)
       \/ Goto(c, "join") /\ UNCHANGED <<file, spoilt>>
    /\ torrent' = [torrent EXCEPT ![caller[c].inc].have = {}]
    /\ UNCHANGED <<stage, mutex, tor, made, tw, pw, disk, owed>>

RemoveWrite(c) ==
    /\ At(c, "remove_write")
    /\ Write(caller[c].saved) \/ WriteFails
    /\ caller' = [Overtakes(c) EXCEPT ![c].pc = "join", ![c].saved = Absent]
    /\ spoilt' = (spoilt \/ tor # NoTorrent \/ owed)
    /\ UNCHANGED <<stage, mutex, tor, made, torrent, tw, pw, disk, owed>>

Joined(i) == i # NoTorrent => tw[i].pc = "done" /\ pw[i].pc = "done"

\* Both workers are joined.
RemoveJoin(c) ==
    /\ At(c, "join") /\ Joined(caller[c].inc)
    /\ Goto(c, "destruct")
    /\ UNCHANGED <<stage, mutex, tor, made, torrent, tw, pw, file, disk, historyVars>>

\* The Torrent is destroyed and the call returns, when ~PieceManager has joined
\* its disk worker: that may never be (PieceManager).
RemoveDestroy(c) ==
    /\ At(c, "destruct")
    /\ torrent' = [torrent EXCEPT ![caller[c].inc] = [NoObject EXCEPT !.status = "freed"]]
    /\ tw' = [tw EXCEPT ![caller[c].inc] = NoThread]
    /\ pw' = [pw EXCEPT ![caller[c].inc] = NoThread]
    /\ mutex' = IF mutex = c THEN "free" ELSE mutex
    /\ Return(c)
    /\ UNCHANGED <<tor, made, file, disk, historyVars>>

\* pause_torrent and resume_torrent: the flag only, nobody is notified.
SetPaused(c, b) ==
    /\ Free(c) /\ mutex = "free" /\ tor # NoTorrent
    /\ torrent' = [torrent EXCEPT ![tor].paused = b]
    /\ UNCHANGED <<stage, mutex, tor, made, tw, pw, caller, file, disk, historyVars>>
pause_torrent(c) == SetPaused(c, TRUE)
resume_torrent(c) == SetPaused(c, FALSE)

Freed(i) == torrent[i].status = "freed"

\* A call through the address of a PieceManager, taken under mutex_ and used
\* after the unlock: nothing changes, but when the Torrent was freed in between
\* this is undefined behaviour, and the process may die.
UsePieceManager ==
    /\ stage \in {"up", "stopping"} /\ mutex = "free"
    /\ \/ tor # NoTorrent /\ UNCHANGED vars
       \/ (\E i \in Torrents : Freed(i)) /\ Die

\* get_torrent_status, for a request or from main's loop every second.
get_torrent_status == UsePieceManager

\* update_speeds, from main's loop; the speeds and counts it then writes to the
\* torrent of that id are only reported (get_global_stats).
update_speeds == UsePieceManager

-----------------------------------------------------------------------------
(* The destructor, when main has left its loop; requests may be under way.  *)

Shutdown(pc, i, saved) ==
    caller' = [caller EXCEPT !["main"] = [pc |-> pc, inc |-> i, saved |-> saved, stale |-> FALSE]]

\* Under mutex_.  The state keeps the torrent's data only if the file could be
\* read; if it does not open for writing it stays as it is.
Destroy ==
    /\ stage = "up" /\ mutex = "free" /\ At("main", "idle")
    /\ stage' = "stopping"
    /\ \/ /\ tor # NoTorrent
          /\ Truncate /\ mutex' = "main"
          /\ torrent' = [torrent EXCEPT ![tor].stopping = TRUE]
          /\ Shutdown("destroy_write", tor, State(load_state.data, torrent[tor].have))
          /\ UNCHANGED tor
       \/ /\ torrent' = IF tor = NoTorrent THEN torrent
                        ELSE [torrent EXCEPT ![tor] = [Leaving(@) EXCEPT !.have = {}]]
          /\ Shutdown("destroy_join", tor, Absent)
          /\ tor' = NoTorrent
          /\ UNCHANGED <<mutex, file>>
    /\ UNCHANGED <<made, tw, pw, disk, historyVars>>

DestroyWrite ==
    /\ At("main", "destroy_write")
    /\ \/ /\ Write(caller["main"].saved)
          /\ Goto("main", "destroy_join")
          /\ UNCHANGED spoilt
       \/ /\ WriteFails
          /\ caller' = [Overtakes("main") EXCEPT !["main"].pc = "destroy_join"]
          /\ spoilt' = TRUE
    /\ torrent' = [torrent EXCEPT ![tor] = [Leaving(@) EXCEPT !.have = {}]]
    /\ tor' = NoTorrent /\ mutex' = "free"
    /\ UNCHANGED <<stage, made, tw, pw, disk, owed>>

\* The joins, then the members; a Torrent that a late request put into the map
\* goes with it, its threads unjoined, which ends the process too.
DestroyJoin ==
    /\ At("main", "destroy_join") /\ Joined(caller["main"].inc)
    /\ Die

-----------------------------------------------------------------------------
(* tracker_worker of Torrent i.  ref is the map's node it holds a reference *)
(* to, from one lookup to the next, mostly without mutex_.                  *)

\* What a tracker may answer.  broken: the entries have a wrong length
\* (compact) or some of them no address (list).
Responses ==
    [kind : {"none", "no body", "no dictionary", "failure", "no peers", "compact", "list", "other"},
     peers : SUBSET Peers, broken : BOOLEAN]

Throws == [ok |-> FALSE, peers |-> {}]
Returns(ps) == [ok |-> TRUE, peers |-> ps]

\* parse_compact_peers takes all entries or none; a list loses the broken ones.
parse_compact_peers(r) == IF r.broken THEN Throws ELSE Returns(r.peers)

\* TrackerClient::get_peers: the peers, or an exception.
get_peers(r) ==
    IF r.kind = "compact" THEN parse_compact_peers(r)
    ELSE IF r.kind = "list" THEN Returns(r.peers)
    ELSE Throws

TwGoto(i, pc, ref) == tw' = [tw EXCEPT ![i] = [pc |-> pc, ref |-> ref]]
PwGoto(i, pc, ref) == pw' = [pw EXCEPT ![i] = [pc |-> pc, ref |-> ref]]
TwAt(i, pc) == tw[i].pc = pc
PwAt(i, pc) == pw[i].pc = pc

\* The rest of the state, for a step of a tracker worker that finds no new peer.
TwOnly == UNCHANGED <<stage, mutex, tor, made, torrent, pw, caller, file, disk, historyVars>>

\* Top of the loop, under mutex_.
TW_Top(i) ==
    /\ TwAt(i, "top") /\ mutex = "free"
    /\ IF tor = NoTorrent \/ torrent[tor].stopping THEN TwGoto(i, "done", NoTorrent)
       ELSE TwGoto(i, IF torrent[tor].paused THEN "paused" ELSE "round", tor)
    /\ TwOnly

\* A paused torrent: wait up to five seconds.
TW_Paused(i) ==
    /\ TwAt(i, "paused") /\ tw[i].ref = tor
    /\ IF torrent[tor].stopping THEN TwGoto(i, "done", NoTorrent) ELSE TwGoto(i, "top", NoTorrent)
    /\ TwOnly

\* One tracker of the round: unless the torrent stops, get_peers is called, which
\* takes long and without any lock, and the peers not known yet are kept.
TW_Ask(i) ==
    /\ TwAt(i, "round") /\ tw[i].ref = tor
    /\ ~torrent[tor].stopping
    /\ \E ps \in {get_peers(r).peers : r \in Responses} :
         torrent' = [torrent EXCEPT ![tor].known = @ \cup ps]
    /\ UNCHANGED <<stage, mutex, tor, made, tw, pw, caller, file, disk, historyVars>>

\* No tracker is left, or the torrent stops.  torrent.get(): a plain pointer.
TW_Rest(i) ==
    /\ TwAt(i, "round") /\ tw[i].ref = tor
    /\ TwGoto(i, "wait", tor)
    /\ TwOnly

\* Five minutes, or until the Torrent stops.
TW_Wait(i) ==
    /\ TwAt(i, "wait") /\ ~Freed(tw[i].ref)
    /\ IF torrent[tw[i].ref].stopping THEN TwGoto(i, "done", NoTorrent)
       ELSE TwGoto(i, "top", NoTorrent)
    /\ TwOnly

\* The node is gone from the map, or the Torrent a stray worker waits on is
\* freed: undefined behaviour.  The process dies, or the memory is that of the
\* Torrent added since, or some value ends the round.
TW_Dangling(i) ==
    /\ \/ tw[i].pc \in {"paused", "round"} /\ tw[i].ref # tor
       \/ TwAt(i, "wait") /\ Freed(tw[i].ref)
    /\ \/ Die
       \/ tor # NoTorrent /\ TwGoto(i, tw[i].pc, tor) /\ TwOnly
       \/ TwGoto(i, "top", NoTorrent) /\ TwOnly

-----------------------------------------------------------------------------
(* peer_worker of Torrent i: a plain pointer per round.                     *)

PwOnly == UNCHANGED <<stage, mutex, tor, made, torrent, tw, caller, file, disk, historyVars>>

PW_Top(i) ==
    /\ PwAt(i, "top") /\ mutex = "free"
    /\ IF tor = NoTorrent THEN PwGoto(i, "done", NoTorrent) ELSE PwGoto(i, "work", tor)
    /\ PwOnly

\* The stopping test, a round of work (Swarm) and the wait, 100 ms or, paused,
\* a second; stopping is seen at the latest by the wait.
PW_Work(i) ==
    /\ PwAt(i, "work") /\ ~Freed(pw[i].ref)
    /\ IF torrent[pw[i].ref].stopping THEN PwGoto(i, "done", NoTorrent)
       ELSE PwGoto(i, "top", NoTorrent)
    /\ PwOnly

PW_Dangling(i) ==
    /\ PwAt(i, "work") /\ Freed(pw[i].ref)
    /\ Die \/ (PwGoto(i, "top", NoTorrent) /\ PwOnly)

\* A connection's callback finds the torrent by id and verifies a piece, and the
\* disk worker writes it (PieceManager has the two apart).
Receive ==
    /\ mutex = "free" /\ tor # NoTorrent
    /\ \E p \in Pieces \ torrent[tor].have :
         /\ torrent' = [torrent EXCEPT ![tor].have = @ \cup {p}]
         /\ disk' = disk \cup {p}
    /\ UNCHANGED <<stage, mutex, tor, made, tw, pw, caller, file, historyVars>>

-----------------------------------------------------------------------------
AddStep(c) == AddCheck(c) \/ AddConstruct(c) \/ AddInsert(c) \/ AddWrite(c)
RemoveStep(c) == RemoveSave(c) \/ RemoveWrite(c) \/ RemoveJoin(c) \/ RemoveDestroy(c)
TrackerProgress(i) ==
    TW_Top(i) \/ TW_Paused(i) \/ TW_Rest(i) \/ TW_Wait(i) \/ TW_Dangling(i)
PeerStep(i) == PW_Top(i) \/ PW_Work(i) \/ PW_Dangling(i)

Next ==
    \/ Crash \/ Boot
    \/ OthersLock \/ OthersUnlock
    \/ restore_torrents
    \/ \E c \in Callers : AddStep(c) \/ RemoveStep(c)
    \/ \E c \in Clients : Remove(c) \/ pause_torrent(c) \/ resume_torrent(c)
    \/ get_torrent_status \/ update_speeds
    \/ Destroy \/ DestroyWrite \/ DestroyJoin
    \/ MagnetPeers
    \/ \E i \in Torrents : TW_Ask(i) \/ TrackerProgress(i) \/ PeerStep(i)
    \/ Receive

Spec == Init /\ [][Next]_vars

\* Threads run, the write of a state file returns, and a thread that finds mutex_
\* free again and again gets it.  A tracker_worker's requests and waits end by
\* their timeouts, and its list of trackers is finite.  Nothing is assumed of the
\* rounds of a peer_worker, which send and join, of destructions, of the holders
\* of mutex_ elsewhere, nor that any request is ever made.
FairSpec ==
    /\ Spec
    /\ WF_vars(DestroyWrite \/ \E c \in Callers : AddWrite(c))
    /\ \A c \in Removers : WF_vars(RemoveJoin(c))
    /\ \A i \in Torrents : SF_vars(TrackerProgress(i)) /\ SF_vars(PW_Top(i))

-----------------------------------------------------------------------------
\* An add that returned lasts: until it is removed the torrent is in the map
\* whenever the API is open, across crashes, shutdowns and restarts, and its
\* file would restore it, unless the end of the process cut the file between
\* truncation and write, a save failed, which nobody is told of, or a remove's
\* save, made without the lock, came after this add had read the file
\* (add_torrent_impl, remove_torrent, ~TorrentManager, restore_torrents,
\* save_state).
AddedSurvives ==
    owed /\ stage = "up" /\ ~spoilt =>
      /\ tor # NoTorrent
      /\ load_state.data

\* A worker of Torrent i serves another one.
Stray(i) == tw[i].ref \notin {NoTorrent, i} \/ pw[i].ref \notin {NoTorrent, i}

\* No peer_worker stays in a round for ever, in a send or in a join of a
\* connection's thread, and no thread keeps mutex_.
RoundsEnd ==
    /\ \A i \in Torrents : []<>~PwAt(i, "work")
    /\ []<>(mutex # "others")


\* "to preserve progress": what a restored or re-added torrent claims to have is
\* in its files.
HeldPiecesOnDisk ==
    tor # NoTorrent => torrent[tor].have \subseteq disk
=============================================================================
