------------------------------ MODULE Session ------------------------------
(***************************************************************************)
(* main of btor/btor.cpp: one run of the client from start-up to exit, and *)
(* the runs that follow it.  It composes the parser of module Bencode with *)
(* fileio (the torrent file and the bitfield file), with the tracker       *)
(* request of bhttp.cpp and with the peers main makes, tries to connect    *)
(* and deletes.                                                            *)
(*                                                                         *)
(* What outlives a run is the disk (torrentFile, bitfieldFile) and the     *)
(* tracker (registered).  A run may be killed between any two steps, and   *)
(* the bitfield file may fail to open, to be read or to be written, which  *)
(* nobody looks at.  exit() runs no destructor of main's locals, and       *)
(* neither does an exception that leaves main: the process ends and its    *)
(* memory is gone.                                                         *)
(***************************************************************************)
EXTENDS Bencode, Butils

CONSTANTS
    TorrentFiles,   \* contents the torrent file may have, if it exists
    Replies,        \* bodies the tracker may answer with
    Refusals,       \* those with which it refuses the request: a failure reason
    BitfieldFiles,  \* bitfield files that may exist before the first run
    MaxRuns,        \* bound: how often the client is started
    MaxFaults,      \* bound: how often it is killed, or the disk fails
    AnnounceKey, PieceLengthKey, FailureKey, CompleteKey, IncompleteKey,
    IntervalKey, PeersKey, IpKey, PortKey

ASSUME TextsAssumption ==
    TorrentFiles \cup Replies \subseteq Inputs /\ Refusals \subseteq Replies

\* A file: whether it exists, and its bytes.
NoFile == [exists |-> FALSE, bytes |-> <<>>]
Files == {NoFile} \cup [exists : {TRUE}, bytes : Seq(Byte)]

ASSUME BitfieldFilesAssumption == BitfieldFiles \subseteq Files
ASSUME BoundsAssumption == MaxRuns \in Nat /\ MaxFaults \in Nat

VARIABLES
    at,             \* where main is, or how the last run ended
    torrentFile,    \* the torrent file on disk
    bitfieldFile,   \* the bitfield file on disk
    registered,     \* the tracker lists this client
    metainfo,       \* main's Metainfo
    bitfield,       \* state.bitfield
    response,       \* body of the tracker's last reply
    peers,          \* main's vector of peer objects
    bpeers,         \* number of BPeers made of them
    break_early,    \* connection attempts made
    readFailed,     \* history: this run could not read the bitfield file
    deleted,        \* pointers deleted in this run, in order
    announced,      \* requests made in this run, in order
    exitRequested,  \* set by CtrlHandler, in a thread of its own
    runs, faults

disk  == <<torrentFile, bitfieldFile>>
locals == <<metainfo, bitfield, response, peers, bpeers, break_early, readFailed>>
history == <<deleted, announced>>
env   == <<exitRequested, runs, faults>>
main  == <<at, disk, registered, locals, history, env>>
allVars == <<vars, main>>
-----------------------------------------------------------------------------
chSlash == 47

File(bytes) == [exists |-> TRUE, bytes |-> bytes]

NoMetainfo ==
    [infodict |-> <<>>, total_length |-> 0, piece_length |-> 0,
     announce |-> <<>>]

Saving == {"saveBitfield", "writeBitfield"}
Ended == {"down", "success", "failure", "aborted", "crashed"}
Parsing == {"parseTorrent", "parseReply"}
Up == {"startup", "readFile", "openBitfield", "createBitfield",
       "readBitfield", "announce", "checkResponse", "makePeers", "connect",
       "deletePeers", "stop"} \cup Saving \cup Parsing

\* getByKey(key) on the object at p returns a pointer to an object of type t.
\* In the source the other outcomes are BTypeException and BDictKeyException.
HasKey(p, key) ==
    /\ p \in DOMAIN heap /\ heap[p].type = "BDict"
    /\ checkIfHasKey(heap[p], key)
At(p, key) == getByKey(heap[p], key)
HasTyped(p, key, t) ==
    HasKey(p, key) /\ At(p, key) \in DOMAIN heap /\ heap[At(p, key)].type = t

\* The size main asks for.  The total is converted to an unsigned value.
bitfieldSize ==
    getBitfieldSize(metainfo.total_length % Int64Modulus,
                    metainfo.piece_length)

\* Mutant of emptyFile: the bytes are set.
fullFile(size) == File([i \in 1..size |-> 0..7])

\* createEmptyFile(size), once the file is open: one zero written behind
\* size - 1.  For size 0 the seek fails and nothing is written.
emptyFile(size) == File(Zeros(size))

\* Mutant of Destructors: the end of main's scope deletes every object.
DestructorsRun == deleted' = deleted \o [p \in DOMAIN heap |-> p]

\* exit() destroys no local of main, and an exception nobody catches unwinds
\* nothing: ~BMemoryManager, which deletes every object, does not run.
Destructors == UNCHANGED deleted

\* A process that ends takes its memory with it.
End(status) ==
    /\ at' = status
    /\ buf' = <<>> /\ cursor' = 0 /\ pc' = "idle" /\ stack' = <<>>
    /\ ret' = Wild
    /\ caller' = "parseString" /\ stringlength' = 0 /\ rstring' = <<>>
    /\ intVal' = 0 /\ negativeNumber' = FALSE /\ firstChar' = TRUE
    /\ heap' = <<>>
    /\ collectInfoDict' = FALSE /\ collectedInfoDict' = <<>>
    /\ collectedLength' = 0
    /\ parses' = 0
    /\ metainfo' = NoMetainfo /\ bitfield' = <<>> /\ response' = <<>>
    /\ peers' = <<>> /\ bpeers' = 0 /\ break_early' = 0 /\ readFailed' = FALSE
    /\ Destructors
    /\ exitRequested' = FALSE

\* exit(EXIT_FAILURE), and an exception or a fault nobody handles.
Exit  == End("failure") /\ UNCHANGED <<disk, announced, runs, faults>>
Abort == End("aborted") /\ UNCHANGED <<disk, announced, runs, faults>>
-----------------------------------------------------------------------------
SessionInit ==
    /\ Init
    /\ at = "down"
    /\ torrentFile \in {NoFile} \cup {File(t) : t \in TorrentFiles}
    /\ bitfieldFile \in BitfieldFiles
    /\ registered = FALSE
    /\ metainfo = NoMetainfo /\ bitfield = <<>> /\ response = <<>>
    /\ peers = <<>> /\ bpeers = 0 /\ break_early = 0 /\ readFailed = FALSE
    /\ deleted = <<>> /\ announced = <<>>
    /\ exitRequested = FALSE /\ runs = 0 /\ faults = 0

\* The user starts the client.
Start ==
    /\ at \in Ended
    /\ runs < MaxRuns
    /\ runs' = runs + 1
    /\ at' = "startup"
    /\ deleted' = <<>> /\ announced' = <<>>
    /\ UNCHANGED <<vars, disk, registered, locals, exitRequested, faults>>

\* BSock() and SetConsoleCtrlHandler: exit on failure.
Startup ==
    /\ at = "startup"
    /\ \/ /\ at' = "readFile"
          /\ UNCHANGED <<vars, disk, registered, locals, history, env>>
       \/ Exit /\ UNCHANGED registered

ReadFile ==
    /\ at = "readFile"
    /\ \/ /\ ~torrentFile.exists
          /\ Exit /\ UNCHANGED registered
       \/ /\ torrentFile.exists
          /\ parseBencodedString /\ buf' = torrentFile.bytes
          /\ at' = "parseTorrent"
          /\ UNCHANGED <<disk, registered, locals, history, env>>

\* A step of the parser main has called.
ParserStep ==
    /\ at \in Parsing
    /\ pc \in Running /\ Parser
    /\ UNCHANGED main

\* No handler encloses the calls of the parser.
ParserThrows ==
    /\ at \in Parsing
    /\ pc \in Failed
    /\ Abort /\ UNCHANGED registered

\* The members of Metainfo are copied out of the parser and out of the tree.
FillMetainfo ==
    /\ at = "parseTorrent" /\ pc = "idle"
    /\ LET ok == /\ HasTyped(ret, InfoKey, "BDict")
                 /\ HasTyped(At(ret, InfoKey), PieceLengthKey, "BInteger")
                 /\ HasTyped(ret, AnnounceKey, "BString")
           piece == heap[At(At(ret, InfoKey), PieceLengthKey)].intVal
       IN \/ /\ ok
             /\ metainfo' =
                   [infodict |-> collectedInfoDict,
                    total_length |-> collectedLength,
                    piece_length |-> piece % Int64Modulus,
                    announce |-> heap[At(ret, AnnounceKey)].stringVal]
             /\ at' = "openBitfield"
             /\ UNCHANGED <<vars, disk, registered, bitfield, response, peers,
                            bpeers, break_early, readFailed, history, env>>
          \/ ~ok /\ Abort /\ UNCHANGED registered

\* Mutant of CreateBitfield: an existing file is not looked for.
RecreateBitfield ==
    /\ at = "openBitfield"
    /\ metainfo.piece_length # 0
    /\ bitfieldFile' = File(<<>>)
    /\ at' = "createBitfield"
    /\ UNCHANGED <<vars, torrentFile, registered, locals, history, env>>

\* The bitfield file does not exist: it is opened for writing.
CreateBitfield ==
    /\ at = "openBitfield"
    /\ ~bitfieldFile.exists
    /\ \/ /\ metainfo.piece_length = 0     \* division by zero
          /\ Abort /\ UNCHANGED registered
       \/ /\ metainfo.piece_length # 0
          /\ bitfieldFile' = File(<<>>)
          /\ at' = "createBitfield"
          /\ UNCHANGED <<vars, torrentFile, registered, locals, history, env>>

FillBitfield ==
    /\ at = "createBitfield"
    /\ bitfieldFile' = emptyFile(bitfieldSize)
    /\ at' = "readBitfield"
    /\ UNCHANGED <<vars, torrentFile, registered, locals, history, env>>

ReadBitfield ==
    /\ \/ at = "readBitfield"
       \/ at = "openBitfield" /\ bitfieldFile.exists
    /\ bitfield' = bitfieldFile.bytes
    /\ at' = "announce"
    /\ UNCHANGED <<vars, disk, registered, metainfo, response, peers, bpeers,
                   break_early, readFailed, history, env>>
-----------------------------------------------------------------------------
(* The tracker.                                                            *)

\* Mutant of Request: the parser's totals are read when they are sent.
RequestLive(event) ==
    [event |-> event, info_hash |-> collectedInfoDict,
     left |-> collectedLength]

Request(event) ==
    [event |-> event, info_hash |-> metainfo.infodict,
     left |-> metainfo.total_length]

\* A tracker that does not refuse has done what it was told.
answered(event, reply) == IF reply \in Refusals THEN registered ELSE event = "started"

\* Mutant of makeGetRequest: a failure returns an empty response.
makeGetRequestLenient(event, next) ==
    /\ announced' = Append(announced, Request(event))
    /\ \/ registered' \in {registered, event = "started"} /\ response' = <<>>
       \/ response' \in Replies /\ registered' = answered(event, response')
    /\ at' = next
    /\ UNCHANGED <<vars, disk, metainfo, bitfield, peers, bpeers,
                   break_early, readFailed, deleted, env>>

\* buildAnnounceParameters and makeGetRequest.  A request that fails may have
\* reached the tracker; every failure, and every status but 200, is an exit.  With
\* 200 the tracker may still refuse: main looks for a failure reason in the first
\* reply only.
makeGetRequest(event, next) ==
    /\ announced' = Append(announced, Request(event))
    /\ \/ /\ registered' \in {registered, event = "started"}
          /\ End("failure") /\ UNCHANGED <<disk, runs, faults>>
       \/ /\ response' \in Replies
          /\ registered' = answered(event, response')
          /\ at' = next
          /\ UNCHANGED <<vars, disk, metainfo, bitfield, peers, bpeers,
                         break_early, readFailed, deleted, env>>

HasSlash(s) == \E i \in DOMAIN s : s[i] = chSlash

\* An announce URL without '/' is an exit where size_t has 32 bits; where it
\* has 64, the comparison with npos fails and main goes on.
AnnounceStarted ==
    /\ at = "announce"
    /\ \/ makeGetRequest("started", "checkResponse")
       \/ ~HasSlash(metainfo.announce) /\ Exit /\ UNCHANGED registered

\* Mutant of CheckResponse: an empty response is parsed.
ParseAnyResponse ==
    /\ at = "checkResponse"
    /\ parseBencodedString /\ buf' = response
    /\ at' = "parseReply"
    /\ UNCHANGED <<disk, registered, locals, history, env>>

CheckResponse ==
    /\ at = "checkResponse"
    /\ \/ /\ response = <<>>
          /\ Exit /\ UNCHANGED registered
       \/ /\ response # <<>>
          /\ parseBencodedString /\ buf' = response
          /\ at' = "parseReply"
          /\ UNCHANGED <<disk, registered, locals, history, env>>

\* A reply main goes on with: the counts, and a list of peers.
UsableReply ==
    /\ \A key \in {CompleteKey, IncompleteKey, IntervalKey} :
           HasTyped(ret, key, "BInteger")
    /\ HasTyped(ret, PeersKey, "BList")

\* A failure reason, and peers in the packed binary form, are an exit; a
\* missing key or a value of another type is an exception.
HandleReply ==
    /\ at = "parseReply" /\ pc = "idle"
    /\ LET refused == HasKey(ret, FailureKey)
           said    == HasTyped(ret, FailureKey, "BString")
           packed  == /\ \A key \in {CompleteKey, IncompleteKey, IntervalKey} :
                             HasTyped(ret, key, "BInteger")
                      /\ HasTyped(ret, PeersKey, "BString")
       IN \/ /\ IF refused THEN said ELSE packed
             /\ Exit /\ UNCHANGED registered
          \/ /\ ~refused /\ UsableReply
             /\ peers' = heap[At(ret, PeersKey)].listVal
             /\ at' = "makePeers"
             /\ UNCHANGED <<vars, disk, registered, metainfo, bitfield,
                            response, bpeers, break_early, readFailed, history, env>>
          \/ /\ IF refused THEN ~said ELSE ~packed /\ ~UsableReply
             /\ Abort /\ UNCHANGED registered

\* One BPeer for each peer object with an address and a port.
MakePeer ==
    /\ at = "makePeers"
    /\ bpeers < Len(peers)
    /\ LET p == peers[bpeers + 1]
           ok == HasTyped(p, IpKey, "BString") /\ HasTyped(p, PortKey, "BInteger")
       IN \/ /\ ok
             /\ bpeers' = bpeers + 1
             /\ UNCHANGED <<vars, at, disk, registered, metainfo, bitfield,
                            response, peers, break_early, readFailed, history, env>>
          \/ ~ok /\ Abort /\ UNCHANGED registered

PeersMade ==
    /\ at = "makePeers"
    /\ bpeers = Len(peers)
    /\ at' = "connect"
    /\ UNCHANGED <<vars, disk, registered, locals, history, env>>

\* Mutant of TryConnect: the same peer is tried again and again.
TryConnectAgain ==
    /\ at = "connect"
    /\ break_early < bpeers /\ break_early <= 5
    /\ UNCHANGED allVars

\* tryConnect returns 0 or -1; main ignores which.
TryConnect ==
    /\ at = "connect"
    /\ break_early < bpeers /\ break_early <= 5
    /\ break_early' = break_early + 1
    /\ UNCHANGED <<vars, at, disk, registered, metainfo, bitfield, response,
                   peers, bpeers, readFailed, history, env>>

Connected ==
    /\ at = "connect"
    /\ break_early = bpeers \/ break_early > 5
    /\ at' = "deletePeers"
    /\ UNCHANGED <<vars, disk, registered, locals, history, env>>

\* Mutant of DeletePeer: the iterator is not advanced.
DeleteFirstPeer ==
    /\ at = "deletePeers"
    /\ Len(deleted) < Len(peers)
    /\ deleted' = Append(deleted, peers[1])
    /\ UNCHANGED <<vars, at, disk, registered, locals, announced, env>>

\* delete(p) for the objects of the tracker's list; the memory manager still
\* holds the pointers.
DeletePeer ==
    /\ at = "deletePeers"
    /\ Len(deleted) < Len(peers)
    /\ deleted' = Append(deleted, peers[Len(deleted) + 1])
    /\ UNCHANGED <<vars, at, disk, registered, locals, announced, env>>

PeersDeleted ==
    /\ at = "deletePeers"
    /\ Len(deleted) = Len(peers)
    /\ at' = "stop"
    /\ UNCHANGED <<vars, disk, registered, locals, history, env>>

AnnounceStopped ==
    /\ at = "stop"
    /\ makeGetRequest("stopped", "saveBitfield")

\* writeBitfield: opening the stream empties the file.  An empty bitfield is
\* not written.
TruncateBitfield ==
    /\ at = "saveBitfield"
    /\ bitfieldFile' = File(<<>>)
    /\ at' = "writeBitfield"
    /\ UNCHANGED <<vars, torrentFile, registered, locals, history, env>>

WriteBitfield ==
    /\ at = "writeBitfield"
    /\ bitfieldFile' = IF bitfield = <<>> THEN bitfieldFile ELSE File(bitfield)
    /\ End("success")
    /\ UNCHANGED <<torrentFile, registered, announced, runs, faults>>
-----------------------------------------------------------------------------
\* The bitfield file cannot be opened for writing: it stays as it is, and main
\* goes on.
OpenFails ==
    /\ faults < MaxFaults /\ faults' = faults + 1
    /\ \/ /\ at = "openBitfield" /\ ~bitfieldFile.exists
          /\ metainfo.piece_length # 0
          /\ at' = "readBitfield"
          /\ UNCHANGED <<vars, locals, deleted, exitRequested>>
       \/ at = "saveBitfield" /\ End("success")
    /\ UNCHANGED <<disk, registered, announced, runs>>

\* readBitfield does not look whether the file was opened, or whether its end
\* or an error stopped the reading: the bytes before it, if any, are the
\* bitfield, and main goes on.
ReadFails ==
    /\ \/ at = "readBitfield"
       \/ at = "openBitfield" /\ bitfieldFile.exists
    /\ faults < MaxFaults /\ faults' = faults + 1
    /\ \E n \in 0..(Len(bitfieldFile.bytes) - 1) :
           bitfield' = SubSeq(bitfieldFile.bytes, 1, n)
    /\ readFailed' = TRUE
    /\ at' = "announce"
    /\ UNCHANGED <<vars, disk, registered, metainfo, response, peers, bpeers,
                   break_early, history, exitRequested, runs>>

\* The disk is full, or fails, while the file is written: as much of it as
\* there was room for is there, and main goes on.
WriteFails ==
    /\ faults < MaxFaults /\ faults' = faults + 1
    /\ \/ /\ at = "createBitfield"
          /\ bitfieldFile' = File(<<>>) /\ at' = "readBitfield"
          /\ UNCHANGED <<vars, locals, deleted, exitRequested>>
       \/ /\ at = "writeBitfield"
          /\ \E n \in 0..Len(bitfield) :
                 bitfieldFile' = File(SubSeq(bitfield, 1, n))
          /\ End("success")
    /\ UNCHANGED <<torrentFile, registered, announced, runs>>

\* The process is killed, or the machine stops.  Of a write in progress any
\* part may have reached the disk.
Crash ==
    /\ at \in Up
    /\ faults < MaxFaults
    /\ faults' = faults + 1
    /\ End("crashed")
    /\ \/ /\ at = "writeBitfield"
          /\ \E n \in 0..Len(bitfield) :
                 bitfieldFile' = File(SubSeq(bitfield, 1, n))
       \/ /\ at = "createBitfield"
          /\ bitfieldFile' \in {File(<<>>), emptyFile(bitfieldSize)}
       \/ /\ at \notin {"writeBitfield", "createBitfield"}
          /\ UNCHANGED bitfieldFile
    /\ UNCHANGED <<torrentFile, registered, announced, runs>>

\* Control-C is handled, so that it does not end the process; nothing reads
\* the flag.
CtrlHandler ==
    /\ at \in Up \ {"startup"}
    /\ ~exitRequested
    /\ exitRequested' = TRUE
    /\ UNCHANGED <<vars, at, disk, registered, locals, history, runs, faults>>

\* What a run does on its own once it is started.
Run ==
    \/ Startup \/ ReadFile \/ ParserStep \/ ParserThrows \/ FillMetainfo
    \/ CreateBitfield \/ FillBitfield \/ ReadBitfield
    \/ AnnounceStarted \/ CheckResponse \/ HandleReply
    \/ MakePeer \/ PeersMade \/ TryConnect \/ Connected
    \/ DeletePeer \/ PeersDeleted \/ AnnounceStopped
    \/ TruncateBitfield \/ WriteBitfield

SessionNext ==
    Run \/ Start \/ Crash \/ OpenFails \/ ReadFails \/ WriteFails \/ CtrlHandler

SessionSpec == SessionInit /\ [][SessionNext]_allVars

\* The run is main's only thread.  Requests and connection attempts time out
\* in the library and in the operating system, so that none waits for ever.
SessionFairSpec == SessionSpec /\ WF_allVars(Run)
-----------------------------------------------------------------------------
(* Properties                                                              *)

Requests == [event : {"started", "stopped"}, info_hash : Str, left : Int64]

\* Type invariant of main's own state; the parser's is TypeOK.  One run makes
\* at most two requests and at most six connection attempts.
SessionTypeOK ==
    /\ at \in Ended \cup Up
    /\ torrentFile \in [exists : BOOLEAN, bytes : Str]
    /\ bitfieldFile \in Files
    /\ registered \in BOOLEAN
    /\ metainfo \in [infodict : Str, total_length : Int64,
                     piece_length : 0..(Int64Modulus - 1), announce : Str]
    /\ bitfield \in Seq(Byte)
    /\ response \in Str
    /\ peers \in Seq(Nat) /\ bpeers \in 0..Len(peers)
    /\ break_early \in 0..6 /\ readFailed \in BOOLEAN
    /\ deleted \in Seq(Nat)
    /\ announced \in Seq(Requests) /\ Len(announced) <= 2
    /\ exitRequested \in BOOLEAN
    /\ runs \in 0..MaxRuns /\ faults \in 0..MaxFaults

\* No object is deleted twice, although main deletes objects the memory
\* manager still lists: the tracker's list never holds one object twice, and
\* ~BMemoryManager does not run (btor.cpp, `delete(p)', and the exit calls).
NoDoubleFree ==
    \A i, j \in DOMAIN deleted : deleted[i] = deleted[j] => i = j

\* The pointer to the tracker's reply that main dereferences without a check
\* is valid, and so is every peer object until main deletes it.
ReplyValid ==
    /\ at = "parseReply" /\ pc = "idle" => ret \in DOMAIN heap
    /\ at \in {"makePeers", "connect", "deletePeers"} =>
           \A i \in DOMAIN peers : peers[i] \in DOMAIN heap

\* All requests of a run name the same torrent and the same amount left,
\* whatever keys "info" and "length" the tracker's reply puts through the same
\* parser in between.
AnnouncesAgree ==
    \A i, j \in DOMAIN announced :
        /\ announced[i].info_hash = announced[j].info_hash
        /\ announced[i].left = announced[j].left

Events == [i \in DOMAIN announced |-> announced[i].event]

\* A run that saves its bitfield is no longer listed, unless the tracker has
\* refused to stop it; and one that ends with EXIT_SUCCESS told the tracker that
\* it started and stopped and, unless the disk failed, left a bitfield file.
SuccessIsClean ==
    /\ at \in Saving /\ registered => response \in Refusals
    /\ at = "success" =>
        /\ Events = <<"started", "stopped">>
        /\ faults = 0 => bitfieldFile.exists

\* What the bitfield file will be if the run goes on: while main is creating
\* or rewriting it, its content on disk is not yet what main is putting there.
savedFile ==
    CASE at = "createBitfield" -> NoFile
      [] at = "writeBitfield"  -> File(bitfield)
      [] OTHER -> bitfieldFile

Store == INSTANCE BitfieldStore WITH file <- savedFile, Files <- BitfieldFiles

\* Runs that are not killed, and whose disk does not fail, keep what is in the
\* bitfield file: main implements the store a download is resumed from.
BitfieldKept == Store!Spec

\* Only a kill, a write that fails, or a read that failed in the same run, may
\* lose what is in the bitfield file: every other step of any run, also of a run
\* after any of these, keeps it or creates the file.  (What a failed read has
\* left out is lost when the run saves the rest over the whole.)
KeptUnlessFault ==
    [][faults' = faults /\ ~readFailed => [Store!Create]_savedFile]_allVars

\* The pieces a bitfield file claims.
Held(f) == {piece \in 0..(8 * Len(f.bytes) - 1) :
               isBitInBitfieldSet(f.bytes, piece)}

\* Whatever is killed or fails when, the bitfield file never claims a piece that it did
\* not hold before.
NothingForged == [][Held(savedFile') \subseteq Held(savedFile)]_savedFile

\* A run that was started ends: no reply and no pressing of Control-C keeps
\* it going for ever.
EveryRunEnds == at \in Up ~> at \in Ended

\* "We don't want to exit out of ANY FUNCTIONS since we need to send stop
\* signals": once the tracker has answered, a run that exits with a failure
\* has taken the client off the tracker's list.
StopBeforeExit ==
    [][(at \in {"checkResponse", "parseReply"} /\ at' = "failure")
          => ~registered']_allVars
-----------------------------------------------------------------------------
(* The inductive invariant behind the properties of a run.                 *)

BeforeDeleting == {"startup", "readFile", "openBitfield", "createBitfield",
                   "readBitfield", "announce", "checkResponse", "makePeers",
                   "connect"} \cup Parsing
BeforeAnnouncing == {"startup", "readFile", "parseTorrent", "openBitfield",
                     "createBitfield", "readBitfield", "announce"}

\* The list of the tracker's peers holds no object twice; what was deleted is
\* an initial part of it.
DeletedInv ==
    /\ at \in Ended \cup (BeforeDeleting \ {"makePeers", "connect"})
           => peers = <<>>
    /\ \A i, j \in DOMAIN peers : peers[i] = peers[j] => i = j
    /\ at \in BeforeDeleting => deleted = <<>>
    /\ at = "deletePeers" =>
           /\ Len(deleted) <= Len(peers)
           /\ \A i \in DOMAIN deleted : deleted[i] = peers[i]

\* The requests of a running client were made from main's own Metainfo: one
\* before the peers are tried, the second to stop.
RequestsInv ==
    /\ at \in BeforeAnnouncing => announced = <<>>
    /\ at \in Up \ {"saveBitfield", "writeBitfield"} => Len(announced) <= 1
    /\ at \in Up => \A i \in DOMAIN announced :
           /\ announced[i].info_hash = metainfo.infodict
           /\ announced[i].left = metainfo.total_length

\* The bitfield file is created only after the division by the piece length.
CreateInv == at = "createBitfield" => metainfo.piece_length # 0

BetweenAnnounces == {"checkResponse", "parseReply", "makePeers", "connect",
                     "deletePeers", "stop"}

\* What the tracker was told, at each point of a run.
EventsInv ==
    /\ at \in BetweenAnnounces => Events = <<"started">>
    /\ at \in Saving \cup {"success"} => Events = <<"started", "stopped">>
    /\ at \in Saving /\ registered => response \in Refusals

\* A file that was opened for writing is empty until it is written.  After it
\* was read, state.bitfield is what is in it, or a beginning if the read has
\* failed; and unless the disk failed, it is there.
FileInv ==
    /\ at \in {"createBitfield", "writeBitfield"} => bitfieldFile = File(<<>>)
    /\ at \in BetweenAnnounces \cup {"announce", "saveBitfield"} =>
           \/ bitfield = bitfieldFile.bytes
           \/ /\ readFailed
              /\ \E n \in 0..Len(bitfieldFile.bytes) :
                     bitfield = SubSeq(bitfieldFile.bytes, 1, n)
    /\ readFailed => faults # 0
    /\ faults = 0 =>
           (at \in BetweenAnnounces \cup Saving
                      \cup {"createBitfield", "readBitfield", "announce", "success"}
                => bitfieldFile.exists)

\* The reply that is parsed is not empty, so that its root is an object.
ReplyInv == ReplyValid /\ (at = "parseReply" => buf # <<>> /\ parses > 0)

SInv ==
    /\ IInv /\ SessionTypeOK /\ CreateInv
    /\ DeletedInv /\ NoDoubleFree
    /\ RequestsInv /\ AnnouncesAgree
    /\ EventsInv /\ FileInv /\ ReplyInv
=============================================================================
