--------------------------- MODULE ResumableTileRun ---------------------------
(***************************************************************************)
(* The crash-safe tile run of src/src/runtime/chunk/resumable_tile_run.    *)
(* {h,cpp}, driven as runResumable() of chunked_run.cpp drives it.         *)
(*                                                                         *)
(* Processes (or threads) share one statePath: the journal of commits, the *)
(* checkpoint, the PUBLISHED marker and the lock file beside them. The     *)
(* tiles live in a directory per identity key. A process may die, be       *)
(* cancelled or see a call throw between any two steps, and inside the     *)
(* append and the wipe, which are not atomic.                              *)
(*                                                                         *)
(* The journal is read by lines: a line is a header with a key, a commit   *)
(* of a tile, or neither (torn). Only the last one may lack its newline.   *)
(***************************************************************************)
EXTENDS Integers, Sequences, SequencesExt, FiniteSets, FiniteSetsExt

CONSTANTS
  Processes,     \* callers of runResumable() on this statePath
  NoProcess,     \* nobody holds the lock
  Keys,          \* run identity keys
  NoKey,         \* no key, or one that is nobody's
  Key,           \* the identity of the run of each process
  Alike,         \* keys that differ in the partition only: they pass each
                 \* other's operator and input gates on the checkpoint
  N,             \* m_totalTiles
  Interval,      \* checkpointIntervalTiles, 0: only at the end
  CutsNewline,   \* a crash may cut an append right before its newline
  MaxStops,      \* bound: crashes, cancels and exceptions
  MaxRots        \* bound: tile files damaged by somebody else

ASSUME RunAssumption ==
  /\ N \in Nat \ {0} /\ Interval \in Nat /\ MaxStops \in Nat /\ MaxRots \in Nat
  /\ NoProcess \notin Processes /\ NoKey \notin Keys
  /\ Key \in [Processes -> Keys] /\ Alike \subseteq Keys
  /\ CutsNewline \in BOOLEAN

Tiles == 1 .. N

VARIABLES
  journal,   \* <statePath>.journal: its terminated lines, and the rest of it
  ckpt,      \* the key the intact <statePath>.ckpt names
  marker,    \* the key <statePath>.published names
  tiles,     \* per key, the tiles with an intact file
  owner,     \* who holds <statePath>.lock
  pc,        \* where each process is in runResumable()
  index,     \* the tile the loop of execute() is at
  view,      \* journal.committed
  since,     \* sinceCheckpoint
  wiping,    \* what wipeState() has yet to remove, and where it returns to
  stops, rots,
  acked,     \* history, per key: tiles whose append returned, still on disk
  lost,      \* history, per key: tiles a wipe or somebody else removed
  published, \* history: keys whose publish() ran since their state was wiped
  refused    \* history: a journal was refused as corrupt

disk == <<journal, ckpt, marker, tiles>>
run == <<index, view, since>>
history == <<acked, lost, published, refused>>
vars == <<disk, owner, pc, run, wiping, stops, rots, history>>

-----------------------------------------------------------------------------
(* The journal as a file of lines.                                         *)

Header(k) == [tag |-> "V", key |-> k, tile |-> 0]
Commit(i) == [tag |-> "C", key |-> NoKey, tile |-> i]
Torn == [tag |-> "torn", key |-> NoKey, tile |-> 0]
Nothing == [tag |-> "none", key |-> NoKey, tile |-> 0]

Lines == {Header(k) : k \in Keys \cup {NoKey}} \cup {Commit(i) : i \in Tiles} \cup {Torn}

NoFile == [exists |-> FALSE, lines |-> <<>>, rest |-> Nothing]
EmptyFile == [exists |-> TRUE, lines |-> <<>>, rest |-> Nothing]

\* what std::getline() delivers: an unterminated last line counts
Read(j) == IF j.rest = Nothing THEN j.lines ELSE Append(j.lines, j.rest)

\* text written behind an unterminated line continues that line; a header
\* with something behind its key is the header of a key nobody has
Glued(rest, line) ==
  IF rest = Nothing THEN line ELSE IF rest.tag = "V" THEN Header(NoKey) ELSE Torn

AddLine(j, line) ==
  [exists |-> TRUE, lines |-> Append(j.lines, Glued(j.rest, line)), rest |-> Nothing]

\* an append of line that reached the disk in part
LineTears(j, line) ==
  LET parts == {Torn} \cup (IF line.tag = "V" THEN {Header(NoKey)} ELSE {})
                      \cup (IF CutsNewline THEN {line} ELSE {})
  IN {[exists |-> TRUE, lines |-> j.lines, rest |-> Glued(j.rest, part)] : part \in parts}

NeedsHeader(j) == Read(j) = <<>>

Headed(j, k) == IF NeedsHeader(j) THEN AddLine(EmptyFile, Header(k)) ELSE j

Appended(j, k, i) == AddLine(Headed(j, k), Commit(i))

\* everything an append that was interrupted may leave behind
Tears(j, k, i) ==
  {j, Headed(j, k), Appended(j, k, i)} \cup LineTears(Headed(j, k), Commit(i))
    \cup IF NeedsHeader(j) THEN {EmptyFile} \cup LineTears(EmptyFile, Header(k)) ELSE {}

CommittedIn(lines) == {lines[n].tile : n \in 2 .. Len(lines)}

\* the tiles the journal claims for key k
CommittedBy(k) ==
  IF Read(journal) # <<>> /\ Read(journal)[1] = Header(k)
    THEN CommittedIn(Read(journal)) \ {0} ELSE {}

\* where a line that is no commit stands behind the header
FirstBad(lines) == {n \in 2 .. Len(lines) : lines[n].tag # "C"}

BugVerdict(j, k) ==
  LET lines == Read(j) IN
  CASE lines = <<>> -> "fresh"
    [] lines # <<>> /\ lines[1].tag # "V" /\ Len(lines) = 1 -> "tornHeader"
    [] lines # <<>> /\ lines[1].tag = "V" /\ FirstBad(lines) = {} -> "good"
    [] lines # <<>> /\ lines[1].tag = "V" /\ FirstBad(lines) = {Len(lines)} -> "tornTail"
    [] OTHER -> "corrupt"

\* the verdict of loadJournal() on a journal, for key k
Verdict(j, k) ==
  LET lines == Read(j) IN
  IF lines = <<>> THEN "fresh"
  ELSE IF lines[1].tag = "V" /\ lines[1].key # k THEN "foreign"
  ELSE IF lines[1].tag # "V" /\ Len(lines) = 1 THEN "tornHeader"
  ELSE IF lines[1] = Header(k) /\ FirstBad(lines) = {} THEN "good"
  ELSE IF lines[1] = Header(k) /\ FirstBad(lines) = {Len(lines)} THEN "tornTail"
  ELSE "corrupt"

BugKeepTail(j) == j

\* resize_file() to the end of the last line that is well formed
Truncated(j) == [exists |-> TRUE, lines |-> Front(Read(j)), rest |-> Nothing]

-----------------------------------------------------------------------------
Goto(p, l) == pc' = [pc EXCEPT ![p] = l]

\* the destructor of the lock, and of what execute() kept in memory
Released(p) ==
  /\ owner' = IF owner = p THEN NoProcess ELSE owner
  /\ index' = [index EXCEPT ![p] = 1]
  /\ view' = [view EXCEPT ![p] = {}]
  /\ since' = [since EXCEPT ![p] = 0]

Everything == <<"tiles", "journal", "ckpt", "marker">>
AllButMarker == <<"tiles", "journal", "ckpt">>

Wipes(p, what, after) ==
  /\ Goto(p, "wipe")
  /\ wiping' = [wiping EXCEPT ![p] = [left |-> what, after |-> after]]

Init ==
  /\ journal = NoFile
  /\ ckpt = NoKey
  /\ marker = NoKey
  /\ tiles = [k \in Keys |-> {}]
  /\ owner = NoProcess
  /\ pc = [p \in Processes |-> "idle"]
  /\ index = [p \in Processes |-> 1]
  /\ view = [p \in Processes |-> {}]
  /\ since = [p \in Processes |-> 0]
  /\ wiping = [p \in Processes |-> [left |-> <<>>, after |-> "idle"]]
  /\ stops = 0 /\ rots = 0
  /\ acked = [k \in Keys |-> {}]
  /\ lost = [k \in Keys |-> {}]
  /\ published = {}
  /\ refused = FALSE

\* execute() takes the lock or throws ChunkRunLockHeld
Execute(p) ==
  /\ pc[p] = "idle"
  /\ \/ /\ owner = NoProcess
        /\ owner' = p
        /\ Goto(p, "check")
     \/ /\ owner # NoProcess
        /\ Goto(p, "turnedAway")
        /\ UNCHANGED owner
  /\ UNCHANGED <<disk, run, wiping, stops, rots, history>>

BugCheckMarker(p) ==
  /\ pc[p] = "check"
  /\ Goto(p, "load")
  /\ UNCHANGED <<disk, owner, run, wiping, stops, rots, history>>

\* a marker of this run ends it with nothing done, one of another run wipes
CheckMarker(p) ==
  /\ pc[p] = "check"
  /\ \/ marker = Key[p] /\ Goto(p, "cleanup") /\ Released(p) /\ UNCHANGED wiping
     \/ marker = NoKey /\ Goto(p, "load") /\ UNCHANGED <<owner, run, wiping>>
     \/ /\ marker \notin {NoKey, Key[p]}
        /\ Wipes(p, Everything, "load")
        /\ UNCHANGED <<owner, run>>
  /\ UNCHANGED <<disk, stops, rots, history>>

Keeps(p, j) ==
  /\ journal' = j
  /\ view' = [view EXCEPT ![p] = CommittedIn(Read(j))]
  /\ Goto(p, "gate")
  /\ UNCHANGED <<owner, index, since, wiping, refused>>

\* loadJournal(); ChunkCorruptTile leaves execute()
LoadJournal(p) ==
  /\ pc[p] = "load"
  /\ \/ Verdict(journal, Key[p]) \in {"fresh", "good"} /\ Keeps(p, journal)
     \/ Verdict(journal, Key[p]) = "tornHeader" /\ Keeps(p, EmptyFile)
     \/ Verdict(journal, Key[p]) = "tornTail" /\ Keeps(p, Truncated(journal))
     \/ /\ Verdict(journal, Key[p]) = "foreign"
        /\ Wipes(p, Everything, "gate")
        /\ UNCHANGED <<journal, owner, run, refused>>
     \/ /\ Verdict(journal, Key[p]) = "corrupt"
        /\ refused' = TRUE
        /\ Goto(p, "failing")
        /\ Released(p)
        /\ UNCHANGED <<journal, wiping>>
  /\ UNCHANGED <<ckpt, marker, tiles, stops, rots, acked, lost, published>>

BugCheckpointGate(p) ==
  /\ pc[p] = "gate"
  /\ IF ckpt # NoKey /\ {ckpt, Key[p]} \subseteq Alike
       THEN Wipes(p, AllButMarker, "load")
       ELSE Goto(p, "tile") /\ UNCHANGED wiping
  /\ UNCHANGED <<disk, owner, run, stops, rots, history>>

\* a checkpoint that passes the operator and input gates and names another
\* run is stale: wipe and load again
CheckpointGate(p) ==
  /\ pc[p] = "gate"
  /\ \/ /\ ckpt \notin {NoKey, Key[p]} /\ {ckpt, Key[p]} \subseteq Alike
        /\ Wipes(p, AllButMarker, "load")
     \/ /\ ckpt \in {NoKey, Key[p]} \/ ~ {ckpt, Key[p]} \subseteq Alike
        /\ Goto(p, "tile")
        /\ UNCHANGED wiping
  /\ UNCHANGED <<disk, owner, run, stops, rots, history>>

\* a committed tile that reads back intact goes to consume()
ReuseTile(p) ==
  /\ pc[p] = "tile" /\ index[p] \in view[p] \cap tiles[Key[p]]
  /\ index' = [index EXCEPT ![p] = @ + 1]
  /\ UNCHANGED <<disk, owner, pc, view, since, wiping, stops, rots, history>>

\* any other one is computed
ComputeTile(p) ==
  /\ pc[p] = "tile" /\ index[p] \in Tiles \ (view[p] \cap tiles[Key[p]])
  /\ Goto(p, "write")
  /\ UNCHANGED <<disk, owner, run, wiping, stops, rots, history>>

BugWriteTile(p) ==
  /\ pc[p] = "write"
  /\ lost' = [lost EXCEPT ![Key[p]] = @ \ {index[p]}]
  /\ Goto(p, "append")
  /\ UNCHANGED <<disk, owner, run, wiping, stops, rots, acked, published, refused>>

\* DiskTileStore::writeFile(): .part, fsync, rename, fsync of the directory
WriteTile(p) ==
  /\ pc[p] = "write"
  /\ tiles' = [tiles EXCEPT ![Key[p]] = @ \cup {index[p]}]
  /\ lost' = [lost EXCEPT ![Key[p]] = @ \ {index[p]}]
  /\ Goto(p, "append")
  /\ UNCHANGED <<journal, ckpt, marker, owner, run, wiping, stops, rots, acked, published,
                 refused>>

\* appendCommit(), flushed and fsynced when it returns
AppendCommit(p) ==
  /\ pc[p] = "append"
  /\ journal' = Appended(journal, Key[p], index[p])
  /\ acked' = [acked EXCEPT ![Key[p]] = @ \cup ({index[p]} \cap tiles[Key[p]])]
  /\ Goto(p, "consume")
  /\ UNCHANGED <<ckpt, marker, tiles, owner, run, wiping, stops, rots, lost, published, refused>>

\* consume(), and every Interval tiles saveCheckpoint()
Consume(p) ==
  /\ pc[p] = "consume"
  /\ view' = [view EXCEPT ![p] = @ \cup {index[p]}]
  /\ index' = [index EXCEPT ![p] = @ + 1]
  /\ IF since[p] + 1 = Interval
       THEN since' = [since EXCEPT ![p] = 0] /\ ckpt' = Key[p]
       ELSE since' = [since EXCEPT ![p] = @ + 1] /\ UNCHANGED ckpt
  /\ Goto(p, "tile")
  /\ UNCHANGED <<journal, marker, tiles, owner, wiping, stops, rots, history>>

SaveLastCheckpoint(p) ==
  /\ pc[p] = "tile" /\ index[p] > N
  /\ ckpt' = Key[p]
  /\ Goto(p, "publish")
  /\ UNCHANGED <<journal, marker, tiles, owner, run, wiping, stops, rots, history>>

Publish(p) ==
  /\ pc[p] = "publish"
  /\ published' = published \cup {Key[p]}
  /\ Goto(p, "mark")
  /\ UNCHANGED <<disk, owner, run, wiping, stops, rots, acked, lost, refused>>

\* writeMarker() is atomic, then execute() returns
WriteMarker(p) ==
  /\ pc[p] = "mark"
  /\ marker' = Key[p]
  /\ Goto(p, "cleanup")
  /\ Released(p)
  /\ UNCHANGED <<journal, ckpt, tiles, wiping, stops, rots, history>>

\* cleanupAfterPublish(): runResumable() goes on without it when locked out
CleanupAfterPublish(p) ==
  /\ pc[p] = "cleanup"
  /\ IF owner = NoProcess
       THEN owner' = p /\ Wipes(p, AllButMarker, "idle")
       ELSE Goto(p, "idle") /\ UNCHANGED <<owner, wiping>>
  /\ UNCHANGED <<disk, run, stops, rots, history>>

BugAbandon(p) ==
  /\ pc[p] \in {"failing", "turnedAway"}
  /\ Goto(p, "idle")
  /\ UNCHANGED <<disk, owner, run, wiping, stops, rots, history>>

\* abandon(): what runResumable() does about every exception that is not a
\* cancellation or a failed commit, ChunkRunLockHeld included
Abandon(p) ==
  /\ pc[p] \in {"failing", "turnedAway"}
  /\ IF owner = NoProcess
       THEN owner' = p /\ Wipes(p, AllButMarker, "idle")
       ELSE Goto(p, "idle") /\ UNCHANGED <<owner, wiping>>
  /\ UNCHANGED <<disk, run, stops, rots, history>>

\* wipeState() removes one thing after the other, the tile files one by one
RemoveTile(p) ==
  /\ pc[p] = "wipe" /\ wiping[p].left # <<>> /\ Head(wiping[p].left) = "tiles"
  /\ \E i \in tiles[Key[p]] :
       /\ tiles' = [tiles EXCEPT ![Key[p]] = @ \ {i}]
       /\ lost' = [lost EXCEPT ![Key[p]] = @ \cup {i}]
       /\ acked' = IF wiping[p].after = "idle" THEN [acked EXCEPT ![Key[p]] = @ \ {i}] ELSE acked
  /\ UNCHANGED <<journal, ckpt, marker, owner, pc, run, wiping, stops, rots, published, refused>>

\* A wipe of execute() gives up the commits of other identities, the one of
\* abandon() or cleanupAfterPublish() all of them.
RemoveNext(p) ==
  /\ pc[p] = "wipe" /\ wiping[p].left # <<>>
  /\ LET item == Head(wiping[p].left) IN
       /\ item = "tiles" => tiles[Key[p]] = {}
       /\ journal' = IF item = "journal" THEN NoFile ELSE journal
       /\ ckpt' = IF item = "ckpt" THEN NoKey ELSE ckpt
       /\ marker' = IF item = "marker" THEN NoKey ELSE marker
       /\ published' = IF item = "marker" THEN published \ {marker} ELSE published
       /\ acked' = IF item # "journal" THEN acked
                   ELSE [k \in Keys |-> IF k = Key[p] /\ wiping[p].after # "idle"
                                          THEN acked[k] ELSE {}]
  /\ wiping' = [wiping EXCEPT ![p].left = Tail(@)]
  /\ UNCHANGED <<tiles, owner, pc, run, stops, rots, lost, refused>>

WipeReturns(p) ==
  /\ pc[p] = "wipe" /\ wiping[p].left = <<>>
  /\ Goto(p, wiping[p].after)
  /\ wiping' = [wiping EXCEPT ![p].after = "idle"]
  /\ IF wiping[p].after = "idle" THEN Released(p) ELSE UNCHANGED <<owner, run>>
  /\ UNCHANGED <<disk, stops, rots, history>>

InExecute(p) ==
  \/ pc[p] \in {"check", "load", "gate", "tile", "write", "append", "consume", "publish", "mark"}
  \/ pc[p] = "wipe" /\ wiping[p].after # "idle"

(* The process dies or is cancelled, or a call of execute() throws, which  *)
(* runResumable() answers with abandon(). The lock is free at once.        *)
Stop(p) ==
  /\ pc[p] # "idle" /\ stops < MaxStops
  /\ stops' = stops + 1
  /\ \/ Goto(p, "idle")
     \/ InExecute(p) /\ Goto(p, "failing")
  /\ Released(p)
  /\ wiping' = [wiping EXCEPT ![p] = [left |-> <<>>, after |-> "idle"]]
  /\ IF pc[p] = "append"
       THEN \E j \in Tears(journal, Key[p], index[p]) : journal' = j
       ELSE UNCHANGED journal
  /\ UNCHANGED <<ckpt, marker, tiles, rots, history>>

\* somebody else damages or removes a tile file
TileRots(k, i) ==
  /\ rots < MaxRots /\ i \in tiles[k]
  /\ rots' = rots + 1
  /\ tiles' = [tiles EXCEPT ![k] = @ \ {i}]
  /\ lost' = [lost EXCEPT ![k] = @ \cup {i}]
  /\ acked' = [acked EXCEPT ![k] = @ \ {i}]
  /\ UNCHANGED <<journal, ckpt, marker, owner, pc, run, wiping, stops, published, refused>>

Steps(p) ==
  \/ Execute(p) \/ CheckMarker(p) \/ LoadJournal(p) \/ CheckpointGate(p)
  \/ ReuseTile(p) \/ ComputeTile(p) \/ WriteTile(p) \/ AppendCommit(p) \/ Consume(p)
  \/ SaveLastCheckpoint(p) \/ Publish(p) \/ WriteMarker(p)
  \/ CleanupAfterPublish(p) \/ Abandon(p)
  \/ RemoveTile(p) \/ RemoveNext(p) \/ WipeReturns(p)

Next ==
  \/ \E p \in Processes : Steps(p) \/ Stop(p)
  \/ \E k \in Keys, i \in Tiles : TileRots(k, i)

Spec == Init /\ [][Next]_vars

\* no step of a call waits for anybody, and callers keep retrying
FairSpec == Spec /\ \A p \in Processes : WF_vars(Steps(p))

-----------------------------------------------------------------------------
(* Every variable is what its declaration says; the checkpoint counter of  *)
(* execute() starts over at each checkpoint.                               *)
TypeOK ==
  /\ journal \in [exists : BOOLEAN, lines : Seq(Lines), rest : Lines \cup {Nothing}]
  /\ ckpt \in Keys \cup {NoKey} /\ marker \in Keys \cup {NoKey}
  /\ tiles \in [Keys -> SUBSET Tiles]
  /\ owner \in Processes \cup {NoProcess}
  /\ pc \in [Processes -> {"idle", "check", "load", "gate", "tile", "write", "append", "consume",
                           "publish", "mark", "cleanup", "failing", "turnedAway", "wipe"}]
  /\ index \in [Processes -> 1 .. N + 1]
  /\ view \in [Processes -> SUBSET Tiles]
  /\ since \in [Processes -> Nat]
  /\ Interval > 0 => \A p \in Processes : since[p] < Interval
  /\ wiping \in [Processes -> [left : Seq({"tiles", "journal", "ckpt", "marker"}),
                               after : {"idle", "load", "gate"}]]
  /\ stops \in 0 .. MaxStops /\ rots \in 0 .. MaxRots
  /\ acked \in [Keys -> SUBSET Tiles] /\ lost \in [Keys -> SUBSET Tiles]
  /\ published \subseteq Keys
  /\ refused \in BOOLEAN

(* The journal claims no tile whose file was not there before: a claimed   *)
(* tile without a file was removed since, by a wipe or by somebody else.   *)
(* (writeFile() before appendCommit(), wipeState() may stop half way.)     *)
CommittedTilesOnDisk ==
  \A k \in Keys : CommittedBy(k) \subseteq tiles[k] \cup lost[k]

(* R1: what a run takes for committed, a journal of its own identity says  *)
(* at that moment; nobody else's journal is continued, and nobody else     *)
(* touches it while the run is at work.                                    *)
NeverMixesIdentities ==
  \A p \in Processes :
    pc[p] \in {"gate", "tile", "write", "append", "consume", "publish", "mark"}
      => view[p] \subseteq CommittedBy(Key[p])

(* R5: the marker is the commit of the run: it stands for a publication,   *)
(* and while it stands nobody works on that run again.                     *)
MarkerIsTheCommit ==
  \A k \in Keys : marker = k =>
    /\ k \in published
    /\ \A p \in Processes : Key[p] = k =>
         pc[p] \notin {"load", "gate", "tile", "write", "append", "consume", "publish", "mark"}

(* R2: a tile whose append returned is not computed again, whatever dies   *)
(* or is torn in between, unless its file was damaged, or its run was      *)
(* abandoned, cleaned up or displaced by another identity.                 *)
AcknowledgedNotRecomputed ==
  [][\A p \in Processes :
       pc[p] = "tile" /\ pc'[p] = "write" => index[p] \notin acked[Key[p]]]_vars

(* R3: whatever a crash does to an append, the journal it leaves is        *)
(* truncated to its last complete line and never refused as corrupt.       *)
NeverRefusesOwnJournal == ~ refused

(* Callers that keep retrying get the run published and marked, whatever   *)
(* finitely many crashes do, a journal refused as corrupt included:        *)
(* runResumable() abandons it and starts over.                             *)
RetriesPublish == \A p \in Processes : <>(marker = Key[p])

(* A run that was refused the lock leaves the committed tiles of the run   *)
(* that held it alone.                                                     *)
TurnedAwayHarmsNobody ==
  [][\A p \in Processes :
       pc[p] = "turnedAway" /\ pc'[p] = "wipe" => \A k \in Keys : acked[k] = {}]_vars

=============================================================================
