----------------------- MODULE ResumableTileRunProofs -----------------------
(***************************************************************************)
(* Theorems about ResumableTileRun.tla, for any callers, keys, tiles,      *)
(* checkpoint interval and number of crashes. What they say of the journal *)
(* assumes that no crash cuts a line right before its newline: a line left *)
(* so is well formed, and the next commit is glued to it.                  *)
(***************************************************************************)
EXTENDS ResumableTileRun, SequenceTheorems, TLAPS

USE DEF vars, disk, run, history

Pcs == {"idle", "check", "load", "gate", "tile", "write", "append", "consume",
        "publish", "mark", "cleanup", "failing", "turnedAway", "wipe"}

\* where a process is behind the lock
Inside == {"check", "load", "gate", "tile", "write", "append", "consume", "publish", "mark", "wipe"}

\* where it has loaded the journal
Working == {"gate", "tile", "write", "append", "consume", "publish", "mark"}

\* what is left of a wipe that has taken the journal, and one that will not
\* or did already take the marker
Journalless == {<<"ckpt", "marker">>, <<"marker">>, <<"ckpt">>, <<>>}
Markerless == {<<"tiles", "journal", "ckpt">>, <<"journal", "ckpt">>, <<"ckpt">>, <<>>}
Lefts == Journalless \cup Markerless
          \cup {<<"tiles", "journal", "ckpt", "marker">>, <<"journal", "ckpt", "marker">>}

(* A whole journal: a header and commits of tiles behind it, at the end    *)
(* perhaps a torn line.                                                    *)
WellFormed(j) ==
  /\ j \in [exists : BOOLEAN, lines : Seq(Lines), rest : Lines \cup {Nothing}]
  /\ j.lines = <<>> => j.rest \in {Nothing, Torn, Header(NoKey)}
  /\ j.lines # <<>> => /\ \E k \in Keys : j.lines[1] = Header(k)
                       /\ \A n \in 2 .. Len(j.lines) : \E i \in Tiles : j.lines[n] = Commit(i)
                       /\ j.rest \in {Nothing, Torn}

\* the tiles a well formed journal claims for key k
Claims(j, k) ==
  IF j.lines # <<>> /\ j.lines[1] = Header(k) THEN CommittedIn(j.lines) ELSE {}

TypeInv ==
  /\ ckpt \in Keys \cup {NoKey} /\ marker \in Keys \cup {NoKey}
  /\ tiles \in [Keys -> SUBSET Tiles]
  /\ owner \in Processes \cup {NoProcess}
  /\ pc \in [Processes -> Pcs]
  /\ index \in [Processes -> 1 .. N + 1]
  /\ \A p \in Processes : pc[p] \in {"write", "append", "consume"} => index[p] \in Tiles
  /\ view = [p \in Processes |-> view[p]]
  /\ since \in [Processes -> Nat]
  /\ wiping \in [Processes -> [left : Lefts, after : {"idle", "load", "gate"}]]
  /\ acked \in [Keys -> SUBSET Tiles] /\ lost \in [Keys -> SUBSET Tiles]
  /\ published \subseteq Keys

LockInv == \A p \in Processes : pc[p] \in Inside => owner = p

MarkerInv ==
  /\ marker # NoKey => marker \in published
  /\ \A p \in Processes :
       /\ pc[p] \in Working \cup {"load"} => marker = NoKey
       /\ pc[p] = "wipe" /\ wiping[p].after # "idle" /\ wiping[p].left \in Markerless
            => marker = NoKey
       /\ pc[p] = "mark" => Key[p] \in published

\* the view of a process, and the journal it works on
Reads(p) ==
  /\ pc[p] \in Working =>
       /\ journal.rest = Nothing
       /\ journal.lines = <<>> \/ journal.lines[1] = Header(Key[p])
       /\ view[p] \subseteq Claims(journal, Key[p])
  /\ pc[p] = "consume" => index[p] \in Claims(journal, Key[p])
  /\ pc[p] \in {"idle", "check", "cleanup", "failing", "turnedAway"} => view[p] = {}
  /\ pc[p] = "load" => view[p] = {} \/ journal = NoFile
  /\ pc[p] = "wipe" /\ wiping[p].after = "gate" => view[p] = {}
  /\ pc[p] = "wipe" /\ wiping[p].left \in Journalless => journal = NoFile

JournalInv ==
  /\ WellFormed(journal)
  /\ ~ refused
  /\ \A p \in Processes : Reads(p)

FilesInv ==
  /\ \A k \in Keys : Claims(journal, k) \subseteq tiles[k] \cup lost[k]
  /\ \A p \in Processes :
       pc[p] = "append" => index[p] \in tiles[Key[p]] \cup lost[Key[p]]

Displaced(k) ==
  \/ marker \notin {NoKey, k}
  \/ ckpt \notin {NoKey, k} /\ {ckpt, k} \subseteq Alike

\* the acknowledged tiles of key k: on disk, claimed, and none once the
\* marker or the checkpoint of another run will have them wiped
Kept(k) ==
  /\ acked[k] \subseteq tiles[k] \cap Claims(journal, k)
  /\ Displaced(k) => acked[k] = {}

\* what a process at work knows of them
Knows(p) ==
  /\ pc[p] \in Working \ {"gate"} =>
       ckpt \in {NoKey, Key[p]} \/ ~ {ckpt, Key[p]} \subseteq Alike
  /\ pc[p] \in Working \ {"consume"} => acked[Key[p]] \subseteq view[p]
  /\ pc[p] = "consume" => acked[Key[p]] \subseteq view[p] \cup {index[p]}
  /\ pc[p] = "wipe" /\ wiping[p].after # "idle" => acked[Key[p]] = {}

AckedInv ==
  /\ \A k \in Keys : Kept(k)
  /\ \A p \in Processes : Knows(p)

-----------------------------------------------------------------------------
(* The journal as a file.                                                  *)

LEMMA LineFacts ==
  /\ \A i \in Tiles : /\ Commit(i) \in Lines /\ Commit(i).tag = "C" /\ Commit(i).tile = i
                      /\ Commit(i) # Nothing /\ Commit(i) # Torn
                      /\ \A k : Commit(i) # Header(k)
  /\ \A k : /\ Header(k).tag = "V" /\ Header(k) # Nothing /\ Header(k) # Torn
            /\ Header(k).key = k
            /\ k \in Keys \cup {NoKey} => Header(k) \in Lines
  /\ Torn \in Lines /\ Torn # Nothing /\ Torn.tag = "torn" /\ Nothing.tag = "none"
BY DEF Commit, Header, Torn, Nothing, Lines

(* An unterminated journal without lines, or a file that is not there,     *)
(* claims nothing and may be started.                                      *)
LEMMA Blank ==
  ASSUME NEW j, j.lines = <<>>, j.rest \in {Nothing, Torn, Header(NoKey)},
         j \in [exists : BOOLEAN, lines : Seq(Lines), rest : Lines \cup {Nothing}]
  PROVE  WellFormed(j) /\ \A k : Claims(j, k) = {}
BY DEF WellFormed, Claims

LEMMA NoFileIsBlank ==
  /\ WellFormed(NoFile) /\ \A k : Claims(NoFile, k) = {}
  /\ NoFile.rest = Nothing /\ NoFile.lines = <<>> /\ Read(NoFile) = <<>>
  /\ WellFormed(EmptyFile) /\ \A k : Claims(EmptyFile, k) = {}
  /\ EmptyFile.rest = Nothing /\ EmptyFile.lines = <<>> /\ Read(EmptyFile) = <<>>
BY Blank, EmptySeq DEF NoFile, EmptyFile, Read

(* What std::getline() delivers of a well formed journal.                  *)
LEMMA ReadFacts ==
  ASSUME NEW j, WellFormed(j)
  PROVE  /\ Read(j) \in Seq(Lines)
         /\ j.rest = Nothing => Read(j) = j.lines
         /\ j.rest # Nothing =>
              /\ Len(Read(j)) = Len(j.lines) + 1
              /\ Read(j)[Len(j.lines) + 1] = j.rest
              /\ \A n \in 1 .. Len(j.lines) : Read(j)[n] = j.lines[n]
              /\ Front(Read(j)) = j.lines
<1>1. j.lines \in Seq(Lines) /\ j.rest \in Lines \cup {Nothing}
  BY DEF WellFormed
<1>2. CASE j.rest = Nothing
  BY <1>1, <1>2 DEF Read
<1>3. CASE j.rest # Nothing
  <2>1. Read(j) = Append(j.lines, j.rest) /\ j.rest \in Lines
    BY <1>1, <1>3 DEF Read
  <2>2. /\ Read(j) \in Seq(Lines) /\ Len(Read(j)) = Len(j.lines) + 1
        /\ Read(j)[Len(j.lines) + 1] = j.rest
        /\ \A n \in 1 .. Len(j.lines) : Read(j)[n] = j.lines[n]
    BY <1>1, <2>1, AppendProperties
  <2>3. Front(Read(j)) = j.lines
    <3>1. Front(Read(j)) = SubSeq(Read(j), 1, Len(j.lines))
      BY <1>1, <2>2 DEF Front
    <3>2. /\ Len(j.lines) \in Nat
          /\ SubSeq(Read(j), 1, Len(j.lines)) \in Seq(Lines)
          /\ Len(SubSeq(Read(j), 1, Len(j.lines))) = Len(j.lines)
          /\ \A n \in 1 .. Len(j.lines) : SubSeq(Read(j), 1, Len(j.lines))[n] = Read(j)[n]
      BY <1>1, <2>2, SubSeqProperties, LenProperties
    <3>. QED BY <1>1, <2>2, <3>1, <3>2, SeqEqual
  <2>. QED BY <1>3, <2>2, <2>3
<1>. QED BY <1>2, <1>3

(* What a well formed journal claims are the tiles of its commits.         *)
LEMMA ClaimsFacts ==
  ASSUME NEW j, WellFormed(j), NEW k \in Keys
  PROVE  /\ Claims(j, k) \subseteq Tiles
         /\ \A m \in Keys : m # k /\ Claims(j, m) # {} => Claims(j, k) = {}
         /\ (IF Read(j) # <<>> /\ Read(j)[1] = Header(k)
               THEN CommittedIn(Read(j)) \ {0} ELSE {}) = Claims(j, k)
<1>1. j.lines \in Seq(Lines) /\ j.rest \in Lines \cup {Nothing}
  BY DEF WellFormed
<1>2. CommittedIn(j.lines) \subseteq Tiles
  BY LineFacts DEF WellFormed, CommittedIn
<1>3. \A m \in Keys : m # k /\ Claims(j, m) # {} => Claims(j, k) = {}
  BY LineFacts DEF Claims
<1>4. CommittedIn(j.lines) \ {0} = CommittedIn(j.lines)
      /\ (CommittedIn(j.lines) \cup {0}) \ {0} = CommittedIn(j.lines)
  <2>1. 0 \notin Tiles
    BY DEF Tiles
  <2>. QED BY <1>2, <2>1
<1>5. CASE j.rest = Nothing
  <2>1. Read(j) = j.lines
    BY <1>5, ReadFacts
  <2>2. CASE j.lines # <<>> /\ j.lines[1] = Header(k)
    BY <1>2, <1>3, <1>4, <2>1, <2>2, Zenon DEF Claims
  <2>3. CASE ~ (j.lines # <<>> /\ j.lines[1] = Header(k))
    BY <1>3, <2>1, <2>3 DEF Claims
  <2>. QED BY <2>2, <2>3
<1>6. CASE j.rest # Nothing /\ j.lines = <<>>
  <2>1. Read(j)[1] = j.rest
    BY <1>6, ReadFacts
  <2>2. j.rest # Header(k)
    BY <1>6, LineFacts, RunAssumption DEF WellFormed
  <2>. QED BY <1>6, <2>1, <2>2 DEF Claims
<1>7. CASE j.rest # Nothing /\ j.lines # <<>>
  <2>1. /\ Len(j.lines) \in Nat \ {0} /\ j.rest = Torn
        /\ Len(Read(j)) = Len(j.lines) + 1
        /\ Read(j)[Len(j.lines) + 1] = Torn
        /\ \A n \in 1 .. Len(j.lines) : Read(j)[n] = j.lines[n]
    BY <1>1, <1>7, ReadFacts, EmptySeq DEF WellFormed
  <2>2. CommittedIn(Read(j)) = CommittedIn(j.lines) \cup {Torn.tile}
    <3>1. 2 .. Len(Read(j)) = (2 .. Len(j.lines)) \cup {Len(j.lines) + 1}
      BY <2>1
    <3>2. \A n \in 2 .. Len(j.lines) : Read(j)[n].tile = j.lines[n].tile
      BY <2>1
    <3>. QED BY <2>1, <3>1, <3>2 DEF CommittedIn
  <2>3. Torn.tile = 0
    BY DEF Torn
  <2>4. Read(j) # <<>> /\ Read(j)[1] = j.lines[1]
    BY <1>7, <2>1
  <2>5. CASE j.lines[1] = Header(k)
    BY <1>2, <1>3, <1>4, <1>7, <2>2, <2>3, <2>4, <2>5, Zenon DEF Claims
  <2>6. CASE j.lines[1] # Header(k)
    BY <1>3, <2>4, <2>6 DEF Claims
  <2>. QED BY <2>5, <2>6
<1>. QED BY <1>2, <1>3, <1>5, <1>6, <1>7 DEF Claims

(* A line written behind a well formed journal that ends with a newline.   *)
LEMMA LineAdded ==
  ASSUME NEW j, WellFormed(j), j.rest = Nothing, j.lines # <<>>, NEW i \in Tiles
  PROVE  LET a == AddLine(j, Commit(i)) IN
         /\ WellFormed(a) /\ a.rest = Nothing /\ a.lines # <<>> /\ a.lines[1] = j.lines[1]
         /\ CommittedIn(a.lines) = CommittedIn(j.lines) \cup {i}
<1>. DEFINE a == AddLine(j, Commit(i))
<1>1. a = [exists |-> TRUE, lines |-> Append(j.lines, Commit(i)), rest |-> Nothing]
  <2>1. Glued(j.rest, Commit(i)) = Commit(i)
    BY DEF Glued
  <2>. QED BY <2>1 DEF AddLine
<1>2. j.lines \in Seq(Lines) /\ Len(j.lines) \in Nat \ {0} /\ Commit(i) \in Lines
  BY LineFacts, EmptySeq DEF WellFormed
<1>3. /\ a.lines \in Seq(Lines) /\ Len(a.lines) = Len(j.lines) + 1
      /\ \A n \in 1 .. Len(j.lines) : a.lines[n] = j.lines[n]
      /\ a.lines[Len(j.lines) + 1] = Commit(i)
  BY <1>1, <1>2, AppendProperties
<1>4. a.rest = Nothing /\ a.lines # <<>> /\ a.lines[1] = j.lines[1] /\ a.exists = TRUE
  BY <1>1, <1>2, <1>3
<1>5. 2 .. Len(a.lines) = (2 .. Len(j.lines)) \cup {Len(j.lines) + 1}
  BY <1>2, <1>3
<1>6. \A n \in 2 .. Len(j.lines) : a.lines[n] = j.lines[n]
  BY <1>2, <1>3
<1>7. WellFormed(a)
  BY <1>1, <1>3, <1>4, <1>5, <1>6 DEF WellFormed
<1>8. CommittedIn(a.lines) = CommittedIn(j.lines) \cup {i}
  <2>1. Commit(i).tile = i
    BY LineFacts
  <2>. QED BY <1>3, <1>5, <1>6, <2>1 DEF CommittedIn
<1>. QED BY <1>4, <1>7, <1>8

(* The header appendCommit() writes first into an empty journal.           *)
LEMMA HeadedFacts ==
  ASSUME NEW j, WellFormed(j), j.rest = Nothing, NEW k \in Keys,
         j.lines = <<>> \/ j.lines[1] = Header(k)
  PROVE  LET h == Headed(j, k) IN
         /\ WellFormed(h) /\ h.rest = Nothing /\ h.lines # <<>> /\ h.lines[1] = Header(k)
         /\ \A m \in Keys : Claims(h, m) = Claims(j, m)
         /\ NeedsHeader(j) <=> j.lines = <<>>
<1>1. NeedsHeader(j) <=> j.lines = <<>>
  BY ReadFacts DEF NeedsHeader
<1>2. CASE j.lines # <<>>
  BY <1>1, <1>2 DEF Headed
<1>3. CASE j.lines = <<>>
  <2>. DEFINE h == Headed(j, k)
  <2>1. h = [exists |-> TRUE, lines |-> <<Header(k)>>, rest |-> Nothing]
    <3>1. Glued(EmptyFile.rest, Header(k)) = Header(k)
      BY NoFileIsBlank DEF Glued
    <3>2. h = AddLine(EmptyFile, Header(k))
      BY <1>1, <1>3 DEF Headed
    <3>. QED BY <3>1, <3>2, NoFileIsBlank DEF AddLine
  <2>2. h.lines = <<Header(k)>> /\ h.rest = Nothing /\ h.exists = TRUE
    BY <2>1
  <2>3. Len(h.lines) = 1 /\ h.lines[1] = Header(k) /\ h.lines # <<>> /\ h.lines \in Seq(Lines)
    BY <2>2, LineFacts
  <2>4. 2 .. Len(h.lines) = {}
    BY <2>3
  <2>5. WellFormed(h)
    BY <2>1, <2>2, <2>3, <2>4 DEF WellFormed
  <2>6. CommittedIn(h.lines) = {}
    BY <2>4 DEF CommittedIn
  <2>7. \A m \in Keys : Claims(h, m) = Claims(j, m)
    BY <1>3, <2>6 DEF Claims
  <2>. QED BY <1>1, <1>3, <2>2, <2>3, <2>5, <2>7
<1>. QED BY <1>2, <1>3

(* What appendCommit() does: the tile is claimed for k and nobody else.    *)
LEMMA AppendedFacts ==
  ASSUME NEW j, WellFormed(j), j.rest = Nothing, NEW k \in Keys, NEW i \in Tiles,
         j.lines = <<>> \/ j.lines[1] = Header(k)
  PROVE  LET a == Appended(j, k, i) IN
         /\ WellFormed(a) /\ a.rest = Nothing /\ a.lines # <<>> /\ a.lines[1] = Header(k)
         /\ Claims(a, k) = Claims(j, k) \cup {i}
         /\ \A m \in Keys \ {k} : Claims(a, m) = {} /\ Claims(j, m) = {}
<1>. DEFINE h == Headed(j, k)
            a == AddLine(h, Commit(i))
<1>1. /\ WellFormed(h) /\ h.rest = Nothing /\ h.lines # <<>> /\ h.lines[1] = Header(k)
      /\ \A m \in Keys : Claims(h, m) = Claims(j, m)
  BY HeadedFacts
<1>. HIDE DEF h
<1>2. /\ WellFormed(a) /\ a.rest = Nothing /\ a.lines # <<>> /\ a.lines[1] = Header(k)
      /\ CommittedIn(a.lines) = CommittedIn(h.lines) \cup {i}
  BY <1>1, LineAdded
<1>3. Appended(j, k, i) = a
  BY DEF Appended, h
<1>. HIDE DEF a
<1>4. Claims(a, k) = CommittedIn(a.lines) /\ Claims(h, k) = CommittedIn(h.lines)
  BY <1>1, <1>2 DEF Claims
<1>5. ASSUME NEW m \in Keys \ {k} PROVE Claims(a, m) = {} /\ Claims(h, m) = {}
  <2>1. Header(m) # Header(k)
    BY LineFacts
  <2>. QED BY <1>1, <1>2, <2>1 DEF Claims
<1>6. Claims(a, k) = Claims(j, k) \cup {i}
  BY <1>1, <1>2, <1>4, Zenon
<1>. QED BY <1>1, <1>2, <1>3, <1>5, <1>6

(* What a crash leaves of it: the journal stays well formed and loses no   *)
(* claim, and may have got the new one.                                    *)
LEMMA TearsFacts ==
  ASSUME ~ CutsNewline,
         NEW j, WellFormed(j), j.rest = Nothing, NEW k \in Keys, NEW i \in Tiles,
         j.lines = <<>> \/ j.lines[1] = Header(k), NEW t \in Tears(j, k, i)
  PROVE  /\ WellFormed(t)
         /\ \A m \in Keys : /\ Claims(j, m) \subseteq Claims(t, m)
                            /\ Claims(t, m) \subseteq
                                 Claims(j, m) \cup (IF m = k THEN {i} ELSE {})
<1>. DEFINE h == Headed(j, k)
            Goal(x) == /\ WellFormed(x)
                       /\ \A m \in Keys :
                            /\ Claims(j, m) \subseteq Claims(x, m)
                            /\ Claims(x, m) \subseteq
                                 Claims(j, m) \cup (IF m = k THEN {i} ELSE {})
<1>1. /\ WellFormed(h) /\ h.rest = Nothing /\ h.lines # <<>> /\ h.lines[1] = Header(k)
      /\ \A m \in Keys : Claims(h, m) = Claims(j, m)
      /\ NeedsHeader(j) <=> j.lines = <<>>
  BY HeadedFacts
<1>2. Goal(j) /\ Goal(h)
  BY <1>1
<1>3. Goal(Appended(j, k, i))
  <2>1. /\ WellFormed(Appended(j, k, i))
        /\ Claims(Appended(j, k, i), k) = Claims(j, k) \cup {i}
        /\ \A m \in Keys \ {k} : Claims(Appended(j, k, i), m) = {} /\ Claims(j, m) = {}
    BY AppendedFacts
  <2>. QED BY <2>1
<1>4. ASSUME NEW x \in LineTears(h, Commit(i)) PROVE Goal(x)
  <2>1. x = [exists |-> TRUE, lines |-> h.lines, rest |-> Torn]
    <3>1. Commit(i).tag # "V"
      BY LineFacts
    <3>2. Glued(h.rest, Torn) = Torn
      BY <1>1 DEF Glued
    <3>. QED BY <3>1, <3>2 DEF LineTears
  <2>2. x.lines = h.lines /\ x.rest = Torn /\ x.exists = TRUE
    BY <2>1
  <2>3. WellFormed(x)
    BY <1>1, <2>1, <2>2, LineFacts DEF WellFormed
  <2>4. \A m \in Keys : Claims(x, m) = Claims(j, m)
    BY <1>1, <2>2 DEF Claims
  <2>. QED BY <2>3, <2>4
<1>5. ASSUME j.lines = <<>>, NEW x \in {EmptyFile} \cup LineTears(EmptyFile, Header(k))
      PROVE  Goal(x)
  <2>1. \A m \in Keys : Claims(j, m) = {}
    BY <1>5 DEF Claims
  <2>2. \A y \in LineTears(EmptyFile, Header(k)) :
          \E part \in {Torn, Header(NoKey)} :
            y = [exists |-> TRUE, lines |-> <<>>, rest |-> part]
    <3>1. Glued(EmptyFile.rest, Torn) = Torn
          /\ Glued(EmptyFile.rest, Header(NoKey)) = Header(NoKey)
      BY NoFileIsBlank DEF Glued
    <3>2. EmptyFile.lines = <<>>
      BY NoFileIsBlank
    <3>3. ASSUME NEW part \in {Torn, Header(NoKey)}
          PROVE  [exists |-> TRUE, lines |-> EmptyFile.lines, rest |-> Glued(EmptyFile.rest, part)]
                   = [exists |-> TRUE, lines |-> <<>>, rest |-> part]
      BY <3>1, <3>2
    <3>. QED BY <3>3 DEF LineTears
  <2>3. WellFormed(x) /\ \A m : Claims(x, m) = {}
    <3>1. CASE x = EmptyFile
      BY <3>1, NoFileIsBlank
    <3>2. CASE x # EmptyFile
      <4>1. PICK part \in {Torn, Header(NoKey)} :
              x = [exists |-> TRUE, lines |-> <<>>, rest |-> part]
        BY <1>5, <2>2, <3>2
      <4>2. part \in Lines /\ <<>> \in Seq(Lines)
        BY LineFacts, EmptySeq
      <4>3. x.lines = <<>> /\ x.rest = part
        BY <4>1
      <4>4. x \in [exists : BOOLEAN, lines : Seq(Lines), rest : Lines \cup {Nothing}]
        BY <4>1, <4>2
      <4>. QED BY <4>3, <4>4, Blank
    <3>. QED BY <3>1, <3>2
  <2>. QED BY <2>1, <2>3
<1>6. \/ t \in {j, h, Appended(j, k, i)} \cup LineTears(h, Commit(i))
      \/ j.lines = <<>> /\ t \in {EmptyFile} \cup LineTears(EmptyFile, Header(k))
  BY <1>1 DEF Tears
<1>. HIDE DEF Goal, h
<1>7. Goal(t)
  BY <1>2, <1>3, <1>4, <1>5, <1>6
<1>. QED BY <1>7 DEF Goal

(* loadJournal(): what each verdict on a well formed journal means.        *)
LEMMA VerdictFacts ==
  ASSUME NEW j, WellFormed(j), NEW k \in Keys
  PROVE  /\ Verdict(j, k) # "corrupt"
         /\ Verdict(j, k) \in {"fresh", "good"} =>
              /\ j.rest = Nothing
              /\ j.lines = <<>> \/ j.lines[1] = Header(k)
              /\ CommittedIn(Read(j)) = Claims(j, k)
         /\ Verdict(j, k) = "tornHeader" => \A m \in Keys : Claims(j, m) = {}
         /\ Verdict(j, k) = "foreign" => Claims(j, k) = {}
         /\ Verdict(j, k) = "tornTail" =>
              LET f == Truncated(j) IN
              /\ WellFormed(f) /\ f.rest = Nothing /\ f.lines = j.lines
              /\ j.lines # <<>> /\ j.lines[1] = Header(k)
              /\ \A m \in Keys : Claims(f, m) = Claims(j, m)
              /\ CommittedIn(Read(f)) = Claims(f, k)
<1>1. j.lines \in Seq(Lines) /\ Len(j.lines) \in Nat /\ j.rest \in Lines \cup {Nothing}
      /\ (j.lines = <<>> <=> Len(j.lines) = 0)
  BY EmptySeq DEF WellFormed
<1>2. CASE j.rest = Nothing
  <2>1. Read(j) = j.lines
    BY <1>2, ReadFacts
  <2>2. CASE j.lines = <<>>
    <3>1. Verdict(j, k) = "fresh"
      BY <2>1, <2>2 DEF Verdict
    <3>2. CommittedIn(Read(j)) = {} /\ Claims(j, k) = {}
      BY <1>1, <2>1, <2>2 DEF CommittedIn, Claims
    <3>. QED BY <1>2, <2>2, <3>1, <3>2
  <2>3. CASE j.lines # <<>>
    <3>1. FirstBad(Read(j)) = {}
      BY <2>1, <2>3, LineFacts DEF WellFormed, FirstBad
    <3>2. PICK m \in Keys : j.lines[1] = Header(m)
      BY <2>3 DEF WellFormed
    <3>3. Verdict(j, k) = IF m # k THEN "foreign" ELSE "good"
      BY <2>1, <2>3, <3>1, <3>2, LineFacts DEF Verdict
    <3>4. m # k => Claims(j, k) = {}
      BY <3>2, LineFacts DEF Claims
    <3>5. m = k => CommittedIn(Read(j)) = Claims(j, k) /\ j.lines[1] = Header(k)
      BY <2>1, <2>3, <3>2 DEF Claims
    <3>. QED BY <1>2, <3>3, <3>4, <3>5
  <2>. QED BY <2>2, <2>3
<1>3. CASE j.rest # Nothing /\ j.lines = <<>>
  <2>1. Len(Read(j)) = 1 /\ Read(j)[1] = j.rest /\ Read(j) # <<>> /\ Read(j) \in Seq(Lines)
    <3>1. Len(j.lines) = 0
      BY <1>1, <1>3
    <3>2. Len(Read(j)) = Len(j.lines) + 1 /\ Read(j)[Len(j.lines) + 1] = j.rest
          /\ Read(j) \in Seq(Lines)
      BY <1>3, ReadFacts
    <3>3. Len(Read(j)) = 1 /\ Read(j)[1] = j.rest
      BY <3>1, <3>2
    <3>4. Read(j) # <<>>
      BY <3>3
    <3>. QED BY <3>2, <3>3, <3>4
  <2>2. j.rest \in {Torn, Header(NoKey)}
    BY <1>3 DEF WellFormed
  <2>3. Verdict(j, k) \in {"foreign", "tornHeader"}
    BY <2>1, <2>2, LineFacts, RunAssumption DEF Verdict
  <2>4. \A m \in Keys : Claims(j, m) = {}
    BY <1>3 DEF Claims
  <2>. QED BY <2>3, <2>4
<1>4. CASE j.rest # Nothing /\ j.lines # <<>>
  <2>1. /\ j.rest = Torn
        /\ Len(Read(j)) = Len(j.lines) + 1
        /\ Read(j)[Len(j.lines) + 1] = Torn
        /\ \A n \in 1 .. Len(j.lines) : Read(j)[n] = j.lines[n]
        /\ Front(Read(j)) = j.lines
    BY <1>4, ReadFacts DEF WellFormed
  <2>2. Read(j) # <<>> /\ Read(j)[1] = j.lines[1] /\ Len(Read(j)) # 1
    BY <1>1, <1>4, <2>1
  <2>3. FirstBad(Read(j)) = {Len(Read(j))}
    <3>1. \A n \in 2 .. Len(j.lines) : Read(j)[n].tag = "C"
      BY <1>4, <2>1, LineFacts DEF WellFormed
    <3>2. 2 .. Len(Read(j)) = (2 .. Len(j.lines)) \cup {Len(Read(j))}
      BY <1>1, <1>4, <2>1
    <3>3. Read(j)[Len(Read(j))].tag # "C"
      BY <2>1, LineFacts
    <3>. QED BY <3>1, <3>2, <3>3 DEF FirstBad
  <2>4. PICK m \in Keys : j.lines[1] = Header(m)
    BY <1>4 DEF WellFormed
  <2>5. Verdict(j, k) = IF m # k THEN "foreign" ELSE "tornTail"
    <3>1. Read(j)[1] = Header(m) /\ Header(m).tag = "V" /\ Header(m).key = m
      BY <2>2, <2>4, LineFacts
    <3>2. FirstBad(Read(j)) # {}
      BY <2>3
    <3>3. CASE m = k
      BY <2>2, <2>3, <3>1, <3>2, <3>3 DEF Verdict
    <3>4. CASE m # k
      BY <2>2, <3>1, <3>4 DEF Verdict
    <3>. QED BY <3>3, <3>4
  <2>6. m # k => Claims(j, k) = {}
    BY <2>4, LineFacts DEF Claims
  <2>7. ASSUME m = k
        PROVE  LET f == Truncated(j) IN
               /\ WellFormed(f) /\ f.rest = Nothing /\ f.lines = j.lines
               /\ j.lines # <<>> /\ j.lines[1] = Header(k)
               /\ \A mm \in Keys : Claims(f, mm) = Claims(j, mm)
               /\ CommittedIn(Read(f)) = Claims(f, k)
    <3>. DEFINE f == Truncated(j)
    <3>1. f = [exists |-> TRUE, lines |-> j.lines, rest |-> Nothing]
      BY <2>1 DEF Truncated
    <3>2. f.lines = j.lines /\ f.rest = Nothing
      BY <3>1
    <3>3. WellFormed(f)
      BY <1>1, <1>4, <3>1, <3>2 DEF WellFormed
    <3>. HIDE DEF f
    <3>4. Read(f) = j.lines
      BY <3>2, <3>3, ReadFacts
    <3>5. \A mm \in Keys : Claims(f, mm) = Claims(j, mm)
      BY <3>2 DEF Claims
    <3>6. CommittedIn(Read(f)) = Claims(f, k)
      BY <1>4, <2>4, <2>7, <3>2, <3>4 DEF Claims
    <3>7. f = Truncated(j)
      BY DEF f
    <3>. QED BY <1>4, <2>4, <2>7, <3>2, <3>3, <3>5, <3>6, <3>7
  <2>. QED BY <2>5, <2>6, <2>7
<1>. QED BY <1>2, <1>3, <1>4

-----------------------------------------------------------------------------
(* Types, the lock and the marker.                                         *)

LEMMA LeftFacts ==
  /\ AllButMarker \in Lefts /\ Everything \in Lefts /\ <<>> \in Lefts
  /\ AllButMarker \notin Journalless /\ AllButMarker \in Markerless
  /\ Everything \notin Journalless \cup Markerless
  /\ <<>> \in Journalless \cap Markerless
  /\ \A s \in Lefts \ {<<>>} :
       /\ Tail(s) \in Lefts
       /\ Head(s) \in {"tiles", "journal", "ckpt", "marker"}
       /\ Tail(s) \in Journalless => s \in Journalless \/ Head(s) = "journal"
       /\ Tail(s) \in Markerless => s \in Markerless \/ Head(s) = "marker"
       /\ s \in Journalless => Tail(s) \in Journalless
       /\ s \in Markerless => Head(s) # "marker"
<1>. USE DEF Lefts, Journalless, Markerless
<1>1. /\ AllButMarker \in Lefts /\ Everything \in Lefts /\ <<>> \in Lefts
      /\ AllButMarker \notin Journalless /\ AllButMarker \in Markerless
      /\ Everything \notin Journalless \cup Markerless
      /\ <<>> \in Journalless \cap Markerless
  BY DEF AllButMarker, Everything
<1>2. ASSUME NEW s \in Lefts \ {<<>>}
      PROVE  /\ Tail(s) \in Lefts
             /\ Head(s) \in {"tiles", "journal", "ckpt", "marker"}
             /\ Tail(s) \in Journalless => s \in Journalless \/ Head(s) = "journal"
             /\ Tail(s) \in Markerless => s \in Markerless \/ Head(s) = "marker"
             /\ s \in Journalless => Tail(s) \in Journalless
             /\ s \in Markerless => Head(s) # "marker"
  <2>1. CASE s = <<"tiles", "journal", "ckpt", "marker">>
    <3>1. Head(s) = "tiles" /\ Tail(s) = <<"journal", "ckpt", "marker">>
      BY <2>1
    <3>. QED BY <2>1, <3>1
  <2>2. CASE s = <<"journal", "ckpt", "marker">>
    <3>1. Head(s) = "journal" /\ Tail(s) = <<"ckpt", "marker">>
      BY <2>2
    <3>. QED BY <2>2, <3>1
  <2>3. CASE s = <<"ckpt", "marker">>
    <3>1. Head(s) = "ckpt" /\ Tail(s) = <<"marker">>
      BY <2>3
    <3>. QED BY <2>3, <3>1
  <2>4. CASE s = <<"marker">>
    <3>1. Head(s) = "marker" /\ Tail(s) = <<>>
      BY <2>4
    <3>. QED BY <2>4, <3>1
  <2>5. CASE s = <<"tiles", "journal", "ckpt">>
    <3>1. Head(s) = "tiles" /\ Tail(s) = <<"journal", "ckpt">>
      BY <2>5
    <3>. QED BY <2>5, <3>1
  <2>6. CASE s = <<"journal", "ckpt">>
    <3>1. Head(s) = "journal" /\ Tail(s) = <<"ckpt">>
      BY <2>6
    <3>. QED BY <2>6, <3>1
  <2>7. CASE s = <<"ckpt">>
    <3>1. Head(s) = "ckpt" /\ Tail(s) = <<>>
      BY <2>7
    <3>. QED BY <2>7, <3>1
  <2>. QED BY <2>1, <2>2, <2>3, <2>4, <2>5, <2>6, <2>7
<1>. QED BY <1>1, <1>2

LEMMA TypeInit == Init => TypeInv
BY RunAssumption, LeftFacts DEF Init, TypeInv, Tiles, Pcs

LEMMA WipesTyped ==
  ASSUME TypeInv, NEW p \in Processes, NEW what \in {Everything, AllButMarker},
         NEW after \in {"idle", "load", "gate"}, Wipes(p, what, after)
  PROVE  /\ pc' \in [Processes -> Pcs] /\ pc'[p] = "wipe"
         /\ wiping' \in [Processes -> [left : Lefts, after : {"idle", "load", "gate"}]]
         /\ wiping'[p].left = what /\ wiping'[p].after = after
         /\ \A q \in Processes \ {p} : pc'[q] = pc[q] /\ wiping'[q] = wiping[q]
<1>1. what \in Lefts
  BY LeftFacts
<1>2. [left |-> what, after |-> after] \in [left : Lefts, after : {"idle", "load", "gate"}]
  BY <1>1
<1>. QED BY <1>2 DEF TypeInv, Wipes, Goto, Pcs

LEMMA ReleasedTyped ==
  ASSUME TypeInv, NEW p \in Processes, Released(p)
  PROVE  /\ owner' \in Processes \cup {NoProcess}
         /\ owner' = IF owner = p THEN NoProcess ELSE owner
         /\ index' \in [Processes -> 1 .. N + 1]
         /\ since' \in [Processes -> Nat]
         /\ view' = [q \in Processes |-> view'[q]] /\ view'[p] = {}
         /\ \A q \in Processes \ {p} : index'[q] = index[q] /\ view'[q] = view[q]
<1>1. 1 \in 1 .. N + 1
  BY RunAssumption
<1>. QED BY <1>1 DEF TypeInv, Released

LEMMA TypeInductive == TypeInv /\ [Next]_vars => TypeInv'
<1>. SUFFICES ASSUME TypeInv, [Next]_vars PROVE TypeInv'
  OBVIOUS
<1>. USE RunAssumption DEF TypeInv, Tiles, Pcs
<1>1. ASSUME NEW p \in Processes, Execute(p) PROVE TypeInv'
  BY <1>1 DEF Execute, Goto
<1>2. ASSUME NEW p \in Processes, CheckMarker(p) PROVE TypeInv'
  <2>1. CASE Goto(p, "cleanup") /\ Released(p) /\ UNCHANGED wiping
    BY <1>2, <2>1, ReleasedTyped DEF CheckMarker, Goto
  <2>2. CASE Goto(p, "load") /\ UNCHANGED <<owner, run, wiping>>
    BY <1>2, <2>2 DEF CheckMarker, Goto
  <2>3. CASE Wipes(p, Everything, "load") /\ UNCHANGED <<owner, run>>
    BY <1>2, <2>3, WipesTyped DEF CheckMarker
  <2>. QED BY <1>2, <2>1, <2>2, <2>3 DEF CheckMarker
<1>3. ASSUME NEW p \in Processes, LoadJournal(p) PROVE TypeInv'
  <2>1. ASSUME NEW j, Keeps(p, j) PROVE TypeInv'
    BY <1>3, <2>1 DEF LoadJournal, Keeps, Goto
  <2>2. CASE Wipes(p, Everything, "gate") /\ UNCHANGED <<journal, owner, run, refused>>
    BY <1>3, <2>2, WipesTyped DEF LoadJournal
  <2>3. CASE Goto(p, "failing") /\ Released(p) /\ UNCHANGED <<journal, wiping>>
    BY <1>3, <2>3, ReleasedTyped DEF LoadJournal, Goto
  <2>. QED BY <1>3, <2>1, <2>2, <2>3 DEF LoadJournal
<1>4. ASSUME NEW p \in Processes, CheckpointGate(p) PROVE TypeInv'
  <2>1. CASE Wipes(p, AllButMarker, "load")
    BY <1>4, <2>1, WipesTyped DEF CheckpointGate
  <2>2. CASE Goto(p, "tile") /\ UNCHANGED wiping
    BY <1>4, <2>2 DEF CheckpointGate, Goto
  <2>. QED BY <1>4, <2>1, <2>2 DEF CheckpointGate
<1>5. ASSUME NEW p \in Processes, ReuseTile(p) PROVE TypeInv'
  BY <1>5 DEF ReuseTile
<1>6. ASSUME NEW p \in Processes, ComputeTile(p) PROVE TypeInv'
  BY <1>6 DEF ComputeTile, Goto
<1>7. ASSUME NEW p \in Processes, WriteTile(p) PROVE TypeInv'
  BY <1>7 DEF WriteTile, Goto
<1>8. ASSUME NEW p \in Processes, AppendCommit(p) PROVE TypeInv'
  BY <1>8 DEF AppendCommit, Goto
<1>9. ASSUME NEW p \in Processes, Consume(p) PROVE TypeInv'
  <2>1. index[p] \in 1 .. N /\ index[p] + 1 \in 1 .. N + 1
    BY <1>9 DEF Consume
  <2>2. since[p] \in Nat /\ since' \in [Processes -> Nat]
    BY <1>9 DEF Consume
  <2>3. index' \in [Processes -> 1 .. N + 1] /\ \A q \in Processes \ {p} : index'[q] = index[q]
    BY <1>9, <2>1 DEF Consume
  <2>4. /\ pc' \in [Processes -> Pcs] /\ pc'[p] = "tile"
        /\ \A q \in Processes \ {p} : pc'[q] = pc[q]
    BY <1>9 DEF Consume, Goto
  <2>5. ckpt' \in Keys \cup {NoKey} /\ view' = [q \in Processes |-> view'[q]]
    BY <1>9 DEF Consume
  <2>6. \A q \in Processes : pc'[q] \in {"write", "append", "consume"} => index'[q] \in Tiles
    BY <2>3, <2>4
  <2>. QED BY <1>9, <2>2, <2>3, <2>4, <2>5, <2>6 DEF Consume
<1>10. ASSUME NEW p \in Processes, SaveLastCheckpoint(p) PROVE TypeInv'
  BY <1>10 DEF SaveLastCheckpoint, Goto
<1>11. ASSUME NEW p \in Processes, Publish(p) PROVE TypeInv'
  BY <1>11 DEF Publish, Goto
<1>12. ASSUME NEW p \in Processes, WriteMarker(p) PROVE TypeInv'
  <2>1. /\ pc' \in [Processes -> Pcs] /\ pc'[p] = "cleanup"
        /\ \A q \in Processes \ {p} : pc'[q] = pc[q]
    BY <1>12 DEF WriteMarker, Goto
  <2>. QED BY <1>12, <2>1, ReleasedTyped DEF WriteMarker
<1>13. ASSUME NEW p \in Processes, CleanupAfterPublish(p) \/ Abandon(p) PROVE TypeInv'
  <2>1. CASE owner' = p /\ Wipes(p, AllButMarker, "idle")
    BY <1>13, <2>1, WipesTyped DEF CleanupAfterPublish, Abandon
  <2>2. CASE Goto(p, "idle") /\ UNCHANGED <<owner, wiping>>
    BY <1>13, <2>2 DEF CleanupAfterPublish, Abandon, Goto
  <2>. QED BY <1>13, <2>1, <2>2 DEF CleanupAfterPublish, Abandon
<1>14. ASSUME NEW p \in Processes, RemoveTile(p) PROVE TypeInv'
  BY <1>14 DEF RemoveTile
<1>15. ASSUME NEW p \in Processes, RemoveNext(p) PROVE TypeInv'
  <2>1. wiping[p].left \in Lefts /\ Tail(wiping[p].left) \in Lefts
    BY <1>15, LeftFacts DEF RemoveNext
  <2>2. wiping' \in [Processes -> [left : Lefts, after : {"idle", "load", "gate"}]]
    <3>1. ASSUME NEW L, NEW A, NEW f \in [Processes -> [left : L, after : A]], NEW l \in L
          PROVE  [f EXCEPT ![p].left = l] \in [Processes -> [left : L, after : A]]
      OBVIOUS
    <3>2. wiping' = [wiping EXCEPT ![p].left = Tail(wiping[p].left)]
      BY <1>15 DEF RemoveNext
    <3>. QED BY <2>1, <3>1, <3>2
  <2>3. ckpt' \in Keys \cup {NoKey} /\ marker' \in Keys \cup {NoKey}
        /\ acked' \in [Keys -> SUBSET Tiles] /\ published' \subseteq Keys
    BY <1>15 DEF RemoveNext
  <2>. QED BY <1>15, <2>2, <2>3 DEF RemoveNext
<1>16. ASSUME NEW p \in Processes, WipeReturns(p) PROVE TypeInv'
  <2>1. wiping[p] \in [left : Lefts, after : {"idle", "load", "gate"}]
    OBVIOUS
  <2>2. /\ wiping' \in [Processes -> [left : Lefts, after : {"idle", "load", "gate"}]]
        /\ pc' \in [Processes -> Pcs] /\ pc'[p] \in {"idle", "load", "gate"}
        /\ \A q \in Processes \ {p} : pc'[q] = pc[q]
    BY <1>16, <2>1 DEF WipeReturns, Goto
  <2>3. CASE Released(p)
    <3>1. /\ owner' \in Processes \cup {NoProcess}
          /\ index' \in [Processes -> 1 .. N + 1] /\ since' \in [Processes -> Nat]
          /\ view' = [q \in Processes |-> view'[q]]
          /\ \A q \in Processes \ {p} : index'[q] = index[q]
      BY <2>3, ReleasedTyped
    <3>2. \A q \in Processes : pc'[q] \in {"write", "append", "consume"} => index'[q] \in Tiles
      BY <2>2, <3>1
    <3>. QED BY <1>16, <2>2, <3>1, <3>2 DEF WipeReturns
  <2>4. CASE UNCHANGED <<owner, run>>
    BY <1>16, <2>2, <2>4 DEF WipeReturns
  <2>. QED BY <1>16, <2>3, <2>4 DEF WipeReturns
<1>17. ASSUME NEW p \in Processes, Stop(p) PROVE TypeInv'
  <2>1. /\ pc' \in [Processes -> Pcs] /\ pc'[p] \in {"idle", "failing"}
        /\ \A q \in Processes \ {p} : pc'[q] = pc[q]
    BY <1>17 DEF Stop, Goto
  <2>2. wiping' \in [Processes -> [left : Lefts, after : {"idle", "load", "gate"}]]
    BY <1>17, LeftFacts DEF Stop
  <2>. QED BY <1>17, <2>1, <2>2, ReleasedTyped DEF Stop
<1>18. ASSUME NEW k \in Keys, NEW i \in Tiles, TileRots(k, i) PROVE TypeInv'
  BY <1>18 DEF TileRots
<1>19. CASE UNCHANGED vars
  BY <1>19
<1>. QED BY <1>1, <1>2, <1>3, <1>4, <1>5, <1>6, <1>7, <1>8, <1>9, <1>10, <1>11, <1>12, <1>13,
            <1>14, <1>15, <1>16, <1>17, <1>18, <1>19 DEF Next, Steps

(* A step of one process leaves the local state of the others alone.       *)
LEMMA StepIsLocal ==
  ASSUME TypeInv, NEW p \in Processes, Steps(p) \/ Stop(p), NEW q \in Processes \ {p}
  PROVE  /\ pc'[q] = pc[q] /\ index'[q] = index[q] /\ view'[q] = view[q]
         /\ wiping'[q] = wiping[q]
         /\ owner = q => owner' = q
<1>. USE RunAssumption DEF TypeInv
<1>1. CASE Execute(p)
  BY <1>1 DEF Execute, Goto
<1>2. CASE CheckMarker(p)
  BY <1>2 DEF CheckMarker, Goto, Wipes, Released
<1>3. CASE LoadJournal(p)
  BY <1>3 DEF LoadJournal, Keeps, Goto, Wipes, Released
<1>4. CASE CheckpointGate(p)
  BY <1>4 DEF CheckpointGate, Goto, Wipes
<1>5. CASE ReuseTile(p)
  BY <1>5 DEF ReuseTile
<1>6. CASE ComputeTile(p)
  BY <1>6 DEF ComputeTile, Goto
<1>7. CASE WriteTile(p)
  BY <1>7 DEF WriteTile, Goto
<1>8. CASE AppendCommit(p)
  BY <1>8 DEF AppendCommit, Goto
<1>9. CASE Consume(p)
  BY <1>9 DEF Consume, Goto
<1>10. CASE SaveLastCheckpoint(p)
  BY <1>10 DEF SaveLastCheckpoint, Goto
<1>11. CASE Publish(p)
  BY <1>11 DEF Publish, Goto
<1>12. CASE WriteMarker(p)
  BY <1>12 DEF WriteMarker, Goto, Released
<1>13. CASE CleanupAfterPublish(p)
  BY <1>13 DEF CleanupAfterPublish, Goto, Wipes
<1>14. CASE Abandon(p)
  BY <1>14 DEF Abandon, Goto, Wipes
<1>15. CASE RemoveTile(p)
  BY <1>15 DEF RemoveTile
<1>16. CASE RemoveNext(p)
  BY <1>16 DEF RemoveNext
<1>17. CASE WipeReturns(p)
  BY <1>17 DEF WipeReturns, Goto, Released
<1>18. CASE Stop(p)
  BY <1>18 DEF Stop, Goto, Released
<1>. QED BY <1>1, <1>2, <1>3, <1>4, <1>5, <1>6, <1>7, <1>8, <1>9, <1>10, <1>11, <1>12, <1>13, <1>14, <1>15, <1>16, <1>17, <1>18 DEF Steps

(* Only the process behind the lock touches what the files hold.           *)
LEMMA OnlyTheHolderWrites ==
  ASSUME NEW p \in Processes, Steps(p) \/ Stop(p), pc[p] \notin Inside
  PROVE  UNCHANGED <<disk, history>>
BY DEF Steps, Inside, Execute, CheckMarker, LoadJournal, CheckpointGate, ReuseTile, ComputeTile,
       WriteTile, AppendCommit, Consume, SaveLastCheckpoint, Publish, WriteMarker,
       CleanupAfterPublish, Abandon, RemoveTile, RemoveNext, WipeReturns, Stop

LEMMA LockInductive ==
  ASSUME TypeInv, LockInv, [Next]_vars PROVE LockInv'
<1>1. ASSUME NEW p \in Processes, Steps(p) \/ Stop(p) PROVE LockInv'
  <2>1. ASSUME NEW q \in Processes \ {p} PROVE (pc[q] \in Inside => owner = q)'
    BY <1>1, <2>1, StepIsLocal DEF LockInv
  <2>2. (pc[p] \in Inside => owner = p)'
    <3>. USE DEF LockInv, Inside, TypeInv
    <3>1. CASE Execute(p)
      BY <3>1 DEF Execute, Goto
    <3>2. CASE CheckMarker(p)
      BY <3>2 DEF CheckMarker, Goto, Wipes, Released
    <3>3. CASE LoadJournal(p)
      BY <3>3 DEF LoadJournal, Keeps, Goto, Wipes, Released
    <3>4. CASE CheckpointGate(p)
      BY <3>4 DEF CheckpointGate, Goto, Wipes
    <3>5. CASE ReuseTile(p)
      BY <3>5 DEF ReuseTile
    <3>6. CASE ComputeTile(p)
      BY <3>6 DEF ComputeTile, Goto
    <3>7. CASE WriteTile(p)
      BY <3>7 DEF WriteTile, Goto
    <3>8. CASE AppendCommit(p)
      BY <3>8 DEF AppendCommit, Goto
    <3>9. CASE Consume(p)
      BY <3>9 DEF Consume, Goto
    <3>10. CASE SaveLastCheckpoint(p)
      BY <3>10 DEF SaveLastCheckpoint, Goto
    <3>11. CASE Publish(p)
      BY <3>11 DEF Publish, Goto
    <3>12. CASE WriteMarker(p)
      BY <3>12 DEF WriteMarker, Goto, Released
    <3>13. CASE CleanupAfterPublish(p)
      BY <3>13 DEF CleanupAfterPublish, Goto, Wipes
    <3>14. CASE Abandon(p)
      BY <3>14 DEF Abandon, Goto, Wipes
    <3>15. CASE RemoveTile(p)
      BY <3>15 DEF RemoveTile
    <3>16. CASE RemoveNext(p)
      BY <3>16 DEF RemoveNext
    <3>17. CASE WipeReturns(p)
      BY <3>17 DEF WipeReturns, Goto, Released
    <3>18. CASE Stop(p)
      BY <3>18 DEF Stop, Goto, Released
    <3>. QED BY <1>1, <3>1, <3>2, <3>3, <3>4, <3>5, <3>6, <3>7, <3>8, <3>9, <3>10, <3>11, <3>12, <3>13, <3>14, <3>15, <3>16, <3>17, <3>18 DEF Steps
  <2>. QED BY <2>1, <2>2 DEF LockInv
<1>2. ASSUME NEW k \in Keys, NEW i \in Tiles, TileRots(k, i) PROVE LockInv'
  BY <1>2 DEF TileRots, LockInv
<1>3. CASE UNCHANGED vars
  BY <1>3 DEF LockInv
<1>. QED BY <1>1, <1>2, <1>3 DEF Next

LEMMA HolderIsAlone ==
  ASSUME TypeInv, LockInv, NEW p \in Processes, Steps(p) \/ Stop(p),
         NEW q \in Processes \ {p}, pc[q] \in Inside
  PROVE  UNCHANGED <<disk, history>>
<1>1. owner = q
  BY DEF LockInv
<1>2. pc[p] \notin Inside
  BY <1>1 DEF LockInv
<1>. QED BY <1>2, OnlyTheHolderWrites

LEMMA MarkerInductive ==
  ASSUME TypeInv, LockInv, MarkerInv, [Next]_vars PROVE MarkerInv'
<1>. DEFINE Own(q) ==
       /\ pc[q] \in Working \cup {"load"} => marker = NoKey
       /\ pc[q] = "wipe" /\ wiping[q].after # "idle" /\ wiping[q].left \in Markerless
            => marker = NoKey
       /\ pc[q] = "mark" => Key[q] \in published
     All == marker # NoKey => marker \in published
<1>1. ASSUME NEW p \in Processes, Steps(p) \/ Stop(p) PROVE MarkerInv'
  <2>1. ASSUME NEW q \in Processes \ {p} PROVE Own(q)'
    <3>1. pc'[q] = pc[q] /\ wiping'[q] = wiping[q]
      BY <1>1, StepIsLocal
    <3>2. CASE pc[q] \in Inside
      BY <1>1, <3>1, <3>2, HolderIsAlone DEF MarkerInv
    <3>3. CASE pc[q] \notin Inside
      BY <3>1, <3>3 DEF Inside, Working
    <3>. QED BY <3>2, <3>3
  <2>2. All' /\ Own(p)'
    <3>. USE DEF MarkerInv, Working
    <3>1. CASE Execute(p)
      BY <3>1 DEF Execute, TypeInv, Goto
    <3>2. CASE CheckMarker(p)
      <4>1. CASE Goto(p, "cleanup")
        BY <3>2, <4>1 DEF CheckMarker, Goto, TypeInv
      <4>2. CASE marker = NoKey /\ Goto(p, "load")
        BY <3>2, <4>2 DEF CheckMarker, Goto, TypeInv
      <4>3. CASE Wipes(p, Everything, "load")
        BY <3>2, <4>3, WipesTyped, LeftFacts DEF CheckMarker
      <4>. QED BY <3>2, <4>1, <4>2, <4>3 DEF CheckMarker
    <3>3. CASE LoadJournal(p)
      <4>1. CASE Goto(p, "gate") \/ Goto(p, "failing")
        BY <3>3, <4>1 DEF LoadJournal, Goto, TypeInv
      <4>2. CASE Wipes(p, Everything, "gate")
        BY <3>3, <4>2, WipesTyped DEF LoadJournal
      <4>. QED BY <3>3, <4>1, <4>2 DEF LoadJournal, Keeps
    <3>4. CASE CheckpointGate(p)
      <4>1. CASE Wipes(p, AllButMarker, "load")
        BY <3>4, <4>1, WipesTyped DEF CheckpointGate
      <4>2. CASE Goto(p, "tile")
        BY <3>4, <4>2 DEF CheckpointGate, Goto, TypeInv
      <4>. QED BY <3>4, <4>1, <4>2 DEF CheckpointGate
    <3>5. CASE ReuseTile(p)
      BY <3>5 DEF ReuseTile, TypeInv
    <3>6. CASE ComputeTile(p)
      BY <3>6 DEF ComputeTile, TypeInv, Goto
    <3>7. CASE WriteTile(p)
      BY <3>7 DEF WriteTile, TypeInv, Goto
    <3>8. CASE AppendCommit(p)
      BY <3>8 DEF AppendCommit, TypeInv, Goto
    <3>9. CASE Consume(p)
      BY <3>9 DEF Consume, TypeInv, Goto
    <3>10. CASE SaveLastCheckpoint(p)
      BY <3>10 DEF SaveLastCheckpoint, TypeInv, Goto
    <3>11. CASE Publish(p)
      BY <3>11 DEF Publish, TypeInv, Goto
    <3>12. CASE WriteMarker(p)
      BY <3>12 DEF WriteMarker, TypeInv, Goto
    <3>13. CASE CleanupAfterPublish(p)
      <4>1. CASE Wipes(p, AllButMarker, "idle")
        BY <3>13, <4>1, WipesTyped DEF CleanupAfterPublish
      <4>2. CASE Goto(p, "idle")
        BY <3>13, <4>2 DEF CleanupAfterPublish, Goto, TypeInv
      <4>. QED BY <3>13, <4>1, <4>2 DEF CleanupAfterPublish
    <3>14. CASE Abandon(p)
      <4>1. CASE Wipes(p, AllButMarker, "idle")
        BY <3>14, <4>1, WipesTyped DEF Abandon
      <4>2. CASE Goto(p, "idle")
        BY <3>14, <4>2 DEF Abandon, Goto, TypeInv
      <4>. QED BY <3>14, <4>1, <4>2 DEF Abandon
    <3>15. CASE RemoveTile(p)
      BY <3>15 DEF RemoveTile, TypeInv
    <3>16. CASE RemoveNext(p)
      <4>1. wiping[p].left \in Lefts \ {<<>>} /\ wiping'[p].left = Tail(wiping[p].left)
            /\ wiping'[p].after = wiping[p].after
        BY <3>16 DEF RemoveNext, TypeInv
      <4>2. CASE Head(wiping[p].left) = "marker"
        BY <3>16, <4>2 DEF RemoveNext
      <4>3. CASE Head(wiping[p].left) # "marker"
        <5>1. marker' = marker /\ published' = published /\ pc'[p] = pc[p]
          BY <3>16, <4>3 DEF RemoveNext
        <5>2. wiping'[p].left \in Markerless => wiping[p].left \in Markerless
          BY <4>1, <4>3, LeftFacts
        <5>. QED BY <4>1, <5>1, <5>2
      <4>. QED BY <4>2, <4>3
    <3>17. CASE WipeReturns(p)
      <4>1. /\ pc'[p] = wiping[p].after /\ wiping[p].after \in {"idle", "load", "gate"}
            /\ wiping[p].left \in Markerless
        BY <3>17, LeftFacts DEF WipeReturns, Goto, TypeInv
      <4>. QED BY <3>17, <4>1 DEF WipeReturns
    <3>18. CASE Stop(p)
      BY <3>18 DEF Stop, TypeInv, Goto
    <3>. QED BY <1>1, <3>1, <3>2, <3>3, <3>4, <3>5, <3>6, <3>7, <3>8, <3>9, <3>10, <3>11, <3>12, <3>13, <3>14, <3>15, <3>16, <3>17, <3>18 DEF Steps
  <2>. QED BY <2>1, <2>2 DEF MarkerInv
<1>2. ASSUME NEW k \in Keys, NEW i \in Tiles, TileRots(k, i) PROVE MarkerInv'
  BY <1>2 DEF TileRots, MarkerInv
<1>3. CASE UNCHANGED vars
  BY <1>3 DEF MarkerInv
<1>. QED BY <1>1, <1>2, <1>3 DEF Next

-----------------------------------------------------------------------------
(* The journal of the process at work.                                     *)

LEMMA JournalInductive ==
  ASSUME ~ CutsNewline, TypeInv, LockInv, JournalInv, [Next]_vars PROVE JournalInv'
<1>1. ASSUME NEW p \in Processes, Steps(p) \/ Stop(p) PROVE JournalInv'
  <2>1. ASSUME NEW q \in Processes \ {p} PROVE Reads(q)'
    <3>1. pc'[q] = pc[q] /\ wiping'[q] = wiping[q] /\ view'[q] = view[q] /\ index'[q] = index[q]
      BY <1>1, StepIsLocal
    <3>2. CASE pc[q] \in Inside
      BY <1>1, <3>1, <3>2, HolderIsAlone DEF JournalInv, Reads
    <3>3. CASE pc[q] \notin Inside
      BY <3>1, <3>3 DEF Inside, Working, JournalInv, Reads
    <3>. QED BY <3>2, <3>3
  <2>2. WellFormed(journal)' /\ ~ refused' /\ Reads(p)'
    <3>. DEFINE k == Key[p]
    <3>0. k \in Keys /\ Reads(p) /\ WellFormed(journal) /\ ~ refused
      BY RunAssumption DEF JournalInv
    <3>. USE DEF Reads, Working
    <3>1. CASE Execute(p)
      BY <3>0, <3>1 DEF Execute, Goto, TypeInv
    <3>2. CASE CheckMarker(p)
      <4>1. CASE Goto(p, "cleanup") /\ Released(p)
        BY <3>0, <3>2, <4>1, ReleasedTyped DEF CheckMarker, Goto, TypeInv
      <4>2. CASE Goto(p, "load") /\ UNCHANGED <<owner, run, wiping>>
        BY <3>0, <3>2, <4>2 DEF CheckMarker, Goto, TypeInv
      <4>3. CASE Wipes(p, Everything, "load") /\ UNCHANGED <<owner, run>>
        BY <3>0, <3>2, <4>3, WipesTyped, LeftFacts DEF CheckMarker
      <4>. QED BY <3>2, <4>1, <4>2, <4>3 DEF CheckMarker
    <3>3. CASE LoadJournal(p)
      <4>1. CASE Verdict(journal, k) \in {"fresh", "good"} /\ Keeps(p, journal)
        <5>1. /\ journal.rest = Nothing
              /\ journal.lines = <<>> \/ journal.lines[1] = Header(k)
              /\ CommittedIn(Read(journal)) = Claims(journal, k)
          BY <3>0, <4>1, VerdictFacts
        <5>2. /\ journal' = journal /\ pc'[p] = "gate" /\ refused' = refused
              /\ view'[p] = CommittedIn(Read(journal))
          BY <4>1 DEF Keeps, Goto, TypeInv
        <5>. QED BY <3>0, <5>1, <5>2
      <4>2. CASE Verdict(journal, k) = "tornHeader" /\ Keeps(p, EmptyFile)
        <5>1. /\ journal' = EmptyFile /\ pc'[p] = "gate" /\ refused' = refused
              /\ view'[p] = CommittedIn(<<>>)
          BY <4>2, NoFileIsBlank DEF Keeps, Goto, TypeInv
        <5>2. CommittedIn(<<>>) = {}
          BY DEF CommittedIn
        <5>. QED BY <3>0, <5>1, <5>2, NoFileIsBlank
      <4>3. CASE Verdict(journal, k) = "tornTail" /\ Keeps(p, Truncated(journal))
        <5>1. LET f == Truncated(journal) IN
                /\ WellFormed(f) /\ f.rest = Nothing /\ f.lines = journal.lines
                /\ journal.lines[1] = Header(k)
                /\ CommittedIn(Read(f)) = Claims(f, k)
          BY <3>0, <4>3, VerdictFacts
        <5>2. /\ journal' = Truncated(journal) /\ pc'[p] = "gate" /\ refused' = refused
              /\ view'[p] = CommittedIn(Read(Truncated(journal)))
          BY <4>3 DEF Keeps, Goto, TypeInv
        <5>. QED BY <3>0, <5>1, <5>2
      <4>4. CASE Verdict(journal, k) = "foreign" /\ Wipes(p, Everything, "gate")
                 /\ UNCHANGED <<journal, owner, run, refused>>
        <5>1. Verdict(NoFile, k) = "fresh"
          BY NoFileIsBlank DEF Verdict
        <5>2. view[p] = {}
          BY <3>0, <3>3, <4>4, <5>1 DEF LoadJournal
        <5>. QED BY <3>0, <4>4, <5>2, WipesTyped, LeftFacts
      <4>5. Verdict(journal, k) # "corrupt"
        BY <3>0, VerdictFacts
      <4>. QED BY <3>3, <4>1, <4>2, <4>3, <4>4, <4>5 DEF LoadJournal
    <3>4. CASE CheckpointGate(p)
      <4>1. CASE Wipes(p, AllButMarker, "load")
        BY <3>0, <3>4, <4>1, WipesTyped, LeftFacts DEF CheckpointGate
      <4>2. CASE Goto(p, "tile") /\ UNCHANGED wiping
        BY <3>0, <3>4, <4>2 DEF CheckpointGate, Goto, TypeInv
      <4>. QED BY <3>4, <4>1, <4>2 DEF CheckpointGate
    <3>5. CASE ReuseTile(p)
      BY <3>0, <3>5 DEF ReuseTile, TypeInv
    <3>6. CASE ComputeTile(p)
      BY <3>0, <3>6 DEF ComputeTile, Goto, TypeInv
    <3>7. CASE WriteTile(p)
      BY <3>0, <3>7 DEF WriteTile, Goto, TypeInv
    <3>8. CASE AppendCommit(p)
      <4>1. /\ pc[p] = "append" /\ pc'[p] = "consume" /\ view'[p] = view[p]
            /\ refused' = refused /\ index[p] \in Tiles
            /\ journal' = Appended(journal, k, index[p])
        BY <3>8 DEF AppendCommit, Goto, TypeInv
      <4>2. LET a == Appended(journal, k, index[p]) IN
              /\ WellFormed(a) /\ a.rest = Nothing /\ a.lines[1] = Header(k)
              /\ Claims(a, k) = Claims(journal, k) \cup {index[p]}
        BY <3>0, <4>1, AppendedFacts
      <4>3. index'[p] = index[p]
        BY <3>8 DEF AppendCommit
      <4>. QED BY <3>0, <4>1, <4>2, <4>3
    <3>9. CASE Consume(p)
      <4>1. /\ pc[p] = "consume" /\ pc'[p] = "tile" /\ view'[p] = view[p] \cup {index[p]}
            /\ refused' = refused /\ journal' = journal
        BY <3>9 DEF Consume, Goto, TypeInv
      <4>2. index[p] \in Claims(journal, k)
        BY <3>0, <4>1
      <4>. QED BY <3>0, <4>1, <4>2
    <3>10. CASE SaveLastCheckpoint(p)
      BY <3>0, <3>10 DEF SaveLastCheckpoint, Goto, TypeInv
    <3>11. CASE Publish(p)
      BY <3>0, <3>11 DEF Publish, Goto, TypeInv
    <3>12. CASE WriteMarker(p)
      BY <3>0, <3>12, ReleasedTyped DEF WriteMarker, Goto, TypeInv
    <3>13. CASE CleanupAfterPublish(p) \/ Abandon(p)
      <4>1. CASE Wipes(p, AllButMarker, "idle")
        BY <3>0, <3>13, <4>1, WipesTyped, LeftFacts DEF CleanupAfterPublish, Abandon
      <4>2. CASE Goto(p, "idle") /\ UNCHANGED <<owner, wiping>>
        BY <3>0, <3>13, <4>2 DEF CleanupAfterPublish, Abandon, Goto, TypeInv
      <4>. QED BY <3>13, <4>1, <4>2 DEF CleanupAfterPublish, Abandon
    <3>14. CASE RemoveTile(p)
      BY <3>0, <3>14 DEF RemoveTile
    <3>15. CASE RemoveNext(p)
      <4>1. /\ wiping[p].left \in Lefts \ {<<>>} /\ wiping'[p].left = Tail(wiping[p].left)
            /\ wiping'[p].after = wiping[p].after /\ pc'[p] = pc[p] /\ view'[p] = view[p]
            /\ pc[p] = "wipe" /\ refused' = refused
            /\ journal' = IF Head(wiping[p].left) = "journal" THEN NoFile ELSE journal
        BY <3>15 DEF RemoveNext, TypeInv
      <4>2. CASE Head(wiping[p].left) = "journal"
        BY <3>0, <4>1, <4>2, NoFileIsBlank
      <4>3. CASE Head(wiping[p].left) # "journal"
        BY <3>0, <4>1, <4>3, LeftFacts
      <4>. QED BY <4>2, <4>3
    <3>16. CASE WipeReturns(p)
      <4>1. /\ pc'[p] = wiping[p].after /\ wiping[p].after \in {"idle", "load", "gate"}
            /\ wiping[p].left = <<>> /\ pc[p] = "wipe" /\ UNCHANGED <<journal, refused>>
        BY <3>16 DEF WipeReturns, Goto, TypeInv
      <4>2. journal = NoFile
        BY <3>0, <4>1, LeftFacts
      <4>3. CASE wiping[p].after = "idle"
        BY <3>0, <3>16, <4>1, <4>3, ReleasedTyped DEF WipeReturns
      <4>4. CASE wiping[p].after # "idle"
        <5>1. view'[p] = view[p]
          BY <3>16, <4>4 DEF WipeReturns
        <5>. QED BY <3>0, <4>1, <4>2, <4>4, <5>1, NoFileIsBlank
      <4>. QED BY <4>3, <4>4
    <3>17. CASE Stop(p)
      <4>1. pc'[p] \in {"idle", "failing"} /\ refused' = refused /\ view'[p] = {}
        BY <3>17, ReleasedTyped DEF Stop, Goto, TypeInv
      <4>2. CASE pc[p] = "append"
        <5>1. PICK t \in Tears(journal, k, index[p]) : journal' = t
          BY <3>17, <4>2 DEF Stop
        <5>2. index[p] \in Tiles
          BY <4>2 DEF TypeInv
        <5>3. WellFormed(t)
          BY <3>0, <4>2, <5>1, <5>2, TearsFacts
        <5>. QED BY <3>0, <4>1, <5>1, <5>3
      <4>3. CASE pc[p] # "append"
        BY <3>0, <3>17, <4>1, <4>3 DEF Stop
      <4>. QED BY <4>2, <4>3
    <3>. QED BY <1>1, <3>1, <3>2, <3>3, <3>4, <3>5, <3>6, <3>7, <3>8, <3>9, <3>10, <3>11, <3>12,
                <3>13, <3>14, <3>15, <3>16, <3>17 DEF Steps
  <2>. QED BY <2>1, <2>2 DEF JournalInv
<1>2. ASSUME NEW k \in Keys, NEW i \in Tiles, TileRots(k, i) PROVE JournalInv'
  BY <1>2 DEF TileRots, JournalInv, Reads
<1>3. CASE UNCHANGED vars
  BY <1>3 DEF JournalInv, Reads
<1>. QED BY <1>1, <1>2, <1>3 DEF Next

(* While a process works, the journal claims nothing for another key.      *)
LEMMA OthersClaimNothing ==
  ASSUME JournalInv, NEW p \in Processes, pc[p] \in Working, NEW m \in Keys \ {Key[p]}
  PROVE  Claims(journal, m) = {}
BY LineFacts DEF JournalInv, Reads, Claims

(* A step adds at most the claim of the tile it appends, and takes back    *)
(* claims only where a wipe removes the journal.                           *)
LEMMA ClaimsMove ==
  ASSUME ~ CutsNewline, TypeInv, JournalInv, NEW p \in Processes, Steps(p) \/ Stop(p),
         NEW m \in Keys
  PROVE  /\ Claims(journal', m) \subseteq
              Claims(journal, m) \cup (IF pc[p] = "append" /\ m = Key[p] THEN {index[p]} ELSE {})
         /\ \/ Claims(journal, m) \subseteq Claims(journal', m)
            \/ RemoveNext(p) /\ Head(wiping[p].left) = "journal"
<1>. DEFINE k == Key[p]
<1>0. k \in Keys /\ Reads(p) /\ WellFormed(journal)
  BY RunAssumption DEF JournalInv
<1>1. CASE LoadJournal(p)
  <2>1. CASE Keeps(p, journal) \/ UNCHANGED journal
    BY <2>1 DEF Keeps
  <2>2. CASE Verdict(journal, k) = "tornHeader" /\ Keeps(p, EmptyFile)
    <3>1. Claims(journal, m) = {}
      BY <1>0, <2>2, VerdictFacts
    <3>. QED BY <2>2, <3>1, NoFileIsBlank DEF Keeps
  <2>3. CASE Verdict(journal, k) = "tornTail" /\ Keeps(p, Truncated(journal))
    <3>1. Claims(Truncated(journal), m) = Claims(journal, m)
      BY <1>0, <2>3, VerdictFacts
    <3>. QED BY <2>3, <3>1 DEF Keeps
  <2>. QED BY <1>1, <2>1, <2>2, <2>3 DEF LoadJournal
<1>2. CASE AppendCommit(p)
  <2>1. index[p] \in Tiles /\ pc[p] = "append" /\ journal' = Appended(journal, k, index[p])
    BY <1>2 DEF AppendCommit, TypeInv
  <2>2. /\ Claims(journal', k) = Claims(journal, k) \cup {index[p]}
        /\ \A mm \in Keys \ {k} : Claims(journal', mm) = {} /\ Claims(journal, mm) = {}
    BY <1>0, <2>1, AppendedFacts DEF Reads, Working
  <2>. QED BY <2>1, <2>2
<1>3. CASE RemoveNext(p)
  <2>1. CASE Head(wiping[p].left) = "journal"
    BY <1>3, <2>1, NoFileIsBlank DEF RemoveNext
  <2>2. CASE Head(wiping[p].left) # "journal"
    BY <1>3, <2>2 DEF RemoveNext
  <2>. QED BY <2>1, <2>2
<1>4. CASE Stop(p) /\ pc[p] = "append"
  <2>1. PICK t \in Tears(journal, k, index[p]) : journal' = t
    BY <1>4 DEF Stop
  <2>2. index[p] \in Tiles
    BY <1>4 DEF TypeInv
  <2>3. /\ Claims(journal, m) \subseteq Claims(t, m)
        /\ Claims(t, m) \subseteq Claims(journal, m) \cup (IF m = k THEN {index[p]} ELSE {})
    BY <1>0, <1>4, <2>1, <2>2, TearsFacts DEF Reads, Working
  <2>. QED BY <1>4, <2>1, <2>3
<1>5. CASE Stop(p) /\ pc[p] # "append"
  BY <1>5 DEF Stop
<1>6. CASE Steps(p) /\ ~ LoadJournal(p) /\ ~ AppendCommit(p) /\ ~ RemoveNext(p)
  <2>1. UNCHANGED journal
    BY <1>6 DEF Steps, Execute, CheckMarker, CheckpointGate, ReuseTile, ComputeTile, WriteTile,
                Consume, SaveLastCheckpoint, Publish, WriteMarker, CleanupAfterPublish, Abandon,
                RemoveTile, WipeReturns
  <2>. QED BY <2>1
<1>. QED BY <1>1, <1>2, <1>3, <1>4, <1>5, <1>6

LEMMA FilesInductive ==
  ASSUME ~ CutsNewline, TypeInv, LockInv, JournalInv, FilesInv, [Next]_vars PROVE FilesInv'
<1>1. ASSUME NEW p \in Processes, Steps(p) \/ Stop(p) PROVE FilesInv'
  <2>1. ASSUME NEW m \in Keys PROVE tiles[m] \cup lost[m] \subseteq tiles'[m] \cup lost'[m]
    <3>1. CASE WriteTile(p)
      BY <3>1 DEF WriteTile, TypeInv
    <3>2. CASE RemoveTile(p)
      BY <3>2 DEF RemoveTile, TypeInv
    <3>3. CASE ~ WriteTile(p) /\ ~ RemoveTile(p)
      <4>1. UNCHANGED <<tiles, lost>>
        BY <1>1, <3>3 DEF Steps, Execute, CheckMarker, LoadJournal, CheckpointGate, ReuseTile,
              ComputeTile, AppendCommit, Consume, SaveLastCheckpoint, Publish, WriteMarker,
              CleanupAfterPublish, Abandon, RemoveNext, WipeReturns, Stop
      <4>. QED BY <4>1
    <3>. QED BY <3>1, <3>2, <3>3
  <2>2. Key[p] \in Keys
    BY RunAssumption
  <2>3. ASSUME NEW m \in Keys PROVE Claims(journal', m) \subseteq tiles'[m] \cup lost'[m]
    <3>1. Claims(journal', m) \subseteq
            Claims(journal, m) \cup (IF pc[p] = "append" /\ m = Key[p] THEN {index[p]} ELSE {})
      BY <1>1, ClaimsMove
    <3>2. Claims(journal', m) \subseteq tiles[m] \cup lost[m]
      BY <3>1 DEF FilesInv
    <3>. QED BY <2>1, <3>2
  <2>4. ASSUME NEW q \in Processes, pc'[q] = "append"
        PROVE  index'[q] \in tiles'[Key[q]] \cup lost'[Key[q]]
    <3>0. Key[q] \in Keys
      BY RunAssumption
    <3>1. CASE q # p
      BY <1>1, <2>1, <2>4, <3>0, <3>1, StepIsLocal DEF FilesInv
    <3>2. CASE q = p
      <4>1. WriteTile(p)
        <5>. USE DEF Goto, TypeInv
        <5>1. ~ Execute(p)
          BY <2>4, <3>2 DEF Execute
        <5>2. ~ CheckMarker(p)
          BY <2>4, <3>2 DEF CheckMarker, Wipes
        <5>3. ~ LoadJournal(p)
          BY <2>4, <3>2 DEF LoadJournal, Keeps, Wipes
        <5>4. ~ CheckpointGate(p)
          BY <2>4, <3>2 DEF CheckpointGate, Wipes
        <5>5. ~ ReuseTile(p)
          BY <2>4, <3>2 DEF ReuseTile
        <5>6. ~ ComputeTile(p)
          BY <2>4, <3>2 DEF ComputeTile
        <5>7. ~ AppendCommit(p)
          BY <2>4, <3>2 DEF AppendCommit
        <5>8. ~ Consume(p)
          BY <2>4, <3>2 DEF Consume
        <5>9. ~ SaveLastCheckpoint(p)
          BY <2>4, <3>2 DEF SaveLastCheckpoint
        <5>10. ~ Publish(p)
          BY <2>4, <3>2 DEF Publish
        <5>11. ~ WriteMarker(p)
          BY <2>4, <3>2 DEF WriteMarker
        <5>12. ~ CleanupAfterPublish(p)
          BY <2>4, <3>2 DEF CleanupAfterPublish, Wipes
        <5>13. ~ Abandon(p)
          BY <2>4, <3>2 DEF Abandon, Wipes
        <5>14. ~ RemoveTile(p)
          BY <2>4, <3>2 DEF RemoveTile
        <5>15. ~ RemoveNext(p)
          BY <2>4, <3>2 DEF RemoveNext
        <5>16. ~ WipeReturns(p)
          BY <2>4, <3>2 DEF WipeReturns
        <5>17. ~ Stop(p)
          BY <2>4, <3>2 DEF Stop
        <5>. QED BY <1>1, <5>1, <5>2, <5>3, <5>4, <5>5, <5>6, <5>7, <5>8, <5>9,
                    <5>10, <5>11, <5>12, <5>13, <5>14, <5>15, <5>16, <5>17 DEF Steps
      <4>. QED BY <2>2, <3>2, <4>1 DEF WriteTile, TypeInv
    <3>. QED BY <3>1, <3>2
  <2>. QED BY <2>3, <2>4 DEF FilesInv
<1>2. ASSUME NEW k \in Keys, NEW i \in Tiles, TileRots(k, i) PROVE FilesInv'
  <2>1. \A m \in Keys : tiles[m] \cup lost[m] \subseteq tiles'[m] \cup lost'[m]
    BY <1>2 DEF TileRots, TypeInv
  <2>2. UNCHANGED <<journal, pc, index>>
    BY <1>2 DEF TileRots
  <2>3. \A q \in Processes : Key[q] \in Keys
    BY RunAssumption
  <2>. QED BY <2>1, <2>2, <2>3 DEF FilesInv
<1>3. CASE UNCHANGED vars
  BY <1>3 DEF FilesInv
<1>. QED BY <1>1, <1>2, <1>3 DEF Next

LEMMA AckedInductive ==
  ASSUME ~ CutsNewline, TypeInv, LockInv, MarkerInv, JournalInv, AckedInv, [Next]_vars
  PROVE  AckedInv'
<1>1. ASSUME NEW p \in Processes, Steps(p) \/ Stop(p) PROVE AckedInv'
  <2>1. ASSUME NEW q \in Processes \ {p} PROVE Knows(q)'
    <3>1. pc'[q] = pc[q] /\ wiping'[q] = wiping[q] /\ view'[q] = view[q] /\ index'[q] = index[q]
      BY <1>1, StepIsLocal
    <3>2. CASE pc[q] \in Inside
      BY <1>1, <3>1, <3>2, HolderIsAlone DEF AckedInv, Knows
    <3>3. CASE pc[q] \notin Inside
      BY <3>1, <3>3 DEF Inside, Working, AckedInv, Knows
    <3>. QED BY <3>2, <3>3
  <2>. DEFINE k == Key[p]
  <2>2. k \in Keys /\ Kept(k) /\ Knows(p) /\ WellFormed(journal)
    BY RunAssumption DEF AckedInv, JournalInv
  <2>3. \A m \in Keys : Kept(m)
    BY DEF AckedInv
  <2>4. ASSUME UNCHANGED <<disk, acked>> PROVE \A m \in Keys : Kept(m)'
    BY <2>3, <2>4 DEF Kept, Displaced
  <2>5. ASSUME NEW m \in Keys, ~ (RemoveNext(p) /\ Head(wiping[p].left) = "journal"),
               UNCHANGED <<tiles, acked, marker, ckpt>>
        PROVE  Kept(m)'
    <3>1. Claims(journal, m) \subseteq Claims(journal', m)
      BY <1>1, <2>5, ClaimsMove
    <3>. QED BY <2>3, <2>5, <3>1 DEF Kept, Displaced
  <2>6. pc[p] \in Working => \A m \in Keys \ {k} : acked[m] = {}
    BY <2>3, OthersClaimNothing DEF Kept
  <2>7. (\A m \in Keys : Kept(m)') /\ Knows(p)'
    <3>. USE DEF Knows, Working
    <3>1. CASE Execute(p)
      BY <2>2, <2>4, <3>1 DEF Execute, Goto, TypeInv
    <3>2. CASE CheckMarker(p)
      <4>1. CASE Goto(p, "cleanup") \/ Goto(p, "load")
        BY <2>4, <3>2, <4>1 DEF CheckMarker, Goto, TypeInv
      <4>2. CASE marker \notin {NoKey, k} /\ Wipes(p, Everything, "load")
        BY <2>2, <2>4, <3>2, <4>2, WipesTyped DEF CheckMarker, Kept, Displaced
      <4>. QED BY <3>2, <4>1, <4>2 DEF CheckMarker
    <3>3. CASE LoadJournal(p)
      <4>1. \A m \in Keys : Kept(m)'
        BY <2>5, <3>3 DEF LoadJournal, RemoveNext
      <4>2. CASE Verdict(journal, k) \in {"fresh", "good"} /\ Keeps(p, journal)
        <5>1. view'[p] = Claims(journal, k) /\ pc'[p] = "gate"
          BY <2>2, <4>2, VerdictFacts DEF Keeps, Goto, TypeInv
        <5>. QED BY <2>2, <3>3, <4>1, <5>1 DEF Kept, LoadJournal
      <4>3. CASE Verdict(journal, k) = "tornHeader" /\ Keeps(p, EmptyFile)
        <5>1. Claims(journal, k) = {} /\ pc'[p] = "gate"
          BY <2>2, <4>3, VerdictFacts DEF Keeps, Goto, TypeInv
        <5>. QED BY <2>2, <3>3, <4>1, <5>1 DEF Kept, LoadJournal
      <4>4. CASE Verdict(journal, k) = "tornTail" /\ Keeps(p, Truncated(journal))
        <5>1. /\ CommittedIn(Read(Truncated(journal))) = Claims(Truncated(journal), k)
              /\ Claims(Truncated(journal), k) = Claims(journal, k)
          BY <2>2, <4>4, VerdictFacts
        <5>2. view'[p] = Claims(journal, k) /\ pc'[p] = "gate"
          BY <4>4, <5>1 DEF Keeps, Goto, TypeInv
        <5>. QED BY <2>2, <3>3, <4>1, <5>2 DEF Kept, LoadJournal
      <4>5. CASE Verdict(journal, k) = "foreign" /\ Wipes(p, Everything, "gate")
        <5>1. Claims(journal, k) = {} /\ acked' = acked
          BY <2>2, <3>3, <4>5, VerdictFacts DEF LoadJournal
        <5>2. acked'[k] = {}
          BY <2>2, <5>1 DEF Kept
        <5>. QED BY <4>1, <4>5, <5>2, WipesTyped
      <4>6. Verdict(journal, k) # "corrupt"
        BY <2>2, VerdictFacts
      <4>. QED BY <3>3, <4>2, <4>3, <4>4, <4>5, <4>6 DEF LoadJournal
    <3>4. CASE CheckpointGate(p)
      <4>1. CASE ckpt \notin {NoKey, k} /\ {ckpt, k} \subseteq Alike /\ Wipes(p, AllButMarker, "load")
        BY <2>2, <2>4, <3>4, <4>1, WipesTyped DEF CheckpointGate, Kept, Displaced
      <4>2. CASE /\ ckpt \in {NoKey, k} \/ ~ {ckpt, k} \subseteq Alike
                 /\ Goto(p, "tile")
        BY <2>2, <2>4, <3>4, <4>2 DEF CheckpointGate, Goto, TypeInv
      <4>. QED BY <3>4, <4>1, <4>2 DEF CheckpointGate
    <3>5. CASE ReuseTile(p)
      BY <2>2, <2>4, <3>5 DEF ReuseTile, TypeInv
    <3>6. CASE ComputeTile(p)
      BY <2>2, <2>4, <3>6 DEF ComputeTile, Goto, TypeInv
    <3>7. CASE WriteTile(p)
      <4>1. \A m \in Keys : tiles[m] \subseteq tiles'[m]
        BY <3>7 DEF WriteTile, TypeInv
      <4>2. \A m \in Keys : Kept(m)'
        BY <2>3, <3>7, <4>1 DEF WriteTile, Kept, Displaced
      <4>. QED BY <2>2, <3>7, <4>2 DEF WriteTile, Goto, TypeInv
    <3>8. CASE AppendCommit(p)
      <4>1. /\ index[p] \in Tiles /\ pc[p] = "append" /\ journal' = Appended(journal, k, index[p])
            /\ UNCHANGED <<ckpt, marker, tiles, view, index>> /\ pc'[p] = "consume"
            /\ acked'[k] = acked[k] \cup ({index[p]} \cap tiles[k])
            /\ \A m \in Keys \ {k} : acked'[m] = acked[m]
        BY <2>2, <3>8 DEF AppendCommit, Goto, TypeInv
      <4>2. Claims(journal', k) = Claims(journal, k) \cup {index[p]}
        BY <2>2, <4>1, AppendedFacts DEF JournalInv, Reads
      <4>3. marker = NoKey /\ ~ Displaced(k)
        BY <2>2, <4>1 DEF MarkerInv, Displaced
      <4>4. ASSUME NEW m \in Keys PROVE Kept(m)'
        <5>1. CASE m = k
          BY <2>2, <4>1, <4>2, <4>3, <5>1 DEF Kept, Displaced
        <5>2. CASE m # k
          BY <2>6, <4>1, <5>2 DEF Kept
        <5>. QED BY <5>1, <5>2
      <4>5. acked'[k] \subseteq view'[p] \cup {index'[p]}
        BY <2>2, <4>1
      <4>. QED BY <2>2, <4>1, <4>4, <4>5
    <3>9. CASE Consume(p)
      <4>1. /\ pc[p] = "consume" /\ pc'[p] = "tile" /\ view'[p] = view[p] \cup {index[p]}
            /\ UNCHANGED <<journal, marker, tiles, acked>> /\ ckpt' \in {ckpt, k}
        BY <3>9 DEF Consume, Goto, TypeInv
      <4>2. ASSUME NEW m \in Keys PROVE Kept(m)'
        <5>1. CASE m = k
          BY <2>2, <4>1, <5>1 DEF Kept, Displaced
        <5>2. CASE m # k
          BY <2>6, <4>1, <5>2 DEF Kept
        <5>. QED BY <5>1, <5>2
      <4>. QED BY <2>2, <4>1, <4>2
    <3>10. CASE SaveLastCheckpoint(p)
      <4>1. /\ pc[p] = "tile" /\ pc'[p] = "publish"
            /\ UNCHANGED <<journal, marker, tiles, acked, view>> /\ ckpt' = k
        BY <3>10 DEF SaveLastCheckpoint, Goto, TypeInv
      <4>2. ASSUME NEW m \in Keys PROVE Kept(m)'
        <5>1. CASE m = k
          BY <2>2, <4>1, <5>1 DEF Kept, Displaced
        <5>2. CASE m # k
          BY <2>6, <4>1, <5>2 DEF Kept
        <5>. QED BY <5>1, <5>2
      <4>. QED BY <2>2, <4>1, <4>2
    <3>11. CASE Publish(p)
      BY <2>2, <2>4, <3>11 DEF Publish, Goto, TypeInv
    <3>12. CASE WriteMarker(p)
      <4>1. /\ pc[p] = "mark" /\ pc'[p] = "cleanup"
            /\ UNCHANGED <<journal, ckpt, tiles, acked>> /\ marker' = k
        BY <3>12 DEF WriteMarker, Goto, TypeInv
      <4>2. ASSUME NEW m \in Keys PROVE Kept(m)'
        <5>1. CASE m = k
          BY <2>2, <4>1, <5>1 DEF Kept, Displaced
        <5>2. CASE m # k
          BY <2>6, <4>1, <5>2 DEF Kept
        <5>. QED BY <5>1, <5>2
      <4>. QED BY <4>1, <4>2
    <3>13. CASE CleanupAfterPublish(p) \/ Abandon(p)
      <4>1. CASE Wipes(p, AllButMarker, "idle")
        BY <2>4, <3>13, <4>1, WipesTyped DEF CleanupAfterPublish, Abandon
      <4>2. CASE Goto(p, "idle")
        BY <2>4, <3>13, <4>2 DEF CleanupAfterPublish, Abandon, Goto, TypeInv
      <4>. QED BY <3>13, <4>1, <4>2 DEF CleanupAfterPublish, Abandon
    <3>14. CASE RemoveTile(p)
      <4>1. PICK i \in tiles[k] :
              /\ tiles' = [tiles EXCEPT ![k] = @ \ {i}]
              /\ acked' = IF wiping[p].after = "idle"
                            THEN [acked EXCEPT ![k] = @ \ {i}] ELSE acked
        BY <3>14 DEF RemoveTile
      <4>2. pc[p] = "wipe" /\ UNCHANGED <<journal, ckpt, marker, pc, wiping>>
        BY <3>14 DEF RemoveTile
      <4>3. /\ tiles'[k] = tiles[k] \ {i} /\ acked'[k] \subseteq acked[k] \ {i}
            /\ \A m \in Keys \ {k} : tiles'[m] = tiles[m] /\ acked'[m] = acked[m]
        <5>1. CASE wiping[p].after = "idle"
          BY <2>2, <4>1, <5>1 DEF TypeInv
        <5>2. CASE wiping[p].after # "idle"
          BY <2>2, <4>1, <4>2, <5>2 DEF TypeInv
        <5>. QED BY <5>1, <5>2
      <4>4. ASSUME NEW m \in Keys PROVE Kept(m)'
        <5>1. CASE m = k
          BY <2>2, <4>2, <4>3, <5>1 DEF Kept, Displaced
        <5>2. CASE m # k
          BY <2>3, <4>2, <4>3, <5>2 DEF Kept, Displaced
        <5>. QED BY <5>1, <5>2
      <4>. QED BY <2>2, <4>2, <4>3, <4>4
    <3>15. CASE RemoveNext(p)
      <4>1. /\ pc[p] = "wipe" /\ wiping'[p].after = wiping[p].after
            /\ UNCHANGED <<pc, tiles>>
            /\ journal' = IF Head(wiping[p].left) = "journal" THEN NoFile ELSE journal
            /\ ckpt' \in {ckpt, NoKey} /\ marker' \in {marker, NoKey}
            /\ acked' = IF Head(wiping[p].left) # "journal" THEN acked
                        ELSE [m \in Keys |-> IF m = k /\ wiping[p].after # "idle"
                                               THEN acked[m] ELSE {}]
        BY <3>15 DEF RemoveNext, TypeInv
      <4>2. CASE Head(wiping[p].left) = "journal"
        <5>1. \A m \in Keys : acked'[m] = {}
          BY <2>2, <4>1, <4>2
        <5>. QED BY <2>2, <4>1, <5>1 DEF Kept
      <4>3. CASE Head(wiping[p].left) # "journal"
        <5>1. \A m \in Keys : Displaced(m)' => Displaced(m)
          BY <4>1 DEF Displaced
        <5>2. \A m \in Keys : Kept(m)'
          BY <2>3, <4>1, <4>3, <5>1 DEF Kept
        <5>. QED BY <2>2, <4>1, <4>3, <5>2
      <4>. QED BY <4>2, <4>3
    <3>16. CASE WipeReturns(p)
      <4>1. /\ pc'[p] = wiping[p].after /\ wiping[p].after \in {"idle", "load", "gate"}
            /\ pc[p] = "wipe" /\ UNCHANGED <<disk, acked>>
        BY <3>16 DEF WipeReturns, Goto, TypeInv
      <4>. QED BY <2>2, <2>4, <4>1
    <3>17. CASE Stop(p)
      <4>1. pc'[p] \in {"idle", "failing"}
        BY <3>17 DEF Stop, Goto, TypeInv
      <4>2. \A m \in Keys : Kept(m)'
        <5>1. ~ RemoveNext(p)
          BY <4>1 DEF RemoveNext
        <5>. QED BY <2>5, <3>17, <5>1 DEF Stop
      <4>. QED BY <4>1, <4>2
    <3>. QED BY <1>1, <3>1, <3>2, <3>3, <3>4, <3>5, <3>6, <3>7, <3>8, <3>9, <3>10, <3>11, <3>12,
                <3>13, <3>14, <3>15, <3>16, <3>17 DEF Steps
  <2>. QED BY <2>1, <2>7 DEF AckedInv
<1>2. ASSUME NEW k \in Keys, NEW i \in Tiles, TileRots(k, i) PROVE AckedInv'
  <2>1. /\ UNCHANGED <<journal, ckpt, marker, pc, index, view, wiping>>
        /\ tiles'[k] = tiles[k] \ {i} /\ acked'[k] = acked[k] \ {i}
        /\ \A m \in Keys \ {k} : tiles'[m] = tiles[m] /\ acked'[m] = acked[m]
    BY <1>2 DEF TileRots, TypeInv
  <2>2. ASSUME NEW m \in Keys PROVE Kept(m)' /\ acked'[m] \subseteq acked[m]
    <3>1. CASE m = k
      BY <2>1, <3>1 DEF AckedInv, Kept, Displaced
    <3>2. CASE m # k
      BY <2>1, <3>2 DEF AckedInv, Kept, Displaced
    <3>. QED BY <3>1, <3>2
  <2>3. ASSUME NEW q \in Processes PROVE Knows(q)'
    <3>1. Key[q] \in Keys
      BY RunAssumption
    <3>2. acked'[Key[q]] \subseteq acked[Key[q]]
      BY <2>2, <3>1
    <3>. QED BY <2>1, <3>2 DEF AckedInv, Knows
  <2>. QED BY <2>2, <2>3 DEF AckedInv
<1>3. CASE UNCHANGED vars
  BY <1>3 DEF AckedInv, Kept, Knows, Displaced
<1>. QED BY <1>1, <1>2, <1>3 DEF Next

-----------------------------------------------------------------------------

RunInv == TypeInv /\ LockInv /\ MarkerInv /\ JournalInv /\ FilesInv /\ AckedInv

LEMMA RunInvariant == ~ CutsNewline => (Spec => []RunInv)
<1>. SUFFICES ASSUME ~ CutsNewline PROVE Spec => []RunInv
  OBVIOUS
<1>1. Init => RunInv
  <2>. SUFFICES ASSUME Init PROVE RunInv
    OBVIOUS
  <2>1. TypeInv
    BY TypeInit
  <2>2. LockInv /\ MarkerInv
    BY DEF Init, LockInv, MarkerInv, Inside, Working
  <2>3. JournalInv
    BY NoFileIsBlank DEF Init, JournalInv, Reads, Working
  <2>4. FilesInv
    BY NoFileIsBlank DEF Init, FilesInv
  <2>5. AckedInv
    BY DEF Init, AckedInv, Kept, Displaced, Knows, Working
  <2>. QED BY <2>1, <2>2, <2>3, <2>4, <2>5 DEF RunInv
<1>2. RunInv /\ [Next]_vars => RunInv'
  BY TypeInductive, LockInductive, MarkerInductive, JournalInductive, FilesInductive,
     AckedInductive DEF RunInv
<1>. QED BY <1>1, <1>2, PTL DEF Spec

(* R5 for any number of callers: a marker stands for a publication, and    *)
(* while it stands nobody works on that run again.                         *)
THEOREM CommittedRunsStayCommitted == Spec => []MarkerIsTheCommit
<1>1. Init => TypeInv /\ LockInv /\ MarkerInv
  BY TypeInit DEF Init, LockInv, MarkerInv, Inside, Working
<1>2. TypeInv /\ LockInv /\ MarkerInv /\ [Next]_vars => (TypeInv /\ LockInv /\ MarkerInv)'
  BY TypeInductive, LockInductive, MarkerInductive
<1>3. TypeInv /\ MarkerInv => MarkerIsTheCommit
  BY RunAssumption DEF TypeInv, MarkerInv, MarkerIsTheCommit, Working
<1>. QED BY <1>1, <1>2, <1>3, PTL DEF Spec

(* R1 for any number of callers: what a run takes for committed, a journal *)
(* of its own identity says at that moment.                                *)
THEOREM IdentitiesAreNotMixed == ~ CutsNewline => (Spec => []NeverMixesIdentities)
<1>1. RunInv => NeverMixesIdentities
  <2>. SUFFICES ASSUME RunInv, NEW p \in Processes, pc[p] \in Working
                PROVE  view[p] \subseteq CommittedBy(Key[p])
    BY DEF NeverMixesIdentities, Working
  <2>1. Key[p] \in Keys /\ WellFormed(journal) /\ view[p] \subseteq Claims(journal, Key[p])
    BY RunAssumption DEF RunInv, JournalInv, Reads
  <2>2. CommittedBy(Key[p]) = Claims(journal, Key[p])
    BY <2>1, ClaimsFacts DEF CommittedBy
  <2>. QED BY <2>1, <2>2
<1>. QED BY <1>1, RunInvariant, PTL

(* The journal claims no tile whose file was not there before, for any     *)
(* number of callers and crashes.                                          *)
THEOREM ClaimedTilesWereWritten == ~ CutsNewline => (Spec => []CommittedTilesOnDisk)
<1>1. RunInv => CommittedTilesOnDisk
  <2>. SUFFICES ASSUME RunInv, NEW k \in Keys
                PROVE  CommittedBy(k) \subseteq tiles[k] \cup lost[k]
    BY DEF CommittedTilesOnDisk
  <2>1. CommittedBy(k) = Claims(journal, k)
    BY ClaimsFacts DEF RunInv, JournalInv, CommittedBy
  <2>. QED BY <2>1 DEF RunInv, FilesInv
<1>. QED BY <1>1, RunInvariant, PTL

(* R3 for any number of crashes: what an interrupted append leaves behind  *)
(* is never refused as corrupt.                                            *)
THEOREM OwnJournalIsNeverRefused == ~ CutsNewline => (Spec => []NeverRefusesOwnJournal)
<1>1. RunInv => NeverRefusesOwnJournal
  BY DEF RunInv, JournalInv, NeverRefusesOwnJournal
<1>. QED BY <1>1, RunInvariant, PTL

(* R2 for any number of callers and crashes: a tile whose append returned  *)
(* is not computed again.                                                  *)
THEOREM AcknowledgedTilesAreReused == ~ CutsNewline => (Spec => AcknowledgedNotRecomputed)
<1>1. RunInv /\ [Next]_vars =>
        \A p \in Processes :
          pc[p] = "tile" /\ pc'[p] = "write" => index[p] \notin acked[Key[p]]
  <2>. SUFFICES ASSUME RunInv, [Next]_vars, NEW p \in Processes,
                       pc[p] = "tile", pc'[p] = "write"
                PROVE  index[p] \notin acked[Key[p]]
    OBVIOUS
  <2>1. TypeInv /\ Key[p] \in Keys
    BY RunAssumption DEF RunInv
  <2>2. ComputeTile(p)
    <3>1. CASE UNCHANGED vars
      BY <3>1
    <3>2. ASSUME NEW k \in Keys, NEW i \in Tiles, TileRots(k, i) PROVE FALSE
      BY <3>2 DEF TileRots
    <3>3. ASSUME NEW q \in Processes \ {p}, Steps(q) \/ Stop(q) PROVE FALSE
      BY <2>1, <3>3, StepIsLocal
    <3>4. ASSUME Steps(p) \/ Stop(p) PROVE ComputeTile(p)
      BY <2>1, <3>4
         DEF Steps, Execute, CheckMarker, LoadJournal, CheckpointGate, ReuseTile, WriteTile,
             AppendCommit, Consume, SaveLastCheckpoint, Publish, WriteMarker,
             CleanupAfterPublish, Abandon, RemoveTile, RemoveNext, WipeReturns, Stop, Goto,
             TypeInv
    <3>. QED BY <3>1, <3>2, <3>3, <3>4 DEF Next
  <2>3. index[p] \notin view[p] \cap tiles[Key[p]]
    BY <2>2 DEF ComputeTile
  <2>4. acked[Key[p]] \subseteq view[p] \cap tiles[Key[p]]
    BY <2>1 DEF RunInv, AckedInv, Kept, Knows, Working
  <2>. QED BY <2>3, <2>4
<1>2. RunInv /\ [Next]_vars =>
        [\A p \in Processes :
           pc[p] = "tile" /\ pc'[p] = "write" => index[p] \notin acked[Key[p]]]_vars
  BY <1>1
<1>. QED BY <1>2, RunInvariant, PTL DEF Spec, AcknowledgedNotRecomputed

=============================================================================
