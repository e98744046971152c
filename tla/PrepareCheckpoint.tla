-------------------------- MODULE PrepareCheckpoint --------------------------
(***************************************************************************)
(* prepare() on rank 0 (fleet/boot.py): the pinned checkpoint is           *)
(* downloaded and its files are hashed in parallel, except those that the  *)
(* receipt of an earlier boot still fits.  Files may be rewritten and the  *)
(* container may end at any time, and a later one may pin another          *)
(* revision.  A digest stands for the bytes it is the digest of.           *)
(***************************************************************************)
EXTENDS Integers, FiniteSets

CONSTANTS
  CheckpointFiles,  \* siblings of the revision
  Revisions,        \* revisions that releases of boot.py pin
  MaxStat,          \* bound on the writes to the files
  Missing           \* no file, no revision, bytes of no revision

ASSUME CheckpointAssumption ==
  Missing \notin Revisions /\ "config.json" \in CheckpointFiles /\ MaxStat \in Nat

VARIABLES
  pinned,     \* REVISION
  disk,       \* a file's bytes and its stat: size, time and inode
  lastStat,   \* the stat of the last write
  receipt,    \* verification.json
  phase,      \* "down", "download", "verify", "verified", "unverified", "raised"
  progress,   \* of each file's verify: "stat", "hash", "recheck", "done"
  before      \* the stat verify took first

prepareVars == <<pinned, disk, lastStat, receipt, phase, progress, before>>

Unread == [f \in CheckpointFiles |-> 0]

PrepareInit ==
  /\ pinned \in Revisions
  /\ disk = [f \in CheckpointFiles |-> [bytes |-> Missing, stat |-> 0]]
  /\ lastStat = 0
  /\ receipt = [revision |-> Missing, stats |-> Unread]
  /\ phase = "down"
  /\ progress = [f \in CheckpointFiles |-> "stat"]
  /\ before = Unread

\* The file is replaced or rewritten: stat tells it from what was there.
Write(f, bytes) ==
  /\ lastStat < MaxStat
  /\ lastStat' = lastStat + 1
  /\ disk' = [disk EXCEPT ![f] = [bytes |-> bytes, stat |-> lastStat + 1]]

\* Somebody rewrites a file, at any time.
Rewrite(f) ==
  /\ disk[f].stat # 0
  /\ \E bytes \in Revisions \cup {Missing} : Write(f, bytes)
  /\ UNCHANGED <<pinned, receipt, phase, progress, before>>

\* The container starts: SKIP_PREPARE asks for a config.json, else the download begins.
Boot(skipPrepare) ==
  /\ phase = "down"
  /\ phase' = IF ~skipPrepare THEN "download"
              ELSE IF disk["config.json"].stat # 0 THEN "unverified" ELSE "raised"
  /\ UNCHANGED <<pinned, disk, lastStat, receipt, progress, before>>

\* snapshot_download writes a file, maybe not what it should.
Download(f) ==
  /\ phase = "download" /\ disk[f].bytes # pinned
  /\ \E bytes \in {pinned, Missing} : Write(f, bytes)
  /\ UNCHANGED <<pinned, receipt, phase, progress, before>>

\* It returns when all files are there; SKIP_VERIFY goes on without a look at them.
Downloaded(skipVerify) ==
  /\ phase = "download" /\ \A f \in CheckpointFiles : disk[f].stat # 0
  /\ phase' = IF skipVerify THEN "unverified" ELSE "verify"
  /\ progress' = [f \in CheckpointFiles |-> "stat"]
  /\ before' = Unread
  /\ UNCHANGED <<pinned, disk, lastStat, receipt>>

\* Mutant: a receipt is good for any file of its name.
FitsByName(f) == receipt.revision = pinned

\* The receipt is of this revision and of the file as it is.
Fits(f) == receipt.revision = pinned /\ receipt.stats[f] = disk[f].stat

Raise == phase' = "raised" /\ UNCHANGED <<progress, before>>

\* verify takes the file's stat; a wrong size raises, a fitting receipt is enough.
Stat(f) ==
  /\ phase = "verify" /\ progress[f] = "stat"
  /\ \/ /\ before' = [before EXCEPT ![f] = disk[f].stat]
        /\ progress' = [progress EXCEPT ![f] = IF Fits(f) THEN "done" ELSE "hash"]
        /\ UNCHANGED phase
     \/ disk[f].bytes # pinned /\ Raise
  /\ UNCHANGED <<pinned, disk, lastStat, receipt>>

\* It reads the bytes; another digest than the revision's raises.
Hash(f) ==
  /\ phase = "verify" /\ progress[f] = "hash"
  /\ IF disk[f].bytes = pinned
     THEN progress' = [progress EXCEPT ![f] = "recheck"] /\ UNCHANGED <<phase, before>>
     ELSE Raise
  /\ UNCHANGED <<pinned, disk, lastStat, receipt>>

\* It looks whether the file changed meanwhile.
Recheck(f) ==
  /\ phase = "verify" /\ progress[f] = "recheck"
  /\ IF disk[f].stat = before[f]
     THEN progress' = [progress EXCEPT ![f] = "done"] /\ UNCHANGED <<phase, before>>
     ELSE Raise
  /\ UNCHANGED <<pinned, disk, lastStat, receipt>>

\* All files are verified and the index names no other: the receipt is replaced.
Finish ==
  /\ phase = "verify" /\ \A f \in CheckpointFiles : progress[f] = "done"
  /\ phase' = "verified"
  /\ receipt' = [revision |-> pinned, stats |-> before]
  /\ UNCHANGED <<pinned, disk, lastStat, progress, before>>

\* The container ends, at any time; the next one may be of another release.
End ==
  /\ phase # "down"
  /\ phase' = "down"
  /\ pinned' \in Revisions
  /\ UNCHANGED <<disk, lastStat, receipt, progress, before>>

PrepareNext ==
  \/ \E f \in CheckpointFiles : Rewrite(f) \/ Download(f) \/ Stat(f) \/ Hash(f) \/ Recheck(f)
  \/ \E skip \in BOOLEAN : Boot(skip) \/ Downloaded(skip)
  \/ Finish \/ End

PrepareSpec == PrepareInit /\ [][PrepareNext]_prepareVars

\* A file that still is what a receipt says has the bytes of the receipt's revision,
\* whatever was rewritten while it was hashed; a verified boot leaves such a receipt
\* of the revision it pins, with a stat of every file.
PrepareHonest ==
  /\ \A f \in CheckpointFiles :
       receipt.revision # Missing /\ disk[f].stat = receipt.stats[f]
         => disk[f].bytes = receipt.revision
  /\ phase = "verified" =>
       receipt.revision = pinned /\ \A f \in CheckpointFiles : receipt.stats[f] # 0
===============================================================================
