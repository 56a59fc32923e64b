------------------------------ MODULE TailSync ------------------------------
(***************************************************************************)
(* The tail prototype (go/cmd/codespace-tail-proto): a process polls the   *)
(* logs of one codespace over SFTP, mirrors them in local files, appends   *)
(* what has been appended, compares digests of samples, and leaves a       *)
(* checkpoint per log in codespace_tail_offsets, which the dashboard reads *)
(* (refreshCodespacesStreamingStatus, go/web_mode.go).                     *)
(*                                                                         *)
(* Copilot appends to the logs, replaces and removes them between any two  *)
(* calls of the process.  The process runs for --run-for and ends; nothing *)
(* restarts it, but its user may.                                          *)
(*                                                                         *)
(* Abstractions.  A log is a sequence of blocks of the size of the digest's *)
(* window (64 KiB) or less; a digest is the sampled blocks themselves.     *)
(* The connection is there or fails; timestamps and error texts are left   *)
(* out.  The local files can be read, and nobody else writes them.  The    *)
(* process tails all logs of the codespace (no --remote-file).             *)
(***************************************************************************)
EXTENDS Integers, SequencesExt

CONSTANTS
    Files,
    Blocks,         \* contents of a block
    Window,         \* sampleWindow, in blocks
    Changes,        \* what may happen to a log, a subset of AllChanges
    Faults,         \* which faults may happen, a subset of AllFaults
    MaxBlocks,      \* bound on the length of a log
    MaxChanges,     \* bound on the changes to the logs in one behaviour
    MaxFaults,      \* bound on the faults of one behaviour
    NoFile, Gone

AllChanges == {"append", "replace", "remove"}
AllFaults  == {"stat", "copy", "recopy", "digest", "store"}

ASSUME ConstantsAssumption ==
    /\ Window \in Nat \ {0}
    /\ Changes \subseteq AllChanges /\ Faults \subseteq AllFaults
    /\ MaxBlocks \in Nat /\ MaxChanges \in Nat /\ MaxFaults \in Nat
    /\ NoFile \notin Files
    /\ Gone \notin Seq(Blocks)

VARIABLES
    remote,     \* remote[f]: the blocks of a log, or Gone
    local,      \* local[f]: the blocks of its mirror
    tracked,    \* the files of this process's table
    offset,     \* trackedTailFile.Offset,
    pending,    \* FullCopyPending, and
    hash,       \* LastHash
    row,        \* codespace_tail_offsets
    cps,        \* the rows as loaded when the process started
    pc,
    force,      \* forceFullCopy of this session
    again,      \* --reconnect-once, and not done yet
    todo,       \* tracked files this poll has still to sync
    cur,        \* the file in hand,
    size,       \* its size as Stat saw it
    quiet,      \* files that have not changed since their last Stat
    torn,       \* files whose mirror a failed copy has left incomplete,
    undigested, \* whose last comparison of digests could not be made,
    unsaved,    \* and whose last checkpoint of this process was not written
    changes, faults

logs    == <<remote, changes>>
table   == <<tracked, offset, pending, hash>>
session == <<cps, force, again>>
hand    == <<todo, cur, size>>
misses  == <<torn, undigested>>
store   == <<row, unsaved>>
vars    == <<logs, local, table, store, session, pc, hand, quiet, misses, faults>>

PCs    == {"stopped", "list", "poll", "stat", "copy", "digest", "recopy", "store"}
NoRow  == [offset |-> 0, hash |-> <<>>, state |-> "none"]
Exists(f) == remote[f] # Gone

Init ==
    /\ remote \in [Files -> {Gone, <<>>}]
    /\ local = [f \in Files |-> <<>>]
    /\ tracked = {}
    /\ offset = [f \in Files |-> 0]
    /\ pending = {}
    /\ hash = local
    /\ row = [f \in Files |-> NoRow]
    /\ cps = row
    /\ pc = "stopped"
    /\ force = FALSE
    /\ again = FALSE
    /\ todo = {}
    /\ cur = NoFile
    /\ size = 0
    /\ quiet = {}
    /\ torn = {} /\ undigested = {} /\ unsaved = {}
    /\ changes = 0
    /\ faults = 0

Fault(kind) == kind \in Faults /\ faults < MaxFaults /\ faults' = faults + 1
-----------------------------------------------------------------------------
(* Copilot in the codespace (external). *)

ChangeTo(f, blocks) ==
    /\ changes < MaxChanges
    /\ changes' = changes + 1
    /\ remote' = [remote EXCEPT ![f] = blocks]
    /\ quiet' = quiet \ {f}
    /\ UNCHANGED <<local, table, store, session, pc, hand, misses, faults>>

AppendBlock(f) ==
    /\ "append" \in Changes
    /\ Exists(f) /\ Len(remote[f]) < MaxBlocks
    /\ \E b \in Blocks : ChangeTo(f, Append(remote[f], b))

(* Written anew, or created. *)
ReplaceLog(f) ==
    /\ "replace" \in Changes
    /\ \E blocks \in BoundedSeq(Blocks, MaxBlocks) : ChangeTo(f, blocks)

RemoveLog(f) == "remove" \in Changes /\ Exists(f) /\ ChangeTo(f, Gone)
-----------------------------------------------------------------------------
(* Reading a log *)

Part(blocks, from, to) == SubSeq(blocks, from, IF to < Len(blocks) THEN to ELSE Len(blocks))

(* sampleHashFromReadAt: the first and the last window of the first n      *)
(* blocks; a file that is shorter yields what there is.                    *)
Digest(blocks, n) ==
    IF n <= Window THEN Part(blocks, 1, n)
    ELSE Part(blocks, 1, Window) \o Part(blocks, n - Window + 1, n)

LocalDigest(f)  == Digest(local[f], Len(local[f]))
RemoteDigest(f) == Digest(remote[f], offset[f])

(* fullCopy: the mirror is created anew.  A copy that breaks off leaves    *)
(* the mirror with the beginning of the log.                               *)
FullCopy(f) ==
    /\ local' = [local EXCEPT ![f] = remote[f]]
    /\ offset' = [offset EXCEPT ![f] = Len(remote[f])]
    /\ torn' = torn \ {f}

CopyBreaksOff(f) ==
    /\ \E n \in 0..Len(remote[f]) : local' = [local EXCEPT ![f] = SubSeq(remote[f], 1, n)]
    /\ torn' = torn \cup {f}

(* Mutant: the offset is the size that Stat has seen. *)
AppendDelta_ToStat(f) ==
    /\ local' = [local EXCEPT ![f] = @ \o Part(remote[f], offset[f] + 1, Len(remote[f]))]
    /\ offset' = [offset EXCEPT ![f] = size]
    /\ UNCHANGED torn

(* appendDelta copies to the end of the log as it is now, and nothing when *)
(* that is before the offset.                                              *)
AppendDelta(f) ==
    LET delta == Part(remote[f], offset[f] + 1, Len(remote[f]))
    IN  /\ local' = [local EXCEPT ![f] = @ \o delta]
        /\ offset' = [offset EXCEPT ![f] = @ + Len(delta)]
        /\ UNCHANGED torn

(* Checkpoints.  The state store is the database that syncs lock, opened   *)
(* without a busy timeout, and the error of every write of it is dropped:  *)
(* the old row stays, and the process goes on.                             *)
Checkpointed(f, state) == [offset |-> offset'[f], hash |-> hash'[f], state |-> state]

Upsert(f, state) ==
    /\ row' = [row EXCEPT ![f] = Checkpointed(f, state)]
    /\ unsaved' = unsaved \ {f}

UpsertFails(f) == "store" \in Faults /\ unsaved' = unsaved \cup {f} /\ UNCHANGED row

(* The old offset and the hash are overwritten.  The files are written one *)
(* by one.                                                                 *)
MarkDisconnected(gone) ==
    \E missed \in SUBSET gone :
        /\ IF missed = {} THEN UNCHANGED faults ELSE Fault("store")
        /\ row' = [f \in Files |-> IF f \in gone \ missed
                                   THEN [NoRow EXCEPT !.state = "disconnected"]
                                   ELSE row[f]]
        /\ unsaved' = (unsaved \ gone) \cup missed
-----------------------------------------------------------------------------
(* main and runTailSession *)

(* The state store is opened, its rows are loaded, a session connects. *)
StartProcess ==
    /\ pc = "stopped"
    /\ cps' = row
    /\ tracked' = {} /\ pending' = {}
    /\ force' = TRUE
    /\ again' \in BOOLEAN
    /\ unsaved' = {}
    /\ pc' = "list"
    /\ UNCHANGED <<logs, local, offset, hash, row, hand, quiet, misses, faults>>

(* Mutant: the file in hand and the rest of the poll are not let go. *)
Exit_KeepHand ==
    /\ pc' = "stopped"
    /\ tracked' = {} /\ pending' = {}
    /\ cps' = [f \in Files |-> NoRow]
    /\ force' = FALSE /\ again' = FALSE
    /\ UNCHANGED hand

(* Nothing is written on the way out: the rows stay as they are. *)
Exit ==
    /\ pc' = "stopped"
    /\ tracked' = {} /\ pending' = {}
    /\ cps' = [f \in Files |-> NoRow]
    /\ force' = FALSE /\ again' = FALSE
    /\ todo' = {} /\ cur' = NoFile /\ size' = 0

(* The time is up, or connecting fails. *)
Finish ==
    /\ pc = "list"
    /\ Exit
    /\ UNCHANGED <<logs, local, offset, hash, store, quiet, misses, faults>>

(* The second session: full copies again, with the same table. *)
Reconnect ==
    /\ pc = "list"
    /\ again
    /\ again' = FALSE
    /\ force' = TRUE
    /\ UNCHANGED <<logs, local, table, store, cps, pc, hand, quiet, misses, faults>>

(* Mutant: what has disappeared keeps its row. *)
Reconcile_KeepRows(found) ==
    /\ tracked' = found
    /\ UNCHANGED <<store, faults>>

(* reconcileTrackedFiles, and MarkDisconnected for what has disappeared. *)
Reconcile(found) ==
    /\ tracked' = found
    /\ MarkDisconnected(tracked \ found)

Poll ==
    LET found == {f \in Files : Exists(f)}
        new   == found \ tracked
    IN  /\ pc = "list"
        /\ found # {}
        /\ Reconcile(found)
        /\ offset' = [f \in Files |-> IF f \in new THEN cps[f].offset ELSE offset[f]]
        /\ hash' = [f \in Files |-> IF f \in new THEN cps[f].hash ELSE hash[f]]
        /\ pending' = IF force THEN found ELSE (pending \cap found) \cup new
        /\ force' = FALSE
        /\ todo' = found
        /\ pc' = "poll"
        /\ UNCHANGED <<logs, local, cps, again, cur, size, quiet, misses>>

(* listRemoteProcessLogs takes an empty directory for an error. *)
NothingListed ==
    /\ pc = "list"
    /\ \A f \in Files : ~Exists(f)
    /\ Exit
    /\ UNCHANGED <<logs, local, offset, hash, store, quiet, misses, faults>>

NextFile(f) ==
    /\ pc = "poll" /\ f \in todo
    /\ todo' = todo \ {f}
    /\ cur' = f
    /\ pc' = "stat"
    /\ UNCHANGED <<logs, local, table, store, session, size, quiet, misses, faults>>

EndPoll ==
    /\ pc = "poll" /\ todo = {}
    /\ pc' = "list"
    /\ UNCHANGED <<logs, local, table, store, session, hand, quiet, misses, faults>>

PutDown == cur' = NoFile /\ size' = 0

-----------------------------------------------------------------------------
(* syncTrackedFile *)

Stat(f) ==
    /\ pc = "stat" /\ cur = f
    /\ Exists(f)
    /\ size' = Len(remote[f])
    /\ quiet' = quiet \cup {f}
    /\ pc' = "copy"
    /\ UNCHANGED <<logs, local, table, store, session, todo, cur, misses, faults>>

StatFails(f) ==
    /\ pc = "stat" /\ cur = f
    /\ Fault("stat")
    /\ Exit
    /\ UNCHANGED <<offset, hash>>
    /\ Upsert(f, "degraded") \/ UpsertFails(f)
    /\ UNCHANGED <<logs, local, quiet, misses>>

(* syncTrackedFile has met "no such file", in Stat or in a copy: the file   *)
(* is dropped from the table.  Stat has written a degraded row by then,    *)
(* which stays when the second write fails.                                *)
FileGone(f) ==
    /\ cur = f
    /\ \/ pc = "stat"
       \/ pc = "copy" /\ (f \in pending \/ size # offset[f])
    /\ ~Exists(f)
    /\ tracked' = tracked \ {f} /\ pending' = pending \ {f}
    /\ UNCHANGED <<offset, hash>>
    /\ \/ MarkDisconnected({f})
       \/ /\ pc = "stat"
          /\ Fault("store")
          /\ row' = [row EXCEPT ![f] = Checkpointed(f, "degraded")]
          /\ unsaved' = unsaved \cup {f}
    /\ pc' = "poll" /\ PutDown
    /\ UNCHANGED <<logs, local, session, todo, quiet, misses>>

NeedsFullCopy(f) == f \in pending \/ size < offset[f]

Copy(f) ==
    /\ pc = "copy" /\ cur = f
    /\ \/ NeedsFullCopy(f) /\ Exists(f) /\ FullCopy(f)
       \/ ~NeedsFullCopy(f) /\ size > offset[f] /\ Exists(f) /\ AppendDelta(f)
       \/ ~NeedsFullCopy(f) /\ size <= offset[f] /\ UNCHANGED <<local, offset, torn>>
    /\ pending' = pending \ {f}
    /\ pc' = "digest"
    /\ UNCHANGED <<logs, tracked, hash, store, session, hand, quiet, undigested, faults>>

(* An error in the middle of either copy ends the process. *)
CopyFails(f) ==
    /\ pc = "copy" /\ cur = f /\ Exists(f)
    /\ Fault("copy")
    /\ \/ NeedsFullCopy(f) /\ CopyBreaksOff(f)
       \/ ~NeedsFullCopy(f) /\ size > offset[f] /\ AppendDelta(f)
    /\ Exit
    /\ UNCHANGED <<logs, hash, store, quiet, undigested>>
    /\ NeedsFullCopy(f) => UNCHANGED offset

(* Mutant: the digest is stored, but not compared. *)
Differs_Never(f) == FALSE

Differs(f) == Exists(f) /\ LocalDigest(f) # RemoteDigest(f)

CompareDigests(f) ==
    /\ pc = "digest" /\ cur = f
    /\ hash' = [hash EXCEPT ![f] = LocalDigest(f)]
    /\ undigested' = undigested \ {f}
    /\ pc' = IF Differs(f) THEN "recopy" ELSE "store"
    /\ UNCHANGED <<logs, local, tracked, offset, pending, store, session, hand, quiet, torn,
                   faults>>

(* The remote digest cannot be read: the comparison is skipped silently,   *)
(* and what has replaced the log with one of the same length is not seen.  *)
DigestFails(f) ==
    /\ pc = "digest" /\ cur = f
    /\ Fault("digest")
    /\ hash' = [hash EXCEPT ![f] = LocalDigest(f)]
    /\ undigested' = undigested \cup {f}
    /\ pc' = "store"
    /\ UNCHANGED <<logs, local, tracked, offset, pending, store, session, hand, quiet, torn>>

DefensiveRecopy(f) ==
    /\ pc = "recopy" /\ cur = f
    /\ IF Exists(f)
         THEN /\ FullCopy(f)
              /\ hash' = [hash EXCEPT ![f] = Digest(remote[f], Len(remote[f]))]
         ELSE UNCHANGED <<local, offset, torn, hash>>
    /\ pc' = "store"
    /\ UNCHANGED <<logs, tracked, pending, store, session, hand, quiet, undigested, faults>>

(* Its error is dropped; offset and hash stay. *)
RecopyFails(f) ==
    /\ pc = "recopy" /\ cur = f /\ Exists(f)
    /\ Fault("recopy")
    /\ CopyBreaksOff(f)
    /\ pc' = "store"
    /\ UNCHANGED <<logs, table, store, session, hand, quiet, undigested>>

Checkpoint(f) ==
    /\ pc = "store" /\ cur = f
    /\ offset' = IF offset[f] = 0 THEN [offset EXCEPT ![f] = Len(local[f])] ELSE offset
    /\ UNCHANGED hash
    /\ \/ Upsert(f, "connected") /\ UNCHANGED faults
       \/ UpsertFails(f) /\ Fault("store")
    /\ PutDown
    /\ pc' = "poll"
    /\ UNCHANGED <<logs, local, tracked, pending, session, todo, quiet, misses>>
-----------------------------------------------------------------------------
FileStep(f) ==
    \/ NextFile(f) \/ Stat(f) \/ FileGone(f) \/ Copy(f)
    \/ CompareDigests(f) \/ DefensiveRecopy(f) \/ Checkpoint(f)

FaultStep(f) == StatFails(f) \/ CopyFails(f) \/ DigestFails(f) \/ RecopyFails(f)

Next ==
    \/ \E f \in Files : AppendBlock(f) \/ ReplaceLog(f) \/ RemoveLog(f)
    \/ StartProcess \/ Finish \/ Reconnect \/ Poll \/ NothingListed \/ EndPoll
    \/ \E f \in Files : FileStep(f) \/ FaultStep(f)

Spec == Init /\ [][Next]_vars
-----------------------------------------------------------------------------
(* refreshCodespacesStreamingStatus *)

Streams(state) == {f \in Files : row[f].state = state}

StreamStatus ==
    CASE \A f \in Files : row[f].state = "none" -> "skipped"
      [] Streams("connected") # {} -> "ok"
      [] OTHER -> "stale"
-----------------------------------------------------------------------------
(* Properties *)

Row == [offset : Nat, hash : Seq(Blocks),
        state : {"none", "connected", "degraded", "disconnected"}]

(* The values the logs, the table and the checkpoints may have. *)
TypeOK ==
    /\ remote \in [Files -> Seq(Blocks) \cup {Gone}]
    /\ local \in [Files -> Seq(Blocks)]
    /\ tracked \in SUBSET Files
    /\ offset \in [Files -> Nat]
    /\ pending \in SUBSET tracked
    /\ hash \in [Files -> Seq(Blocks)]
    /\ row \in [Files -> Row] /\ cps \in [Files -> Row]
    /\ pc \in PCs
    /\ force \in BOOLEAN /\ again \in BOOLEAN
    /\ todo \in SUBSET tracked
    /\ cur \in tracked \cup {NoFile}
    /\ cur = NoFile <=> pc \in {"stopped", "list", "poll"}
    /\ size \in Nat
    /\ quiet \in SUBSET Files /\ torn \in SUBSET Files
    /\ undigested \in SUBSET Files /\ unsaved \in SUBSET Files
    /\ changes \in Nat /\ faults \in Nat

Mirrored(f) ==
    /\ Len(local[f]) = Len(remote[f])
    /\ LocalDigest(f) = Digest(remote[f], Len(remote[f]))

Polled == {f \in tracked \ (todo \cup {cur}) : pc \in {"list", "poll", "stat"}}

(* A poll of a log that does not change meanwhile leaves a mirror of the   *)
(* same length and with the same samples, whatever the log and the mirror  *)
(* were before: appended to, cut, replaced, or half copied by a process    *)
(* that ended.  There are two exceptions.  A defensive recopy that failed  *)
(* leaves the old offset with the new mirror, and the digests do not tell  *)
(* the size.  And where the digest of the log could not be read in this    *)
(* poll nothing was compared: then the mirror may be of what the log was.  *)
QuietLogsAreMirrored ==
    \A f \in (Polled \cap quiet) \ (torn \cup undigested) : Mirrored(f)

(* Between two files' turns the checkpoint of a tracked log describes its  *)
(* mirror: connected, its length, and its digest; except when a defensive  *)
(* recopy has just failed, and when the write of the row in the file's     *)
(* last turn did: the process goes on without a word, with the old row.    *)
CheckpointsDescribeMirrors ==
    pc \in {"list", "poll"} =>
        \A f \in (tracked \ (todo \cup torn \cup unsaved)) \ pending :
            row[f] = [offset |-> Len(local[f]), hash |-> LocalDigest(f), state |-> "connected"]

(* While the process runs a log it has dropped is not counted as connected,*)
(* and the dashboard's status is ok only on account of a log it follows;   *)
(* except for rows a process before it has left connected, and for those   *)
(* of dropped logs that could not be written.                              *)
DroppedIsDisconnected ==
    pc \in {"poll", "stat", "copy", "digest", "recopy", "store"} =>
        LET inherited == {f \in Files : cps[f].state = "connected"}
        IN  /\ Streams("connected") \subseteq tracked \cup inherited \cup unsaved
            /\ StreamStatus = "ok" => tracked \cup inherited \cup unsaved # {}
=============================================================================
