----------------------------- MODULE EventFile -----------------------------
(***************************************************************************)
(* The rotating event file (FileEmitter, crates/agent/src/emit.rs): the    *)
(* seam a log shipper tails.  A line is a number of size LineSize, a file  *)
(* the sequence of its lines; slot 0 is the base path and slot i the i-th  *)
(* roll.  The writer is a handle on a file: it follows its file when the   *)
(* file is renamed and may outlive its name.                               *)
(*                                                                         *)
(* Every call to the file system is a step: the flush, each rename of a    *)
(* roll, the reopening and the write.  At most MaxFaults of them fail, and *)
(* the agent may crash between any two; a crash loses the unflushed lines. *)
(***************************************************************************)
EXTENDS Integers, SequencesExt

CONSTANTS LineSize,    \* the size of each line, in the order they are emitted
          RotateBytes, \* rotate_bytes; 0 for no rotation
          MaxRolls,    \* max_rolls
          MaxFaults,   \* bound: calls that fail
          MaxCrashes,  \* bound: restarts of the agent
          NoFile       \* no file of that name

ASSUME FileSizes == /\ LineSize \in Seq(Nat \ {0})
                    /\ {RotateBytes, MaxRolls, MaxFaults, MaxCrashes} \subseteq Nat
                    /\ NoFile \notin Seq(Nat)

Slot == 0..MaxRolls
Unlinked == -1

VARIABLES disk,     \* the file in each slot
          handle,   \* the slot of the writer's file, or Unlinked
          buffer,   \* lines the BufWriter still holds
          bytes,    \* bytes_written
          emitted,  \* the number of lines emitted; the last of them is being written
          stage,    \* the call write_line makes next
          source,   \* the slot whose file is renamed next
          lostLines, \* history: lines reported as dropped, or being written at a crash
          failed,   \* history: the calls that have failed at some time
          faults,   \* the number of failures
          crashes   \* restarts

fileVars == <<disk, handle, buffer, bytes, emitted, stage, source,
              lostLines, failed, faults, crashes>>

SizeOf(ls) ==
  LET S[i \in 0..Len(ls)] == IF i = 0 THEN 0 ELSE S[i - 1] + LineSize[ls[i]]
  IN  S[Len(ls)]
File(i) == IF disk[i] = NoFile THEN <<>> ELSE disk[i]

-----------------------------------------------------------------------------
\* The file in slot i takes the next name; a file that had it is gone.  The handle
\* follows its file, and loses it to one that is moved over it.
Renamed(d, i) ==
  [disk   |-> [d.disk EXCEPT ![i + 1] = d.disk[i], ![i] = NoFile],
   handle |-> IF d.handle = i THEN i + 1 ELSE IF d.handle = i + 1 THEN Unlinked ELSE d.handle]

Flushed(d, lines) ==
  IF d.handle = Unlinked THEN d
  ELSE [disk |-> [d.disk EXCEPT ![d.handle] = @ \o lines], handle |-> d.handle]

\* A fresh base file; whatever still has its name is truncated.
Reopened(d) == [disk |-> [d.disk EXCEPT ![0] = <<>>], handle |-> 0]

WouldExceed(l) == /\ RotateBytes > 0 /\ bytes > 0
                  /\ bytes + LineSize[l] > RotateBytes

Here == [disk |-> disk, handle |-> handle]
Become(d) == disk' = d.disk /\ handle' = d.handle

Succeed == UNCHANGED <<failed, faults>>
Fail(call) == /\ faults < MaxFaults /\ faults' = faults + 1
              /\ failed' = failed \cup {call}

\* write_line returns an error, and emit reports the line as dropped.
Report == stage' = "idle" /\ lostLines' = lostLines \cup {emitted} /\ UNCHANGED source

\* emit: write_line rolls first when the line would not fit.
EmitLine ==
  /\ stage = "idle" /\ emitted < Len(LineSize) /\ emitted' = emitted + 1
  /\ stage' = IF WouldExceed(emitted + 1) THEN "flush" ELSE "write"
  /\ Succeed /\ UNCHANGED <<disk, handle, buffer, bytes, source, lostLines, crashes>>

\* roll starts with what the writer holds; without rolls it goes on to the open.
FlushOld ==
  /\ stage = "flush"
  /\ \/ /\ Become(Flushed(Here, buffer)) /\ buffer' = <<>>
        /\ stage' = IF MaxRolls > 0 THEN "rename" ELSE "open"
        /\ source' = MaxRolls - 1
        /\ Succeed /\ UNCHANGED lostLines
     \/ Fail("flush") /\ Report /\ UNCHANGED <<disk, handle, buffer>>
  /\ UNCHANGED <<bytes, emitted, crashes>>

\* A name that has no file is passed over, and so is a rename that fails.
RenameSlot(i) ==
  /\ stage = "rename"
  /\ \/ disk[i] # NoFile /\ Become(Renamed(Here, i)) /\ Succeed
     \/ disk[i] = NoFile /\ Succeed /\ UNCHANGED <<disk, handle>>
     \/ disk[i] # NoFile /\ Fail("rename") /\ UNCHANGED <<disk, handle>>
  /\ IF source > 0 THEN source' = source - 1 /\ UNCHANGED stage
                   ELSE stage' = "open" /\ UNCHANGED source
  /\ UNCHANGED <<buffer, bytes, emitted, lostLines, crashes>>

\* Mutant: the loop without rev().
RenameUpwards == RenameSlot(MaxRolls - 1 - source)

\* The rolls are renamed oldest first and the base last, so that each has moved up
\* before the one below takes its name.
RenameRoll == RenameSlot(source)

\* On an error the old writer stays, with its file and its count.
Reopen ==
  /\ stage = "open"
  /\ \/ /\ Become(Reopened(Here)) /\ buffer' = <<>> /\ bytes' = 0
        /\ stage' = "write"
        /\ Succeed /\ UNCHANGED <<source, lostLines>>
     \/ Fail("open") /\ Report /\ UNCHANGED <<disk, handle, buffer, bytes>>
  /\ UNCHANGED <<emitted, crashes>>

\* The line is written and flushed; when the flush fails it is reported, and stays
\* buffered.
WriteLine ==
  /\ stage = "write"
  /\ \/ /\ Become(Flushed(Here, Append(buffer, emitted)))
        /\ buffer' = <<>> /\ bytes' = bytes + LineSize[emitted]
        /\ stage' = "idle"
        /\ Succeed /\ UNCHANGED <<source, lostLines>>
     \/ /\ Fail("write") /\ Report
        /\ buffer' = Append(buffer, emitted)
        /\ UNCHANGED <<disk, handle, bytes>>
  /\ UNCHANGED <<emitted, crashes>>

\* FileEmitter::new: append to the base file and count what it holds.
Open == disk' = [disk EXCEPT ![0] = File(0)] /\ bytes' = SizeOf(File(0))

UnderWay == IF stage = "idle" THEN {} ELSE {emitted}

\* The agent crashes, at any call, and is started again.
Restart ==
  /\ crashes < MaxCrashes /\ crashes' = crashes + 1
  /\ Open /\ handle' = 0 /\ buffer' = <<>> /\ stage' = "idle"
  /\ lostLines' = lostLines \cup UnderWay
  /\ source' = 0 /\ Succeed /\ UNCHANGED emitted

FileInit ==
  /\ disk = [i \in Slot |-> IF i = 0 THEN <<>> ELSE NoFile]
  /\ handle = 0 /\ buffer = <<>> /\ bytes = 0
  /\ emitted = 0 /\ stage = "idle" /\ source = 0
  /\ lostLines = {} /\ failed = {} /\ faults = 0 /\ crashes = 0

FileNext == EmitLine \/ FlushOld \/ RenameRoll \/ Reopen \/ WriteLine \/ Restart
FileSpec == FileInit /\ [][FileNext]_fileVars

-----------------------------------------------------------------------------
(* Properties. *)

\* What a reader finds, in all the files.
OnDisk == UNION {ToSet(File(i)) : i \in Slot}

\* Whatever fails, and wherever in a rotation the agent crashes, no line is stored
\* twice or out of its order: a file is in order, and an older file holds older lines.
LinesInOrder ==
  /\ \A i \in Slot : \A j, k \in DOMAIN File(i) : j < k => File(i)[j] < File(i)[k]
  /\ \A i, j \in Slot : i < j => \A x \in ToSet(File(i)), y \in ToSet(File(j)) : y < x

\* A line that is neither on disk nor being written was reported as dropped, or was
\* being written at a crash, or is older than everything kept: a rotation loses whole
\* oldest rolls and nothing else, though it be cut off between its renames, or be
\* unable to flush or to open.  A failed rename is the exception: the next file, or
\* the truncation of the base, then takes what it left in place.
OnlyOldestDropped ==
  "rename" \notin failed =>
     \A l \in 1..emitted : \/ l \in OnDisk \cup lostLines \cup UnderWay
                           \/ \A kept \in OnDisk : l < kept

\* The last line is on disk, whatever failed before it.
LastLineKept == emitted > 0 => emitted \in OnDisk \cup lostLines \cup UnderWay

\* No file exceeds the limit unless it is a single line, whatever failed and wherever
\* the agent was restarted; only a write that fails is not counted and may be
\* flushed past the limit.
FilesBounded ==
  "write" \notin failed /\ RotateBytes > 0 =>
     \A i \in Slot : SizeOf(File(i)) <= RotateBytes \/ Len(File(i)) = 1

\* Through rotations that fail or are cut off at any of their calls, failed writes and
\* restarts: what is on disk is in the order it was written, lacks only lines that were
\* reported or cut off or had to make way for newer ones, and is bounded.
FileKept == LinesInOrder /\ OnlyOldestDropped /\ LastLineKept /\ FilesBounded
=============================================================================
