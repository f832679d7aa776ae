-------------------------------- MODULE Etw ---------------------------------
(***************************************************************************)
(* The Windows backend of the event bus: the ETW session's callbacks and   *)
(* the cache that gives a write its path (crates/substrate/src/etw.rs),    *)
(* below a monitor.                                                        *)
(*                                                                         *)
(* One thread takes the session's records in the order they were made; the *)
(* session may lose any of them.  A file object is the number Windows gave *)
(* it, and numbers are reused.                                             *)
(***************************************************************************)
EXTENDS Ebpf

CONSTANTS Object,   \* FileObject values
          CacheCap  \* FILE_CACHE_CAP

ASSUME CacheSize == CacheCap \in Nat \ {0}

OrderCap == 2 * CacheCap   \* FILE_CACHE_ORDER_CAP

VARIABLES backend, \* the backend select_event_bus has started
          file,    \* the path behind each open file object, None for a free one
          cache,   \* FileNameCache::map
          order,   \* FileNameCache::order
          misses   \* the kinds of record lost, to the session or to the cache

etwVars == <<file, cache, order, misses>>

-----------------------------------------------------------------------------
(* FileNameCache. *)

\* Pop tokens until one of a live key is found; that key goes.
Evicted(m, o) ==
  LET i == Min({j \in 1..Len(o) : o[j] \in DOMAIN m} \cup {Len(o) + 1})
  IN [map |-> IF i > Len(o) THEN m ELSE Forget(m, o[i]),
      order |-> SubSeq(o, i + 1, Len(o))]

\* Past its cap the deque keeps the last token of each live key.
Compacted(m, o) ==
  LET keep == {i \in 1..Len(o) : /\ o[i] \in DOMAIN m
                                 /\ \A j \in (i + 1)..Len(o) : o[j] # o[i]}
      pos == Filter([i \in 1..Len(o) |-> i], keep)
  IN [k \in 1..Len(pos) |-> o[pos[k]]]

\* Mutant: a key that is known keeps its path.
InsertKeeps(fo, path) ==
  LET full == fo \notin DOMAIN cache /\ Cardinality(DOMAIN cache) >= CacheCap
      room == IF full THEN Evicted(cache, order) ELSE [map |-> cache, order |-> order]
      m == room.map @@ (fo :> path)
      o == Append(room.order, fo)
  IN /\ cache' = m
     /\ order' = IF Len(o) > OrderCap THEN Compacted(m, o) ELSE o

InsertFile(fo, path) ==
  LET full == fo \notin DOMAIN cache /\ Cardinality(DOMAIN cache) >= CacheCap
      room == IF full THEN Evicted(cache, order) ELSE [map |-> cache, order |-> order]
      m == Put(room.map, fo, path)
      o == Append(room.order, fo)
  IN /\ cache' = m
     /\ order' = IF Len(o) > OrderCap THEN Compacted(m, o) ELSE o

RemoveFile(fo) == cache' = Forget(cache, fo) /\ UNCHANGED order

-----------------------------------------------------------------------------
(* The records of the session. *)

EtwRecord(kind, p) ==
  [n |-> ops + 1, kind |-> kind, pid |-> p, origin |-> life[p],
   image |-> [lolbin |-> FALSE, suspiciousDir |-> FALSE, interpreter |-> FALSE,
              tool |-> None],
   cmdline |-> None, trusted |-> None, addr |-> None, port |-> None,
   path |-> None, ts |-> 0, runs |-> None]

EtwCall(kind) == /\ ops < MaxOps[monitor] /\ ops' = ops + 1 /\ kind \in Handles(monitor)
                 /\ UNCHANGED <<rings, dropped, polling, writeSeen, open, monitor,
                                table, seen, records, handled, stopped>>

\* The record reaches its callback, which does Handled; or is lost, or does
\* not parse.
Observed(kind, Handled) ==
  \/ Handled /\ UNCHANGED misses
  \/ /\ misses' = misses \cup {kind}
     /\ UNCHANGED <<backlog, lagged, cache, order>>

\* Kernel-Process start and stop carry the image and, in some versions of the
\* schema, the command line.
Start(p, g) ==
  /\ EtwCall("exec") /\ p \notin Running
  /\ proc' = [proc EXCEPT ![p] = g] /\ life' = [life EXCEPT ![p] = ops + 1]
  /\ \E c \in {None, g.cmdline}, t \in Time[monitor] :
       Observed("start",
         /\ Publish([EtwRecord("exec", p) EXCEPT
                       !.image = g.image, !.cmdline = c, !.ts = t,
                       !.origin = ops + 1])
         /\ UNCHANGED <<cache, order>>)
  /\ UNCHANGED file

StopProcess(p) ==
  /\ EtwCall("exit") /\ p \in Running
  /\ proc' = [proc EXCEPT ![p] = None]
  /\ \E t \in Time[monitor] :
       Observed("stop",
         /\ Publish([EtwRecord("exit", p) EXCEPT
                       !.image = proc[p].image, !.ts = t])
         /\ UNCHANGED <<cache, order>>)
  /\ UNCHANGED <<life, file>>

\* Kernel-Network carries no image.
ConnectAttempt(p, d) ==
  /\ EtwCall("connect") /\ p \in Running /\ d.addr # "v6"
  /\ Observed("connect",
       /\ Publish([EtwRecord("connect", p) EXCEPT
                     !.addr = d.addr, !.port = d.port, !.runs = proc[p].cmdline])
       /\ UNCHANGED <<cache, order>>)
  /\ UNCHANGED <<proc, life, file>>

\* Kernel-File create: the path is remembered and reported; the disposition
\* says whether it was opened to be written.  A file object that does not parse
\* keeps the path out of the cache and not from being reported.
CreateFile(fo, o) ==
  /\ EtwCall("open") /\ file[fo] = None /\ o.path # None
  /\ file' = [file EXCEPT ![fo] = o.path]
  /\ \/ Observed("create",
          /\ InsertFile(fo, o.path)
          /\ Publish([EtwRecord(o.kind, AnyPid) EXCEPT !.path = o.path]))
     \/ /\ Publish([EtwRecord(o.kind, AnyPid) EXCEPT !.path = o.path])
        /\ misses' = misses \cup {"create"} /\ UNCHANGED <<cache, order>>
  /\ UNCHANGED <<proc, life>>

\* Cleanup and close forget the path and report nothing.
CloseFile(fo) ==
  /\ EtwCall("open") /\ file[fo] # None
  /\ file' = [file EXCEPT ![fo] = None]
  /\ Observed("close",
       RemoveFile(fo) /\ UNCHANGED <<backlog, lagged>>)
  /\ UNCHANGED <<proc, life>>

\* A write is reported under the remembered path, or not at all.
WriteFile(fo) ==
  /\ EtwCall("write") /\ file[fo] # None
  /\ Observed("write",
       /\ IF fo \in DOMAIN cache
          THEN Publish([EtwRecord("write", AnyPid) EXCEPT
                          !.path = cache[fo], !.runs = file[fo]])
          ELSE UNCHANGED <<backlog, lagged>>
       /\ UNCHANGED <<cache, order>>)
  /\ UNCHANGED <<proc, life, file>>

EtwInit ==
  /\ file = [fo \in Object |-> None]
  /\ cache = <<>> /\ order = <<>> /\ misses = {}

EtwNext ==
  \/ \E p \in Pid, g \in Program[monitor] : Start(p, g)
  \/ \E p \in Pid : StopProcess(p)
  \/ \E p \in Pid, d \in Destination[monitor] : ConnectAttempt(p, d)
  \/ \E fo \in Object, o \in Opening : CreateFile(fo, o)
  \/ \E fo \in Object : CloseFile(fo) \/ WriteFile(fo)

-----------------------------------------------------------------------------
(* The sensors of a host. *)

sensorVars == <<monVars, ebpfVars, backend, etwVars>>

\* select_event_bus: the backend of the build, or the stub, which no one
\* publishes on, when it does not start.  Once the monitor has stopped the host
\* goes on unobserved.
SensorsInit ==
  /\ MonitorInit /\ EbpfInit /\ EtwInit
  /\ backend \in {"ebpf", "etw", "stub"}

SensorsNext ==
  \/ backend = "ebpf" /\ ~stopped /\ EbpfNext /\ UNCHANGED <<backend, etwVars>>
  \/ backend = "etw" /\ ~stopped /\ EtwNext /\ UNCHANGED backend
  \/ MonitorNext /\ UNCHANGED <<ebpfVars, backend, etwVars>>

SensorsSpec == SensorsInit /\ [][SensorsNext]_sensorVars

-----------------------------------------------------------------------------
(* Properties. *)

Lossless == dropped = 0 /\ misses = {} /\ ~lagged

\* While nothing is lost, no exit is put down to an exec of another process:
\* the two share a ring, so a pid's exit is heard before its next exec.
OwnExec ==
  monitor = "procmon" /\ Lossless =>
    \A r \in 1..Len(records) :
      records[r].kind = "exit" /\ records[r].of # None =>
        \E i \in 1..Len(handled) :
          handled[i].n = records[r].n /\ handled[i].origin = records[r].of

\* However the threads are scheduled, a connection is reported once and in the
\* order the connections were made.
ConnectsInOrder ==
  monitor = "netmon" =>
    \A i, j \in 1..Len(records) : i < j => records[i].n < records[j].n

\* Both parts of the cache are bounded, and every remembered path can still be
\* evicted: its key has a token.
CacheBounded ==
  /\ Cardinality(DOMAIN cache) <= CacheCap /\ Len(order) <= OrderCap
  /\ DOMAIN cache \subseteq Range(order)

\* Unless a create is lost or its file object unreadable, a write is reported under the path of the file it went
\* to, however often file objects are reused and whatever else is lost.
WritePathTrue ==
  backend = "etw" /\ "create" \notin misses =>
    \A i \in 1..Len(handled) :
      handled[i].kind = "write" /\ handled[i].runs # None
        => handled[i].path = handled[i].runs

\* However records are delayed, lost and reordered, tables fill up and pids are
\* reused: an exit or a connection is put down to the last exec heard of its pid,
\* once, and never to one of another pid.
ExecMatched ==
  TableBounded /\ ExecUsedOnce /\ RecentExitCorrelated /\ AttributedToLastExec /\ OwnExec

\* What a monitor is about and hears of is reported, once and in order.
EventsReported == LibraryOnce /\ FlaggedReported /\ ConnectsInOrder

\* The file name cache is bounded and names the right file.
CacheSound == CacheBounded /\ WritePathTrue
=============================================================================
