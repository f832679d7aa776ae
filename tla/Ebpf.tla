-------------------------------- MODULE Ebpf --------------------------------
(***************************************************************************)
(* The Linux backend of the event bus: the tracepoint programs in the      *)
(* kernel (crates/substrate-ebpf/src/main.rs), their four ring buffers and *)
(* the four threads of EbpfBus that drain them (crates/substrate/src/      *)
(* ebpf.rs), below a monitor.                                              *)
(*                                                                         *)
(* A tracepoint runs with the system call it observes and never holds it   *)
(* up: a full ring drops the record.  A record waits in its ring until its *)
(* thread takes it; only then is it given its time, and are the image, the *)
(* command line and the path of a written file read from /proc, from       *)
(* whatever has the pid by then.  Records of different rings are           *)
(* republished in any order.                                               *)
(***************************************************************************)
EXTENDS Monitors

CONSTANTS Pid,          \* process ids
          Program,      \* what processes execute, by monitor: image and command line
          Destination,  \* where they connect, by monitor: address ("v6": not
                        \* AF_INET) and port
          Opening,      \* path (None: unreadable) and intent of an open
          Time,         \* readings of the wall clock, which may be stepped, by monitor
          RingCap,      \* the records a ring holds
          WriteSeenMax, \* WRITE_SEEN_MAX
          MaxOps        \* bound: system calls, by monitor

ASSUME RingSizes == {RingCap, WriteSeenMax} \subseteq Nat \ {0}
ASSUME NoPid == None \notin Pid
ASSUME Clock == \A m \in Monitor : Time[m] \subseteq Nat
ASSUME Programs == \A g \in UNION {Program[k] : k \in Monitor} :
                     g # None /\ g.image \in Image /\ g.cmdline \in Cmdline

Ring == {"EVENTS", "NET_EVENTS", "FILE_EVENTS", "WRITE_EVENTS"}

VARIABLES proc,      \* the program each process runs, None for a free pid
          open,      \* the file behind each process's descriptor
          rings,     \* the ring buffers
          writeSeen, \* WRITE_SEEN, by the process of the descriptor
          life,      \* the process a pid stands for, by the call that made it
          ops,       \* system calls so far
          dropped,   \* records a full ring has dropped
          polling    \* whether the drain threads run

kernel == <<proc, open, writeSeen, life, ops>>
ebpfVars == <<kernel, rings, dropped, polling>>

-----------------------------------------------------------------------------
(* The tracepoint programs. *)

\* The process that runs at the start, and that of a record whose process nothing
\* reads.
AnyPid == CHOOSE p \in Pid : TRUE

Running == {p \in Pid : proc[p] # None}

\* bpf_get_current_comm: the name without its directory.
Comm(image) == [image EXCEPT !.suspiciousDir = FALSE]

Record(kind, p, image) ==
  [n |-> ops + 1, kind |-> kind, pid |-> p, origin |-> life[p], image |-> Comm(image),
   cmdline |-> None, trusted |-> None, addr |-> None, port |-> None, path |-> None,
   ts |-> 0, runs |-> proc[p].cmdline]

\* reserve and submit.
Submit(r, rec) ==
  IF Len(rings[r]) < RingCap
  THEN rings' = [rings EXCEPT ![r] = Append(@, rec)] /\ UNCHANGED dropped
  ELSE UNCHANGED rings /\ dropped' = dropped + 1

Call(kind) == /\ kind \in Handles(monitor)
              /\ ops < MaxOps[monitor] /\ ops' = ops + 1
              /\ UNCHANGED <<polling, monVars>>

\* A child runs its parent's program; no tracepoint sees it.
Fork(p, q) ==
  /\ Call("exec") /\ p \in Running /\ q \in Pid \ Running
  /\ proc' = [proc EXCEPT ![q] = proc[p]] /\ life' = [life EXCEPT ![q] = ops + 1]
  /\ open' = [open EXCEPT ![q] = open[p]]
  /\ UNCHANGED <<rings, dropped, writeSeen>>

\* sched_process_exec; the record is the process's from here on.
Exec(p, g) ==
  /\ Call("exec") /\ p \in Running
  /\ proc' = [proc EXCEPT ![p] = g] /\ life' = [life EXCEPT ![p] = ops + 1]
  /\ Submit("EVENTS", [Record("exec", p, g.image) EXCEPT !.origin = ops + 1])
  /\ UNCHANGED <<open, writeSeen>>

\* sched_process_exit, of the last thread of the process; or of any other, whose
\* record is the same.
Exit(p) ==
  /\ Call("exit") /\ p \in Running
  /\ Submit("EVENTS", Record("exit", p, proc[p].image))
  /\ \/ /\ proc' = [proc EXCEPT ![p] = None]
        /\ open' = [open EXCEPT ![p] = None]
     \/ UNCHANGED <<proc, open>>
  /\ UNCHANGED <<life, writeSeen>>

\* sys_enter_connect: anything but AF_INET is dropped.
Connect(p, d) ==
  /\ Call("connect") /\ p \in Running
  /\ IF d.addr = "v6" THEN UNCHANGED <<rings, dropped>>
     ELSE Submit("NET_EVENTS", [Record("connect", p, proc[p].image) EXCEPT
                                  !.addr = d.addr, !.port = d.port])
  /\ UNCHANGED <<proc, open, life, writeSeen>>

\* sys_enter_openat: an unreadable name is dropped; write intent is decoded from
\* the flags.  The descriptor is reused.
OpenAt(p, o) ==
  /\ Call("open") /\ p \in Running
  /\ open' = [open EXCEPT ![p] = o.path]
  /\ IF o.path = None THEN UNCHANGED <<rings, dropped>>
     ELSE Submit("FILE_EVENTS", [Record(o.kind, p, proc[p].image) EXCEPT
                                   !.path = o.path])
  /\ UNCHANGED <<proc, life, writeSeen>>

\* sys_enter_write: the first write of a descriptor is marked, and then
\* submitted; at its bound the map gives up another key.
Write(p) ==
  /\ Call("write") /\ p \in Running /\ open[p] # None
  /\ IF p \in writeSeen THEN UNCHANGED <<rings, dropped, writeSeen>>
     ELSE /\ \E old \in IF Cardinality(writeSeen) = WriteSeenMax THEN writeSeen
                        ELSE {None} :
               writeSeen' = (writeSeen \ {old}) \cup {p}
          /\ Submit("WRITE_EVENTS", Record("write", p, proc[p].image))
  /\ UNCHANGED <<proc, open, life>>

-----------------------------------------------------------------------------
(* The drain threads. *)

\* /proc/<pid> by the time the record is taken: a process that is gone leaves
\* the event as it was.
EnrichProcExec(e) ==
  IF proc[e.pid] = None THEN e
  ELSE [e EXCEPT !.image = proc[e.pid].image, !.cmdline = proc[e.pid].cmdline]

NoPath == [has |-> {}, ext |-> "none", lib |-> FALSE]

EnrichWrite(e) ==
  [e EXCEPT !.path = IF open[e.pid] = None THEN NoPath ELSE open[e.pid]]

Enrich(r, e) ==
  CASE r = "EVENTS" /\ e.kind = "exec" -> EnrichProcExec(e)
    [] r = "WRITE_EVENTS"              -> EnrichWrite(e)
    [] OTHER                           -> e

\* now_ms at the drain; no monitor reads the time of the other rings' events.
Stamp(r) == IF r = "EVENTS" THEN Time[monitor] ELSE {0}

\* drain_loop: take, map, enrich and send one record.
Drain(r) ==
  /\ polling /\ rings[r] # <<>>
  /\ rings' = [rings EXCEPT ![r] = Tail(@)]
  /\ \E t \in Stamp(r) : Publish([Enrich(r, Head(rings[r])) EXCEPT !.ts = t])
  /\ UNCHANGED <<kernel, dropped, polling, monitor, table, seen, records, handled,
                 stopped>>

\* Drop: the flag is seen once per cycle, the threads are joined.
StopPolling ==
  /\ polling /\ polling' = FALSE
  /\ UNCHANGED <<kernel, rings, dropped, monVars>>

EbpfInit ==
  /\ \E g \in Program[monitor] :
       proc = [p \in Pid |-> IF p = AnyPid THEN g ELSE None]
  /\ open = [p \in Pid |-> None]
  /\ rings = [r \in Ring |-> <<>>] /\ writeSeen = {}
  /\ life = [p \in Pid |-> 0] /\ ops = 0 /\ dropped = 0 /\ polling = TRUE

EbpfNext ==
  \/ \E p, q \in Pid : Fork(p, q)
  \/ \E p \in Pid, g \in Program[monitor] : Exec(p, g)
  \/ \E p \in Pid : Exit(p)
  \/ \E p \in Pid, d \in Destination[monitor] : Connect(p, d)
  \/ \E p \in Pid, o \in Opening : OpenAt(p, o)
  \/ \E p \in Pid : Write(p)
  \/ \E r \in Ring : Drain(r)
  \/ StopPolling
=============================================================================
