------------------------------- MODULE MCCorr -------------------------------
(* Two pids, a suspicious and a harmless image. *)
EXTENDS Corr

CONSTANTS p1, p2

Ev(kind, pid, comm, susp) ==
  [kind |-> kind, pid |-> pid, comm |-> comm, susp |-> susp]
Ex(pid, image, ppid) == [pid |-> pid, image |-> image, ppid |-> ppid]

\* p1 runs either image; p2 runs the harmless one as a child of p1.
MCExecs == {Ex(p1, "nc", None), Ex(p1, "sleep", None), Ex(p2, "sleep", p1)}

\* All halves for p1, under a comm that matches one of its images or under none;
\* a connect for p2.
MCEvents == {Ev("connect", p1, "nc", TRUE), Ev("write", p1, Unknown, TRUE),
             Ev("read", p1, Unknown, TRUE), Ev("connect", p2, "sleep", TRUE)}
=============================================================================
