----------------------------- MODULE JobContract -----------------------------
(***************************************************************************)
(* What the job store promises its clients, with no queue, worker, socket  *)
(* or clock (docs/protocol-v1.md, "Jobs (server)"; the module comment of   *)
(* jobs.rs).  A client can see of a job id only whether the store knows    *)
(* it, and in which state.                                                 *)
(***************************************************************************)
EXTENDS Integers

CONSTANTS Id,        \* job ids
          Line,      \* what a new job supersedes pending jobs of
          InProgress,\* the state of a job that is PENDING
          Verdict,   \* the terminal states
          None       \* an id the store does not know

VARIABLE status      \* [Id -> what a client can see of the id]

\* What is seen of a known id is a record [run, line, state]; run numbers the
\* submission.
Pending(s)  == s # None /\ s.state = InProgress
Terminal(s) == s # None /\ s.state # InProgress

Init == status = [j \in Id |-> None]

\* A PENDING job gets one verdict, and keeps its run and its line.
Settles(s, t) == /\ Pending(s)
                 /\ \E v \in Verdict : t = [s EXCEPT !.state = v]

\* A terminal job is dropped: expired, or evicted.  A job that is superseded by
\* the very talk that needs its room goes without its verdict being seen.
Drops(s, t) == s # None /\ t = None

\* A new run of an id that is unknown, or whose last run has just expired.
Starts(s, t) == /\ ~Pending(s) /\ Pending(t)
                /\ t.run \in Nat \ {0} /\ t.line \in Line
                /\ s # None => t.run # s.run

Step(j) == \/ status'[j] = status[j]
           \/ Settles(status[j], status'[j])
           \/ Drops(status[j], status'[j])
           \/ Starts(status[j], status'[j])

Next ==
    /\ status' = [j \in Id |-> status'[j]]
    /\ \A j \in Id : Step(j)
    \* one talk is one submission
    /\ \A i, j \in Id : Starts(status[i], status'[i]) /\ Starts(status[j], status'[j])
                           => i = j
    \* a submission supersedes what was pending on its line
    /\ \A i, j \in Id : Pending(status'[i]) /\ Pending(status'[j]) /\ i # j
                           => status'[i].line # status'[j].line

Spec == Init /\ [][Next]_status
=============================================================================
