------------------------------ MODULE JobContract ------------------------------
(***************************************************************************)
(* What the research job store keeps of one job when several processes      *)
(* share it.  An operation reads the job, checks it and writes it later; a   *)
(* writer is a process between the two.  Nobody becomes a writer of a job    *)
(* that has ended, but the stale watchdog takes no file lock, so a writer    *)
(* that is late may still replace a terminal status: a watchdog reports a    *)
(* completed job failed, an owner reports a failed one running or completed. *)
(* A job that has ended and has no writer left stays as it is; a job is      *)
(* claimed once; and a completed job is never taken up again.                *)
(***************************************************************************)

CONSTANT Writers   \* the processes that share the job file

VARIABLES
    status,   \* the status a reader of the job file sees
    claims,   \* how often a worker has claimed the job
    writers   \* who has read the job and not written it yet

vars == <<status, claims, writers>>

Terminal == {"completed", "failed"}

Init == status = "absent" /\ claims = 0 /\ writers = {}

Read(w) ==
    /\ w \notin writers /\ status \notin Terminal
    /\ writers' = writers \cup {w}
    /\ UNCHANGED <<status, claims>>

\* Refused after all, or crashed.
GiveUp(w) ==
    /\ w \in writers
    /\ writers' = writers \ {w}
    /\ UNCHANGED <<status, claims>>

Writes(w, from, to) ==
    /\ w \in writers /\ status \in from
    /\ status' = to
    /\ writers' = writers \ {w}

Create(w) == Writes(w, {"absent", "created"}, "created") /\ UNCHANGED claims

Start(w) == Writes(w, {"created"}, "queued") /\ UNCHANGED claims

Claim(w) ==
    /\ claims = 0 /\ claims' = 1
    /\ Writes(w, {"queued", "failed"}, "running")

Renew(w) == claims = 1 /\ Writes(w, {"running", "failed"}, "running") /\ UNCHANGED claims

Complete(w) == claims = 1 /\ Writes(w, {"running", "failed"}, "completed") /\ UNCHANGED claims

Fail(w) == Writes(w, {"queued", "running"} \cup Terminal, "failed") /\ UNCHANGED claims

Next ==
    \E w \in Writers:
        \/ Read(w) \/ GiveUp(w) \/ Create(w) \/ Start(w)
        \/ Claim(w) \/ Renew(w) \/ Complete(w) \/ Fail(w)

Spec == Init /\ [][Next]_vars
================================================================================
