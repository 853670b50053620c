----------------------------- MODULE InstanceLock -----------------------------
(***************************************************************************)
(* runtime.InstanceLock: the lock file that lets one research-partner      *)
(* process write a business store.  Every file operation of acquire and    *)
(* release is a step of its own.  A process is its pid; after it ended, a  *)
(* new process may get the same pid, when Reuse says so even the pid that  *)
(* a crash left in the lock file (in a container each start has the same). *)
(***************************************************************************)
EXTENDS Integers, FiniteSets

CONSTANTS Pids,        \* process ids
          Concurrent,  \* processes that may be inside acquire at once
          Reuse,       \* may a start get the pid that is in the lock file?
          MaxCrashes   \* bound: crashes

ASSUME LockAssumption == /\ Concurrent \in Nat \ {0}
                         /\ Reuse \in BOOLEAN
                         /\ MaxCrashes \in Nat

VARIABLES file,     \* the lock file: who created it, and whether its record is in
          proc,     \* what each process is about to do
          tries,    \* rounds of acquire's loop so far
          crashes   \* crashes so far

lockVars == <<file, proc, tries, crashes>>

-----------------------------------------------------------------------------
NoFile == [by |-> "nobody", written |-> FALSE]
Acquiring == {"open", "read", "unlink", "write"}
States == {"dead", "holding", "releasing"} \cup Acquiring
MaxTries == 2

LockInit == /\ file = NoFile
            /\ proc = [p \in Pids |-> "dead"]
            /\ tries = [p \in Pids |-> 0]
            /\ crashes = 0

Move(p, to) == proc' = [proc EXCEPT ![p] = to]

\* api.main enters the lock's context.
Start(p) ==
    /\ proc[p] = "dead"
    /\ Cardinality({q \in Pids : proc[q] \in Acquiring}) < Concurrent
    /\ Reuse \/ file.by # p
    /\ Move(p, "open") /\ tries' = [tries EXCEPT ![p] = 0]
    /\ UNCHANGED <<file, crashes>>

\* os.open(O_CREAT | O_EXCL)
Open(p) ==
    /\ proc[p] = "open"
    /\ \/ /\ file = NoFile
          /\ file' = [by |-> p, written |-> FALSE] /\ Move(p, "write")
       \/ file # NoFile /\ Move(p, "read") /\ UNCHANGED file
    /\ UNCHANGED <<tries, crashes>>

\* Mutants: only this process is alive; a pid that does not answer is alive.
Alive_SelfOnly(p, q) == q = p
Alive_Unknown(p, q) == TRUE

\* _pid_alive, asked by p; q may be p itself.
Alive(p, q) == proc[q] # "dead"

\* _read: a live owner makes acquire raise and the process ends; a missing,
\* empty or dead owner's file is to be removed.
Read(p) ==
    /\ proc[p] = "read"
    /\ Move(p, IF file.written /\ Alive(p, file.by) THEN "dead" ELSE "unlink")
    /\ UNCHANGED <<file, tries, crashes>>

Again(p) == tries[p] + 1 < MaxTries

\* _unlink removes whatever is at the path by now; the loop runs twice.
Unlink(p) ==
    /\ proc[p] = "unlink"
    /\ file' = NoFile
    /\ tries' = [tries EXCEPT ![p] = @ + 1]
    /\ Move(p, IF Again(p) THEN "open" ELSE "dead")
    /\ UNCHANGED crashes

\* The record goes to the file that was created, which may be gone.
Write(p) ==
    /\ proc[p] = "write"
    /\ file' = IF file.by = p THEN [file EXCEPT !.written = TRUE] ELSE file
    /\ Move(p, "holding")
    /\ UNCHANGED <<tries, crashes>>

\* release reads the file and removes it when it names this process.
ReleaseRead(p) ==
    /\ proc[p] = "holding"
    /\ Move(p, IF file.written /\ file.by = p THEN "releasing" ELSE "dead")
    /\ UNCHANGED <<file, tries, crashes>>

ReleaseUnlink(p) ==
    /\ proc[p] = "releasing"
    /\ file' = NoFile /\ Move(p, "dead")
    /\ UNCHANGED <<tries, crashes>>

Crash(p) ==
    /\ proc[p] # "dead"
    /\ crashes < MaxCrashes /\ crashes' = crashes + 1
    /\ Move(p, "dead")
    /\ UNCHANGED <<file, tries>>

Acquire(p) == Open(p) \/ Read(p) \/ Unlink(p) \/ Write(p)

LockNext == \E p \in Pids : \/ Start(p) \/ Acquire(p)
                            \/ ReleaseRead(p) \/ ReleaseUnlink(p) \/ Crash(p)

LockSpec == LockInit /\ [][LockNext]_lockVars

\* Whoever deploys the service starts it again; a process in acquire or
\* release goes on unless it crashes.
LockFairSpec ==
    /\ LockSpec /\ WF_lockVars(\E p \in Pids : Start(p))
    /\ \A p \in Pids : WF_lockVars(Acquire(p)) /\ WF_lockVars(ReleaseUnlink(p))

-----------------------------------------------------------------------------
(* Properties *)

TypeOK == /\ file \in [by : Pids, written : BOOLEAN] \cup {NoFile}
          /\ proc \in [Pids -> States]
          /\ tries \in [Pids -> 0 .. MaxTries]
          /\ crashes \in 0 .. MaxCrashes

\* "Only one instance may write a business store."
AtMostOneHolder ==
    \A p, q \in Pids : proc[p] = "holding" /\ proc[q] = "holding" => p = q

\* The file on disk names the holder as long as it holds, whatever crashed or
\* was refused meanwhile: the next process to start can tell.
HolderIsNamed ==
    \A p \in Pids : proc[p] = "holding" => file = [by |-> p, written |-> TRUE]

\* "What a crash leaves is taken over": the service comes up again.
LeftoverIsRecovered ==
    (file # NoFile /\ file.by \in Pids /\ proc[file.by] = "dead")
        ~> \E p \in Pids : proc[p] = "holding"
=============================================================================
