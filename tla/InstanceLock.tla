----------------------------- MODULE InstanceLock -----------------------------
(***************************************************************************)
(* The lock file of a program: acquire_instance_lock and InstanceLock of   *)
(* src/src/slave/main.py, for one file and the processes that want it.     *)
(* (SlaveLife uses it twice, for the guardians and for the slaves.)        *)
(*                                                                         *)
(* The holder keeps the file open.  On Windows, where the program is used, *)
(* a file that is open cannot be unlinked: unlink() raises a               *)
(* PermissionError, which acquire_instance_lock does not catch, and the    *)
(* process ends.  Each system call is a step.                              *)
(***************************************************************************)
EXTENDS Naturals

CONSTANTS
    Procs,      \* processes, by pid
    Nobody,     \* no process
    Tries       \* attempts to create the file (10 in the code)

VARIABLES
    file,    \* the lock file: the pid it says, who has it open
    at,      \* process -> where it is, see At
    tries    \* process -> attempts so far

vars == <<file, at, tries>>

\* "out": there is no such process; "none": acquire returned None;
\* "died": the PermissionError; "closed": release has closed the file.
At == {"out", "try", "unlink", "write", "in", "none", "died", "closed"}

File == [there : BOOLEAN,
         pid : Procs \cup {Nobody},     \* Nobody: nothing is written yet
         open : Procs \cup {Nobody}]
NoFile == [there |-> FALSE, pid |-> Nobody, open |-> Nobody]

IsPidKnown(q, p) == q # p /\ q # Nobody   \* mutant: psutil is not asked

\* _is_pid_active, called by p: its own pid in the file is an old one.
IsPidActive(q, p) == q # p /\ q # Nobody /\ at[q] # "out"

Init ==
    /\ file = NoFile
    /\ at = [p \in Procs |-> "out"]
    /\ tries = [p \in Procs |-> 0]

Goto(p, a) == at' = [at EXCEPT ![p] = a]

\* acquire_instance_lock is called.
Enter(p) ==
    /\ at[p] = "out"
    /\ Goto(p, "try")
    /\ tries' = [tries EXCEPT ![p] = 0]
    /\ UNCHANGED file

CreateClosed(p) ==   \* mutant: fdopen closes the file (closefd)
    /\ at[p] = "try"
    /\ ~file.there
    /\ file' = [there |-> TRUE, pid |-> Nobody, open |-> Nobody]
    /\ Goto(p, "write")
    /\ UNCHANGED tries

\* os.open(O_CREAT | O_EXCL)
Create(p) ==
    /\ at[p] = "try"
    /\ ~file.there
    /\ file' = [there |-> TRUE, pid |-> Nobody, open |-> p]
    /\ Goto(p, "write")
    /\ UNCHANGED tries

\* FileExistsError: whoever the file names is looked up.
ReadPid(p) ==
    /\ at[p] = "try"
    /\ file.there
    /\ Goto(p, IF IsPidActive(file.pid, p) THEN "none" ELSE "unlink")
    /\ UNCHANGED <<file, tries>>

\* The file of a dead process, or one without a pid yet, is taken away; then a
\* tenth of a second's sleep and the next attempt.
Unlink(p) ==
    /\ at[p] = "unlink"
    /\ IF file.open # Nobody
       THEN Goto(p, "died") /\ UNCHANGED <<file, tries>>
       ELSE /\ file' = NoFile
            /\ tries' = [tries EXCEPT ![p] = @ + 1]
            /\ Goto(p, IF tries[p] + 1 < Tries THEN "try" ELSE "none")

WritePid(p) ==
    /\ at[p] = "write"
    /\ file' = [file EXCEPT !.pid = p]
    /\ Goto(p, "in")
    /\ UNCHANGED tries

\* InstanceLock.release: the file is closed, ...
Close(p) ==
    /\ at[p] = "in"
    /\ file' = [file EXCEPT !.open = Nobody]
    /\ Goto(p, "closed")
    /\ UNCHANGED tries

\* ... and unlinked if it is (still) this process's; the process ends.
Remove(p) ==
    /\ at[p] = "closed"
    /\ file' = IF file.pid = p THEN NoFile ELSE file
    /\ Goto(p, "out")
    /\ UNCHANGED tries

\* A process without the lock ends.
Leave(p) ==
    /\ at[p] \in {"none", "died"}
    /\ Goto(p, "out")
    /\ UNCHANGED <<file, tries>>

\* A process is killed, or crashes: its files are closed and stay.
Die(p) ==
    /\ at[p] # "out"
    /\ file' = IF file.open = p THEN [file EXCEPT !.open = Nobody] ELSE file
    /\ Goto(p, "out")
    /\ UNCHANGED tries

Acquire(p) == Create(p) \/ ReadPid(p) \/ Unlink(p) \/ WritePid(p)
Release(p) == Close(p) \/ Remove(p)

Next == \E p \in Procs : Enter(p) \/ Acquire(p) \/ Release(p) \/ Leave(p) \/ Die(p)

Spec == Init /\ [][Next]_vars

-----------------------------------------------------------------------------
(***************************************************************************)
(* Properties                                                              *)
(***************************************************************************)
TypeOK ==
    /\ file \in File
    /\ at \in [Procs -> At]
    /\ tries \in [Procs -> 0 .. Tries]

\* At most one process has acquired the lock and not released it, whatever
\* processes find the file without a pid, unlink one another's stale files,
\* or are killed at any point (main.py:437, the protection of the single
\* instance).
MutualExclusion == \A p, q \in Procs : at[p] = "in" /\ at[q] = "in" => p = q
=============================================================================
