------------------------------ MODULE SlaveLife -------------------------------
(***************************************************************************)
(* The processes of the slave program on one machine: the guardian that    *)
(* starts the slave again and again, the slave, and the helper script that *)
(* replaces the program on UPDATE_SELF: src/src/slave/main.py,             *)
(* self_update.py and _handle_update_self of command_handler.py.           *)
(*                                                                         *)
(* Guardians and slaves have a lock file each (InstanceLock).  A slave     *)
(* that ends on purpose leaves the word "stop" in the action file for its  *)
(* guardian.  Delays are not modelled: the exit code of a slave that found *)
(* the lock taken only makes the guardian's delay shorter.                 *)
(*                                                                         *)
(* A process that starts gets a pid that is not in use and not in a lock   *)
(* file.  (With a stale pid used again by another process of the program,  *)
(* the lock would be refused for as long as that lives.)                   *)
(***************************************************************************)
EXTENDS Naturals, FiniteSets

CONSTANTS
    Guards, Slaves,   \* pids of guardians and of slaves
    Nobody,
    Tries,            \* as in InstanceLock
    MaxStarts,        \* bound: starts of the program by the user or the system
    MaxFailures,      \* bound: slaves killed, crashed, or unable to write the action file
    MaxGuardKills     \* bound: guardians killed

ASSUME NobodyIsNoProcess == Nobody \notin Guards \cup Slaves
ASSUME TriesArePositive == Tries \in Nat \ {0}

VARIABLES
    gfile, gat, gtries,   \* the guardians and their lock, see InstanceLock
    sfile, sat, stries,   \* the slaves and theirs
    child,      \* guardian -> the slave it waits for, or Nobody
    leaving,    \* slaves whose event loop has ended (aboutToQuit)
    asked,      \* slaves that have accepted UPDATE_SELF
    action,     \* the action file says "stop"
    exe,        \* the program file: "old", "new" or "gone"
    version,    \* slave -> the program it runs
    helper,     \* the helper script: what it does, for which slave and guardian
    starts, kills, guardKills, mutes   \* bounds

lockVars == <<gfile, gat, gtries, sfile, sat, stries>>
bounds == <<starts, kills, guardKills, mutes>>
vars == <<lockVars, child, leaving, asked, action, exe, version, helper, bounds>>

G == INSTANCE InstanceLock WITH Procs <- Guards, file <- gfile, at <- gat, tries <- gtries
S == INSTANCE InstanceLock WITH Procs <- Slaves, file <- sfile, at <- sat, tries <- stries

guardVars == <<gfile, gat, gtries>>
slaveVars == <<sfile, sat, stries>>

Helper == [does : {"nothing", "waitSlave", "waitGuard", "waitLock", "move", "copy", "start",
                   "done", "gaveUp"},
           slave : Slaves \cup {Nobody}, guard : Guards \cup {Nobody}]

Does(h, d) == helper.does = h /\ helper' = [helper EXCEPT !.does = d]

Up(s) == sat[s] = "in" /\ s \notin leaving
Guarded == \E g \in Guards : gat[g] = "in"

Init ==
    /\ G!Init /\ S!Init
    /\ child = [g \in Guards |-> Nobody]
    /\ leaving = {} /\ asked = {}
    /\ action = FALSE
    /\ exe = "old"
    /\ version = [s \in Slaves |-> "old"]
    /\ helper = [does |-> "nothing", slave |-> Nobody, guard |-> Nobody]
    /\ starts = 0 /\ kills = 0 /\ guardKills = 0 /\ mutes = 0

-----------------------------------------------------------------------------
(***************************************************************************)
(* The guardian                                                            *)
(***************************************************************************)
\* main -> _run_guardian, up to its lock.
Run(g) ==
    /\ exe # "gone"
    /\ g # gfile.pid
    /\ G!Enter(g)
    /\ UNCHANGED <<slaveVars, child, leaving, asked, action, exe, version>>
    /\ UNCHANGED <<kills, guardKills, mutes>>

StartProgram(g) ==
    /\ starts < MaxStarts
    /\ starts' = starts + 1
    /\ Run(g)
    /\ UNCHANGED helper

GuardLocks(g) ==
    /\ G!Acquire(g) \/ G!Leave(g) \/ G!Remove(g)
    /\ UNCHANGED <<slaveVars, child, leaving, asked, action, exe, version, helper, bounds>>

\* The head of the loop: _clear_guard_action, then _spawn_guarded_child.
Spawn(g) ==
    /\ gat[g] = "in"
    /\ child[g] = Nobody
    /\ action' = FALSE
    /\ IF exe = "gone"      \* OSError, and once more after a sleep
       THEN UNCHANGED <<slaveVars, child, version>>
       ELSE \E s \in Slaves :
                /\ s # sfile.pid
                /\ S!Enter(s)
                /\ child' = [child EXCEPT ![g] = s]
                /\ version' = [version EXCEPT ![s] = exe]
    /\ UNCHANGED <<guardVars, leaving, asked, exe, helper, bounds>>

\* child.wait returns: the action is consumed; "stop" ends the guardian too,
\* anything else starts the next slave.
ChildEnded(g) ==
    /\ gat[g] = "in"
    /\ child[g] # Nobody
    /\ sat[child[g]] = "out"
    /\ child' = [child EXCEPT ![g] = Nobody]
    /\ action' = FALSE
    /\ IF action THEN G!Close(g) ELSE UNCHANGED guardVars
    /\ UNCHANGED <<slaveVars, leaving, asked, exe, version, helper, bounds>>

KillGuard(g) ==
    /\ guardKills < MaxGuardKills
    /\ guardKills' = guardKills + 1
    /\ G!Die(g)
    /\ child' = [child EXCEPT ![g] = Nobody]
    /\ UNCHANGED <<slaveVars, leaving, asked, action, exe, version, helper, starts, kills, mutes>>

-----------------------------------------------------------------------------
(***************************************************************************)
(* The slave                                                               *)
(***************************************************************************)
SlaveLocks(s) ==
    /\ S!Acquire(s) \/ S!Leave(s)
    /\ UNCHANGED <<guardVars, child, leaving, asked, action, exe, version, helper, bounds>>

QuitSilently(s) ==   \* mutant: aboutToQuit is not connected
    /\ Up(s)
    /\ leaving' = leaving \cup {s}
    /\ UNCHANGED <<lockVars, child, asked, action, exe, version, helper, bounds>>

\* aboutToQuit, by the user or two seconds after an update was accepted.
\* An error in writing the file is ignored.  (Whoever has left already finds
\* nothing to quit.)
Quit(s) ==
    /\ Up(s)
    /\ leaving' = leaving \cup {s}
    /\ \/ action' = TRUE /\ UNCHANGED mutes
       \/ kills + mutes < MaxFailures /\ mutes' = mutes + 1 /\ UNCHANGED action
    /\ UNCHANGED <<lockVars, child, asked, exe, version, helper, starts, kills, guardKills>>

\* _run_slave_app returns, having waited 5 s for its services at most.
Release(s) ==
    /\ \/ s \in leaving /\ S!Close(s)
       \/ S!Remove(s)
    /\ leaving' = leaving \ {s}
    /\ asked' = asked \ {s}
    /\ UNCHANGED <<guardVars, child, action, exe, version, helper, bounds>>

KillSlave(s) ==
    /\ kills + mutes < MaxFailures
    /\ kills' = kills + 1
    /\ S!Die(s)
    /\ leaving' = leaving \ {s}
    /\ asked' = asked \ {s}
    /\ UNCHANGED <<guardVars, child, action, exe, version, helper, starts, guardKills, mutes>>

UpdateReadsSlaveLock(s) ==   \* mutant: the wrong lock file is read
    /\ Up(s)
    /\ helper.does = "nothing"
    /\ helper' = [does |-> "waitSlave", slave |-> s, guard |-> sfile.pid]
    /\ asked' = asked \cup {s}
    /\ UNCHANGED <<lockVars, child, leaving, action, exe, version, bounds>>

\* _handle_update_self: the package and the helper are written, and the helper
\* is started.  It will wait for the pid that the guardians' lock file has now.
\* (One update is looked at.)
HandleUpdateSelf(s) ==
    /\ Up(s)
    /\ helper.does = "nothing"
    /\ helper' = [does |-> "waitSlave", slave |-> s, guard |-> gfile.pid]
    /\ asked' = asked \cup {s}
    /\ UNCHANGED <<lockVars, child, leaving, action, exe, version, bounds>>

-----------------------------------------------------------------------------
(***************************************************************************)
(* The helper script.  Its waits are 120 s for the slave, 30 s for the     *)
(* guardian and 15 s for the lock file; a guardian that is about to end    *)
(* needs less.                                                             *)
(***************************************************************************)
EndsSoon(g) == gat[g] # "in" \/ (child[g] # Nobody /\ sat[child[g]] = "out" /\ action)

helperRest == <<lockVars, child, leaving, asked, action, version, bounds>>

HelperHurries ==   \* mutant: the guardian is not waited for
    /\ \/ Does("waitSlave", "move") /\ sat[helper.slave] = "out"
       \/ Does("waitSlave", "gaveUp") /\ sat[helper.slave] # "out"
    /\ UNCHANGED <<helperRest, exe>>

HelperWaits ==
    /\ \/ Does("waitSlave", "waitGuard") /\ sat[helper.slave] = "out"
       \/ Does("waitSlave", "gaveUp") /\ sat[helper.slave] # "out"
       \/ /\ Does("waitGuard", "waitLock")
          /\ helper.guard \in Guards =>
                 gat[helper.guard] = "out" \/ ~EndsSoon(helper.guard)
       \/ /\ Does("waitLock", "move")
          /\ gfile.there => \A g \in Guards : gat[g] # "out" => ~EndsSoon(g)
    /\ UNCHANGED <<helperRest, exe>>

\* The program is moved away, which Windows allows while it runs; if that
\* fails thirty times, the helper gives up.
Move ==
    /\ \/ Does("move", "copy") /\ exe' = "gone"
       \/ Does("move", "gaveUp") /\ UNCHANGED exe
    /\ UNCHANGED helperRest

\* :copy_new.  If the package cannot be moved into place, the backup is moved back,
\* which may fail too; if there is no package, it is not even tried.
CopyNew ==
    /\ \/ Does("copy", "start") /\ exe' = "new"
       \/ Does("copy", "gaveUp") /\ exe' \in {"old", "gone"}
    /\ UNCHANGED helperRest

StartNew(g) ==
    /\ Does("start", "done")
    /\ Run(g)
    /\ UNCHANGED starts

-----------------------------------------------------------------------------
GuardStep(g) == GuardLocks(g) \/ Spawn(g) \/ ChildEnded(g)
HelperStep == HelperWaits \/ Move \/ CopyNew \/ \E g \in Guards : StartNew(g)

Next ==
    \/ \E g \in Guards : StartProgram(g) \/ GuardStep(g) \/ KillGuard(g)
    \/ \E s \in Slaves : SlaveLocks(s) \/ Quit(s) \/ Release(s) \/ KillSlave(s)
                         \/ HandleUpdateSelf(s)
    \/ HelperStep

Spec == Init /\ [][Next]_vars

\* Every process goes on; users and crashes may do nothing.
FairSpec ==
    /\ Spec
    /\ \A g \in Guards : WF_vars(GuardStep(g))
    /\ \A s \in Slaves : /\ WF_vars(SlaveLocks(s) \/ Release(s))
                         /\ WF_vars(s \in asked /\ Quit(s))
    /\ WF_vars(HelperStep)

-----------------------------------------------------------------------------
(***************************************************************************)
(* Properties                                                              *)
(***************************************************************************)
TypeOK ==
    /\ G!TypeOK /\ S!TypeOK
    /\ child \in [Guards -> Slaves \cup {Nobody}]
    /\ leaving \subseteq Slaves /\ asked \subseteq Slaves
    /\ action \in BOOLEAN
    /\ exe \in {"old", "new", "gone"}
    /\ version \in [Slaves -> {"old", "new"}]
    /\ helper \in Helper

\* At most one guardian and at most one slave are at work, through crashes,
\* restarts and updates (main.py:437).
OneOfEach == G!MutualExclusion /\ S!MutualExclusion

\* While a guardian is at work a slave comes up again, unless it is told to stop,
\* or the helper has left no program to start.
KeptUp ==
    Guarded ~> \/ \E s \in Slaves : Up(s)
               \/ ~Guarded
               \/ helper.does = "gaveUp" /\ exe = "gone"

\* A slave that ends on purpose and can write so takes its guardian with it
\* (main.py:398), unless that was killed before and another took its place.
StopIsHeard ==
    \A s \in Slaves : s \in leaving ~> ~Guarded \/ guardKills + mutes > 0

\* An update that the helper does not give up ends with the new program in
\* place and a slave that runs it, unless a process was killed or could not write
\* its stop (the guardian starts the old program again) or somebody started the
\* program.
UpdateTakesEffect ==
    helper.does = "waitSlave" ~>
        \/ helper.does = "gaveUp"
        \/ exe = "new" /\ \E s \in Slaves : Up(s) /\ version[s] = "new"
        \/ kills + guardKills + mutes > 0 \/ starts > 1
=============================================================================
