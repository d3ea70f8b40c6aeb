--------------------------- MODULE SlaveLifeProofs ----------------------------
(***************************************************************************)
(* SlaveLife implements InstanceLock twice, for its guardians and for its  *)
(* slaves: each of its steps is a step of the one lock and leaves the      *)
(* other alone.  What is shown of a lock, for any processes and any number *)
(* of tries, then holds of both, through restarts, kills and updates.      *)
(***************************************************************************)
EXTENDS SlaveLife, TLAPS

\* What guardians, slaves and the helper do is for the guardians' lock file a step
\* of acquire_instance_lock or release, the end of a process, or nothing.
THEOREM GuardsImplementLock == Spec => G!Spec
<1>1. Init => G!Init
  BY DEF Init
<1>2. [Next]_vars => [G!Next]_(G!vars)
  <2> SUFFICES ASSUME [Next]_vars PROVE [G!Next]_(G!vars)
    OBVIOUS
  <2> USE DEF guardVars, G!vars, G!Next
  <2>1. CASE UNCHANGED vars
    BY <2>1 DEF vars, lockVars
  <2>2. ASSUME NEW g \in Guards, StartProgram(g) \/ GuardStep(g) \/ KillGuard(g)
        PROVE [G!Next]_(G!vars)
    <3>1. CASE StartProgram(g)
      BY <3>1 DEF StartProgram, Run
    <3>2. CASE GuardLocks(g)
      BY <3>2 DEF GuardLocks, G!Release
    <3>3. CASE Spawn(g)
      BY <3>3 DEF Spawn
    <3>4. CASE ChildEnded(g)
      BY <3>4 DEF ChildEnded, G!Release
    <3>5. CASE KillGuard(g)
      BY <3>5 DEF KillGuard
    <3> QED BY <2>2, <3>1, <3>2, <3>3, <3>4, <3>5 DEF GuardStep
  <2>3. ASSUME NEW s \in Slaves,
               SlaveLocks(s) \/ Quit(s) \/ Release(s) \/ KillSlave(s) \/ HandleUpdateSelf(s)
        PROVE UNCHANGED guardVars
    BY <2>3 DEF SlaveLocks, Quit, Release, KillSlave, HandleUpdateSelf, lockVars
  <2>4. CASE HelperWaits \/ Move \/ CopyNew
    BY <2>4 DEF HelperWaits, Move, CopyNew, helperRest, lockVars
  <2>5. ASSUME NEW g \in Guards, StartNew(g) PROVE [G!Next]_(G!vars)
    BY <2>5 DEF StartNew, Run
  <2> QED BY <2>1, <2>2, <2>3, <2>4, <2>5 DEF Next, HelperStep
<1> QED BY <1>1, <1>2, PTL DEF Spec, G!Spec

\* The same for the slaves' lock file.
THEOREM SlavesImplementLock == Spec => S!Spec
<1>1. Init => S!Init
  BY DEF Init
<1>2. [Next]_vars => [S!Next]_(S!vars)
  <2> SUFFICES ASSUME [Next]_vars PROVE [S!Next]_(S!vars)
    OBVIOUS
  <2> USE DEF slaveVars, S!vars, S!Next
  <2>1. CASE UNCHANGED vars
    BY <2>1 DEF vars, lockVars
  <2>2. ASSUME NEW g \in Guards, StartProgram(g) \/ GuardStep(g) \/ KillGuard(g)
        PROVE [S!Next]_(S!vars)
    <3>1. CASE StartProgram(g) \/ GuardLocks(g) \/ ChildEnded(g) \/ KillGuard(g)
      BY <3>1 DEF StartProgram, Run, GuardLocks, ChildEnded, KillGuard
    <3>2. CASE Spawn(g)
      BY <3>2 DEF Spawn
    <3> QED BY <2>2, <3>1, <3>2 DEF GuardStep
  <2>3. ASSUME NEW s \in Slaves,
               SlaveLocks(s) \/ Quit(s) \/ Release(s) \/ KillSlave(s) \/ HandleUpdateSelf(s)
        PROVE [S!Next]_(S!vars)
    <3>1. CASE SlaveLocks(s)
      BY <3>1 DEF SlaveLocks
    <3>2. CASE Release(s)
      BY <3>2 DEF Release, S!Release
    <3>3. CASE KillSlave(s)
      BY <3>3 DEF KillSlave
    <3>4. CASE Quit(s) \/ HandleUpdateSelf(s)
      BY <3>4 DEF Quit, HandleUpdateSelf, lockVars
    <3> QED BY <2>3, <3>1, <3>2, <3>3, <3>4
  <2>4. CASE HelperWaits \/ Move \/ CopyNew
    BY <2>4 DEF HelperWaits, Move, CopyNew, helperRest, lockVars
  <2>5. ASSUME NEW g \in Guards, StartNew(g) PROVE [S!Next]_(S!vars)
    BY <2>5 DEF StartNew, Run
  <2> QED BY <2>1, <2>2, <2>3, <2>4, <2>5 DEF Next, HelperStep
<1> QED BY <1>1, <1>2, PTL DEF Spec, S!Spec

-----------------------------------------------------------------------------
(***************************************************************************)
(* The two locks, as one: what is said here of a lock's processes P, its   *)
(* file f, their places a and attempts t holds of guardians and slaves.    *)
(***************************************************************************)
LockFile(P) == [there : BOOLEAN, pid : P \cup {Nobody}, open : P \cup {Nobody}]
Place == {"out", "try", "unlink", "write", "in", "none", "died", "closed"}
Gone == [there |-> FALSE, pid |-> Nobody, open |-> Nobody]

\* A process that tries has an attempt left.
LockTyped(P, f, a, t) ==
    /\ f \in LockFile(P) /\ a \in [P -> Place] /\ t \in [P -> 0 .. Tries]
    /\ \A p \in P : a[p] \in {"try", "unlink"} => t[p] < Tries

\* Whoever is past its creation of the file has it open, so that nobody can
\* unlink it as a stale one; and whoever unlinks it in a release finds its own
\* pid in it, which is not that of the holder.
LockHeld(P, f, a) ==
    \A p \in P : /\ a[p] \in {"write", "in"} => f.there /\ f.open = p
                 /\ a[p] = "write" => f.pid = Nobody
                 /\ a[p] = "in" => f.pid = p

\* What a step makes of the file f, as far as that needs no pid of a third one.
MovesFile(P, p, f, from, to, g) ==
    \/ to \notin {"write", "in"} /\ g = f
    \/ to \notin {"write", "in"} /\ (from = "in" \/ f.open = p) /\ g = [f EXCEPT !.open = Nobody]
    \/ /\ to \notin {"write", "in"} /\ g = Gone
       /\ f.open = Nobody \/ (from = "closed" /\ f.pid = p)
    \/ from = "try" /\ ~f.there /\ to = "write" /\ g = [there |-> TRUE, pid |-> Nobody, open |-> p]
    \/ from = "write" /\ to = "in" /\ g = [f EXCEPT !.pid = p]

\* The attempts that are counted: n before and k after the step.
MovesTries(from, to, n, k) ==
    \/ to = "try" /\ from = "out" /\ k = 0
    \/ to = "unlink" /\ from = "try" /\ k = n
    \/ from = "unlink" /\ k = n + 1 /\ to = IF k < Tries THEN "try" ELSE "none"
    \/ to \notin {"try", "unlink"} /\ k = n

LockMoves(P, f, a, t, g, b, u) ==
    \E p \in P, to \in Place, k \in Nat :
        /\ b = [a EXCEPT ![p] = to] /\ u = [t EXCEPT ![p] = k]
        /\ MovesFile(P, p, f, a[p], to, g)
        /\ MovesTries(a[p], to, t[p], k)

LEMMA LockKept ==
    ASSUME NEW P, NEW f, NEW a, NEW t, NEW g, NEW b, NEW u, Nobody \notin P,
           LockTyped(P, f, a, t), LockHeld(P, f, a), LockMoves(P, f, a, t, g, b, u)
    PROVE  LockTyped(P, g, b, u) /\ LockHeld(P, g, b)
<1>1. PICK p \in P, to \in Place, k \in Nat :
          /\ b = [a EXCEPT ![p] = to] /\ u = [t EXCEPT ![p] = k]
          /\ MovesFile(P, p, f, a[p], to, g)
          /\ MovesTries(a[p], to, t[p], k)
  BY DEF LockMoves
<1>2. g \in LockFile(P)
  <2>1. ASSUME NEW o \in P \cup {Nobody}
        PROVE  [f EXCEPT !.open = o] \in LockFile(P) /\ [f EXCEPT !.pid = o] \in LockFile(P)
    BY DEF LockTyped, LockFile
  <2>2. Gone \in LockFile(P) /\ [there |-> TRUE, pid |-> Nobody, open |-> p] \in LockFile(P)
    BY DEF LockFile, Gone
  <2>3. \/ g \in {f, Gone, [there |-> TRUE, pid |-> Nobody, open |-> p]}
        \/ g = [f EXCEPT !.open = Nobody] \/ g = [f EXCEPT !.pid = p]
    BY <1>1 DEF MovesFile
  <2> QED BY <2>1, <2>2, <2>3 DEF LockTyped
<1>3. b \in [P -> Place]
  BY <1>1 DEF LockTyped
<1>4. k \in 0 .. Tries /\ (to \in {"try", "unlink"} => k < Tries)
  <2>1. t[p] \in 0 .. Tries /\ (a[p] \in {"try", "unlink"} => t[p] < Tries)
    BY DEF LockTyped
  <2> QED BY <1>1, <2>1, TriesArePositive DEF MovesTries
<1>5. u \in [P -> 0 .. Tries] /\ \A q \in P : b[q] \in {"try", "unlink"} => u[q] < Tries
  BY <1>1, <1>4 DEF LockTyped
<1>6. LockHeld(P, g, b)
  <2> SUFFICES ASSUME NEW q \in P
               PROVE  /\ b[q] \in {"write", "in"} => g.there /\ g.open = q
                      /\ b[q] = "write" => g.pid = Nobody
                      /\ b[q] = "in" => g.pid = q
    BY DEF LockHeld
  <2> QED BY <1>1 DEF LockTyped, LockHeld, LockFile, MovesFile, Gone
<1> QED BY <1>2, <1>3, <1>5, <1>6 DEF LockTyped

LEMMA GuardMoves ==
    ASSUME G!TypeOK, G!Next
    PROVE  LockMoves(Guards, gfile, gat, gtries, gfile', gat', gtries')
<1>1. PICK p \in Guards :
          G!Enter(p) \/ G!Acquire(p) \/ G!Release(p) \/ G!Leave(p) \/ G!Die(p)
  BY DEF G!Next
<1>2. \E to \in Place, k \in Nat :
         /\ gat' = [gat EXCEPT ![p] = to] /\ gtries' = [gtries EXCEPT ![p] = k]
         /\ MovesFile(Guards, p, gfile, gat[p], to, gfile')
         /\ MovesTries(gat[p], to, gtries[p], k)
  <2> USE DEF MovesFile, MovesTries, Place, Gone, G!TypeOK, G!Goto, G!NoFile
  <2>1. CASE G!Enter(p) \/ G!Leave(p) \/ G!Die(p)
    BY <2>1 DEF G!Enter, G!Leave, G!Die
  <2>2. CASE G!Create(p) \/ G!ReadPid(p) \/ G!WritePid(p)
    BY <2>2 DEF G!Create, G!ReadPid, G!WritePid
  <2>3. CASE G!Unlink(p)
    <3>1. CASE gfile.open # Nobody
      BY <2>3, <3>1 DEF G!Unlink
    <3>2. CASE gfile.open = Nobody
      <4>1. gtries[p] + 1 \in Nat /\ gfile' = Gone
        BY <2>3, <3>2 DEF G!Unlink
      <4>2. /\ gtries' = [gtries EXCEPT ![p] = gtries[p] + 1]
            /\ gat' = [gat EXCEPT ![p] = IF gtries[p] + 1 < Tries THEN "try" ELSE "none"]
            /\ gat[p] = "unlink"
        BY <2>3, <3>2 DEF G!Unlink
      <4> QED BY <3>2, <4>1, <4>2
    <3> QED BY <3>1, <3>2
  <2>4. CASE G!Release(p)
    BY <2>4 DEF G!Release, G!Close, G!Remove
  <2> QED BY <1>1, <2>1, <2>2, <2>3, <2>4 DEF G!Acquire
<1> QED BY <1>2 DEF LockMoves

LEMMA SlaveMoves ==
    ASSUME S!TypeOK, S!Next
    PROVE  LockMoves(Slaves, sfile, sat, stries, sfile', sat', stries')
<1>1. PICK p \in Slaves :
          S!Enter(p) \/ S!Acquire(p) \/ S!Release(p) \/ S!Leave(p) \/ S!Die(p)
  BY DEF S!Next
<1>2. \E to \in Place, k \in Nat :
         /\ sat' = [sat EXCEPT ![p] = to] /\ stries' = [stries EXCEPT ![p] = k]
         /\ MovesFile(Slaves, p, sfile, sat[p], to, sfile')
         /\ MovesTries(sat[p], to, stries[p], k)
  <2> USE DEF MovesFile, MovesTries, Place, Gone, S!TypeOK, S!Goto, S!NoFile
  <2>1. CASE S!Enter(p) \/ S!Leave(p) \/ S!Die(p)
    BY <2>1 DEF S!Enter, S!Leave, S!Die
  <2>2. CASE S!Create(p) \/ S!ReadPid(p) \/ S!WritePid(p)
    BY <2>2 DEF S!Create, S!ReadPid, S!WritePid
  <2>3. CASE S!Unlink(p)
    <3>1. CASE sfile.open # Nobody
      BY <2>3, <3>1 DEF S!Unlink
    <3>2. CASE sfile.open = Nobody
      <4>1. stries[p] + 1 \in Nat /\ sfile' = Gone
        BY <2>3, <3>2 DEF S!Unlink
      <4>2. /\ stries' = [stries EXCEPT ![p] = stries[p] + 1]
            /\ sat' = [sat EXCEPT ![p] = IF stries[p] + 1 < Tries THEN "try" ELSE "none"]
            /\ sat[p] = "unlink"
        BY <2>3, <3>2 DEF S!Unlink
      <4> QED BY <3>2, <4>1, <4>2
    <3> QED BY <3>1, <3>2
  <2>4. CASE S!Release(p)
    BY <2>4 DEF S!Release, S!Close, S!Remove
  <2> QED BY <1>1, <2>1, <2>2, <2>3, <2>4 DEF S!Acquire
<1> QED BY <1>2 DEF LockMoves

\* However many processes want a lock, however many of them are killed and
\* wherever, two never have it at once (main.py:437): guardians, ...
THEOREM GuardsExclude == G!Spec => [](G!TypeOK /\ G!MutualExclusion)
<1> DEFINE Inv == LockTyped(Guards, gfile, gat, gtries) /\ LockHeld(Guards, gfile, gat)
<1>1. G!Init => Inv
  BY TriesArePositive
     DEF G!Init, G!NoFile, LockTyped, LockHeld, LockFile, Place
<1>2. Inv /\ [G!Next]_(G!vars) => Inv'
  <2> SUFFICES ASSUME Inv, [G!Next]_(G!vars) PROVE Inv'
    OBVIOUS
  <2>1. CASE UNCHANGED G!vars
    BY <2>1 DEF G!vars
  <2>2. CASE G!Next
    <3>1. G!TypeOK
      BY DEF LockTyped, LockFile, Place, G!TypeOK, G!File, G!At
    <3>2. LockMoves(Guards, gfile, gat, gtries, gfile', gat', gtries')
      BY <2>2, <3>1, GuardMoves
    <3>3. Nobody \notin Guards
      BY NobodyIsNoProcess
    <3> QED BY <3>2, <3>3, LockKept
  <2> QED BY <2>1, <2>2
<1>3. Inv => G!TypeOK /\ G!MutualExclusion
  BY DEF LockTyped, LockHeld, LockFile, Place, G!TypeOK, G!File, G!At, G!MutualExclusion
<1> QED BY <1>1, <1>2, <1>3, PTL DEF G!Spec

\* ... and slaves.
THEOREM SlavesExclude == S!Spec => [](S!TypeOK /\ S!MutualExclusion)
<1> DEFINE Inv == LockTyped(Slaves, sfile, sat, stries) /\ LockHeld(Slaves, sfile, sat)
<1>1. S!Init => Inv
  BY TriesArePositive
     DEF S!Init, S!NoFile, LockTyped, LockHeld, LockFile, Place
<1>2. Inv /\ [S!Next]_(S!vars) => Inv'
  <2> SUFFICES ASSUME Inv, [S!Next]_(S!vars) PROVE Inv'
    OBVIOUS
  <2>1. CASE UNCHANGED S!vars
    BY <2>1 DEF S!vars
  <2>2. CASE S!Next
    <3>1. S!TypeOK
      BY DEF LockTyped, LockFile, Place, S!TypeOK, S!File, S!At
    <3>2. LockMoves(Slaves, sfile, sat, stries, sfile', sat', stries')
      BY <2>2, <3>1, SlaveMoves
    <3>3. Nobody \notin Slaves
      BY NobodyIsNoProcess
    <3> QED BY <3>2, <3>3, LockKept
  <2> QED BY <2>1, <2>2
<1>3. Inv => S!TypeOK /\ S!MutualExclusion
  BY DEF LockTyped, LockHeld, LockFile, Place, S!TypeOK, S!File, S!At, S!MutualExclusion
<1> QED BY <1>1, <1>2, <1>3, PTL DEF S!Spec

\* Never two guardians at work and never two slaves, for any number of both,
\* of starts and of kills, and whatever the update helper does meanwhile.
THEOREM OneProgram == Spec => []OneOfEach
<1>1. G!MutualExclusion /\ S!MutualExclusion => OneOfEach
  BY DEF OneOfEach, G!MutualExclusion, S!MutualExclusion
<1> QED BY <1>1, GuardsImplementLock, SlavesImplementLock, GuardsExclude, SlavesExclude, PTL

-----------------------------------------------------------------------------
(***************************************************************************)
(* What is not in the locks                                                *)
(***************************************************************************)
ProgramTyped ==
    /\ child \in [Guards -> Slaves \cup {Nobody}]
    /\ leaving \subseteq Slaves /\ asked \subseteq Slaves
    /\ action \in BOOLEAN
    /\ exe \in {"old", "new", "gone"}
    /\ version \in [Slaves -> {"old", "new"}]
    /\ helper \in Helper

\* The update reads a pid from the guardians' lock file, which is why the types
\* of that file are needed here.
LEMMA ProgramStep ==
    ASSUME G!TypeOK, ProgramTyped, [Next]_vars
    PROVE  ProgramTyped'
<1>1. gfile.pid \in Guards \cup {Nobody}
  BY DEF G!TypeOK, G!File
<1>2. ASSUME UNCHANGED <<child, leaving, asked, action, exe, version, helper>>
      PROVE  ProgramTyped'
  BY <1>2 DEF ProgramTyped
<1>3. ASSUME NEW g \in Guards, StartProgram(g) \/ GuardStep(g) \/ KillGuard(g)
      PROVE  ProgramTyped'
  <2>1. CASE StartProgram(g) \/ GuardLocks(g)
    BY <1>2, <2>1 DEF StartProgram, Run, GuardLocks
  <2>2. CASE Spawn(g)
    <3>1. leaving' = leaving /\ asked' = asked /\ exe' = exe /\ helper' = helper /\ action' = FALSE
      BY <2>2 DEF Spawn
    <3>2. child' \in [Guards -> Slaves \cup {Nobody}] /\ version' \in [Slaves -> {"old", "new"}]
      BY <2>2 DEF Spawn, ProgramTyped
    <3> QED BY <3>1, <3>2 DEF ProgramTyped
  <2>3. CASE ChildEnded(g)
    BY <2>3 DEF ChildEnded, ProgramTyped
  <2>4. CASE KillGuard(g)
    BY <2>4 DEF KillGuard, ProgramTyped
  <2> QED BY <1>3, <2>1, <2>2, <2>3, <2>4 DEF GuardStep
<1>4. ASSUME NEW s \in Slaves,
             SlaveLocks(s) \/ Quit(s) \/ Release(s) \/ KillSlave(s) \/ HandleUpdateSelf(s)
      PROVE  ProgramTyped'
  <2>1. CASE SlaveLocks(s)
    BY <1>2, <2>1 DEF SlaveLocks
  <2>2. CASE Quit(s) \/ Release(s) \/ KillSlave(s)
    BY <2>2 DEF Quit, Release, KillSlave, ProgramTyped
  <2>3. CASE HandleUpdateSelf(s)
    <3>1. helper' \in Helper
      BY <1>1, <2>3 DEF HandleUpdateSelf, Helper
    <3> QED BY <2>3, <3>1 DEF HandleUpdateSelf, ProgramTyped
  <2> QED BY <1>4, <2>1, <2>2, <2>3
<1>5. ASSUME NEW h, NEW d \in {"waitGuard", "waitLock", "move", "copy", "start", "done", "gaveUp"},
             Does(h, d)
      PROVE  helper' \in Helper
  <2>1. helper \in Helper /\ helper' = [helper EXCEPT !.does = d]
    BY <1>5 DEF Does, ProgramTyped
  <2> QED BY <2>1 DEF Helper
<1>6. CASE HelperWaits
  <2>1. helper' \in Helper
    BY <1>5, <1>6 DEF HelperWaits
  <2>2. UNCHANGED <<child, leaving, asked, action, version, exe>>
    BY <1>6 DEF HelperWaits, helperRest
  <2> QED BY <2>1, <2>2 DEF ProgramTyped
<1>7. CASE Move
  <2>1. helper' \in Helper /\ exe' \in {"gone", exe}
    BY <1>5, <1>7 DEF Move
  <2>2. UNCHANGED <<child, leaving, asked, action, version>>
    BY <1>7 DEF Move, helperRest
  <2> QED BY <2>1, <2>2 DEF ProgramTyped
<1>8. CASE CopyNew
  <2>1. helper' \in Helper /\ exe' \in {"old", "new", "gone"}
    BY <1>5, <1>8 DEF CopyNew
  <2>2. UNCHANGED <<child, leaving, asked, action, version>>
    BY <1>8 DEF CopyNew, helperRest
  <2> QED BY <2>1, <2>2 DEF ProgramTyped
<1>9. ASSUME NEW g \in Guards, StartNew(g) PROVE ProgramTyped'
  <2>1. helper' \in Helper
    BY <1>5, <1>9 DEF StartNew
  <2>2. UNCHANGED <<child, leaving, asked, action, version, exe>>
    BY <1>9 DEF StartNew, Run
  <2> QED BY <2>1, <2>2 DEF ProgramTyped
<1>10. CASE UNCHANGED vars
  BY <1>2, <1>10 DEF vars
<1> QED BY <1>3, <1>4, <1>6, <1>7, <1>8, <1>9, <1>10 DEF Next, HelperStep

LEMMA LocksTyped == Spec => [](G!TypeOK /\ S!TypeOK)
BY GuardsImplementLock, SlavesImplementLock, GuardsExclude, SlavesExclude, PTL

LEMMA ProgramKept == Spec => []ProgramTyped
<1>1. Init => ProgramTyped
  <2>1. [does |-> "nothing", slave |-> Nobody, guard |-> Nobody] \in Helper
    BY DEF Helper
  <2> QED BY <2>1 DEF Init, ProgramTyped
<1>2. G!TypeOK /\ ProgramTyped /\ [Next]_vars => ProgramTyped'
  BY ProgramStep
<1> QED BY <1>1, <1>2, LocksTyped, PTL DEF Spec

\* Locks, processes and the helper are well typed, for any number of processes.
THEOREM TypeCorrect == Spec => []TypeOK
<1>1. G!TypeOK /\ S!TypeOK /\ ProgramTyped => TypeOK
  BY DEF TypeOK, ProgramTyped
<1> QED BY <1>1, LocksTyped, ProgramKept, PTL
=============================================================================
