---- MODULE ControlLease ----
(***************************************************************************)
(* The process-level control lease of wallee_v6/runtime_control.py: a     *)
(* non-blocking flock on one file, and the start-up reset of              *)
(* wallee_v6/main.py that unlinks that file.                               *)
(*                                                                         *)
(* flock locks the INODE a descriptor was opened on, not the path, so the  *)
(* path (lockPath) and the inodes the processes have opened or locked are  *)
(* kept apart.  An inode may be reused once no process refers to it.       *)
(***************************************************************************)
EXTENDS Integers

CONSTANTS
    Procs,          \* processes that may drive the hardware (main, smoke tools)
    Inodes,         \* inodes the file system can hand out
    NoFile,         \* "no inode": path absent, or descriptor not open
    FlushOnStart    \* the processes that start with config.flush_state_on_start

ASSUME LeaseAssumption ==
    /\ NoFile \notin Inodes
    /\ FlushOnStart \subseteq Procs

VARIABLES
    lockPath,       \* the inode config.control_lock_path names, or NoFile
    opened,         \* opened[p]: acquire() has opened it and not locked it yet
    fd              \* fd[p]: ControlLease._fd, the inode p holds the flock on

leaseVars == <<lockPath, opened, fd>>

(* Path and descriptors are well typed. *)
LeaseTypeOK ==
    /\ lockPath \in Inodes \cup {NoFile}
    /\ opened \in [Procs -> Inodes \cup {NoFile}]
    /\ fd \in [Procs -> Inodes \cup {NoFile}]

LeaseInit ==
    /\ lockPath = NoFile
    /\ opened = [p \in Procs |-> NoFile]
    /\ fd = [p \in Procs |-> NoFile]

Held(p) == fd[p] # NoFile

InUse(i) == i = lockPath \/ \E q \in Procs : i \in {opened[q], fd[q]}

(* os.open(path, O_RDWR | O_CREAT): opens the file the path names now, and  *)
(* creates it on a fresh inode when the path is gone.                       *)
Open(p) ==
    /\ ~Held(p)
    /\ opened[p] = NoFile
    /\ IF lockPath # NoFile
       THEN lockPath' = lockPath
       ELSE \E i \in {j \in Inodes : ~InUse(j)} : lockPath' = i
    /\ opened' = [opened EXCEPT ![p] = lockPath']
    /\ UNCHANGED fd

(* Mutant of LockedByOther: LOCK_SH in place of LOCK_EX.                    *)
LockedByOtherShared(p, i) == FALSE

LockedByOther(p, i) == \E q \in Procs \ {p} : fd[q] = i

(* fcntl.flock(fd, LOCK_EX | LOCK_NB) succeeds; the pid is written.         *)
FlockTaken(p) ==
    /\ opened[p] # NoFile
    /\ ~LockedByOther(p, opened[p])
    /\ fd' = [fd EXCEPT ![p] = opened[p]]
    /\ opened' = [opened EXCEPT ![p] = NoFile]
    /\ UNCHANGED lockPath

(* BlockingIOError: the descriptor is closed and acquire() returns False.   *)
FlockRefused(p) ==
    /\ opened[p] # NoFile
    /\ LockedByOther(p, opened[p])
    /\ opened' = [opened EXCEPT ![p] = NoFile]
    /\ UNCHANGED <<lockPath, fd>>

(* Mutant of Release: the file is removed with the lock.                    *)
ReleaseUnlinks(p) ==
    /\ fd' = [fd EXCEPT ![p] = NoFile]
    /\ opened' = [opened EXCEPT ![p] = NoFile]
    /\ lockPath' = NoFile

(* release(), Engine.close(), and the kernel closing the descriptors of a   *)
(* process that died.  The file stays behind.                               *)
Release(p) ==
    /\ fd' = [fd EXCEPT ![p] = NoFile]
    /\ opened' = [opened EXCEPT ![p] = NoFile]
    /\ UNCHANGED lockPath

(* The tail of reset_runtime_start_state: the lock file is unlinked without *)
(* asking whether a live process holds it.                                  *)
UnlinkLock(p) ==
    /\ p \in FlushOnStart
    /\ ~Held(p) /\ opened[p] = NoFile
    /\ lockPath' = NoFile
    /\ UNCHANGED <<opened, fd>>

LeaseNext ==
    \E p \in Procs :
        \/ Open(p)
        \/ FlockTaken(p)
        \/ FlockRefused(p)
        \/ Held(p) /\ Release(p)
        \/ UnlinkLock(p)

LeaseSpec == LeaseInit /\ [][LeaseNext]_leaseVars

(* At most one process holds the control lease: "A non-blocking process-    *)
(* level file lock used to prevent multi-writer control" (ControlLease).    *)
MutualExclusion ==
    \A p, q \in Procs : Held(p) /\ Held(q) => p = q

(* What is left of it when start-up unlinks the file: two holders sit on    *)
(* different inodes, and at most one of them on the one the path names.     *)
OneHolderPerInode ==
    \A p, q \in Procs : Held(p) /\ Held(q) /\ fd[p] = fd[q] => p = q

(* The strengthening that makes MutualExclusion inductive while nobody      *)
(* unlinks: every descriptor in use is on the inode the path names.         *)
LeaseInv ==
    /\ LeaseTypeOK
    /\ \A p \in Procs : fd[p] \in {NoFile, lockPath}
    /\ \A p \in Procs : opened[p] \in {NoFile, lockPath}
    /\ MutualExclusion

=============================================================================
