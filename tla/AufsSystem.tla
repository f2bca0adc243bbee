----------------------------- MODULE AufsSystem -----------------------------
(***************************************************************************)
(* AufsModule and AufsTree put together: the module is loaded, creates its *)
(* tree call by call below the root of the super block that mounts share,  *)
(* processes walk it through their mounts while it grows, open its files   *)
(* and unmount, and the last mount that goes destroys the tree.            *)
(*                                                                         *)
(* The loader, the mounts and the super blocks are those of AufsModule,    *)
(* the dentries and the calls of aufs_init those of AufsTree.  A process   *)
(* has one walk or one open file; the vfsmount it came in by, at, is the   *)
(* reference that keeps umount away.  There is one tree at a time: the     *)
(* module is not loaded again while a super block of its predecessor is    *)
(* left.                                                                   *)
(***************************************************************************)
EXTENDS AufsModule, AufsTree

\* Each descriptor belongs to a process of its own, which first has to walk to
\* the file.
ASSUME DescriptorAssumption == Users = Files

VARIABLE at  \* the mount each process is on

mountVars  == <<getting, mounted>>
systemVars == <<vars, treeVars, at>>

\* One type invariant for the whole system.
SystemTypeOK == TypeOK /\ TreeTypeOK /\ at \in [Users -> MountPoints \cup {NoMount}]

-----------------------------------------------------------------------------
(***************************************************************************)
(* What happens to the tree when mounts come and go.                       *)
(***************************************************************************)

\* Some super block, and with it the tree, exists.
TreeExists == \E g \in Gens : s_active[g] > 0

\* get_sb_single and the mount's mnt_root: a new root, with the calls of
\* aufs_init still to come, or one more reference on the old one.
AcquireTree ==
    IF TreeExists
    THEN dcache' = dget(dcache, Root) /\ UNCHANGED initVars
    ELSE /\ dcache' = simple_fill_super
         /\ tpc' = "lookup"
         /\ step' = 1
         /\ pslot' = Null
         /\ found' = [i \in Steps |-> Null]
         /\ created' = [i \in Steps |-> Null]

\* A slip: only the last mount that goes gives its root back.
ReleaseTree_KeepRoot(g) ==
    /\ dcache' = IF s_active[g] = 1 THEN kill_litter_super(dcache) ELSE dcache
    /\ UNCHANGED initVars

\* __mntput: mnt_root's reference, and the tree with the last active one.
ReleaseTree(g) ==
    /\ dcache' = IF s_active[g] = 1 THEN kill_litter_super(dcache)
                 ELSE [dcache EXCEPT ![Root].count = @ - 1]
    /\ UNCHANGED initVars

-----------------------------------------------------------------------------
(***************************************************************************)
(* The thread that runs insmod and rmmod.                                  *)
(***************************************************************************)

\* insmod; bound: one tree at a time.
LoadModule == ~TreeExists /\ Insmod /\ UNCHANGED <<treeVars, at>>

\* Steps of aufs_init and aufs_exit that leave the tree alone.
ModuleOnly ==
    /\ UNCHANGED <<treeVars, at>>
    /\ aufs_init_register \/ aufs_init_unwind \/ aufs_exit_unregister \/ FreeModule

UnloadModule == Rmmod /\ UNCHANGED <<treeVars, at>>

\* kern_mount makes the super block, or finds one a user has mounted already.
MountKernel ==
    /\ UNCHANGED <<walkVars, at>>
    /\ aufs_init_kern_mount
    /\ IF aufs_mount' = "MNT" THEN AcquireTree ELSE UNCHANGED <<dcache, initVars>>

\* A slip: creating begins before aufs_init has the mount.
aufs_init_create_Early ==
    /\ pc \in {"kern_mount", "populate"}
    /\ InitThread
    /\ UNCHANGED <<vars, at>>

\* One step of the aufs_create_dir and aufs_create_file calls.
aufs_init_create ==
    /\ pc = "populate"
    /\ InitThread
    /\ UNCHANGED <<vars, at>>

\* aufs_init returns after its last call, or has been killed in one.
aufs_init_return ==
    /\ tpc \in {"done", "oops"}
    /\ UNCHANGED <<treeVars, at>>
    /\ aufs_init_populate
    /\ pc' = "oops" <=> tpc = "oops"

\* kern_unmount drops the module's mount, if there is one.
UnmountKernel ==
    /\ UNCHANGED <<walkVars, at>>
    /\ aufs_exit_kern_unmount
    /\ IF aufs_mount = "MNT" THEN ReleaseTree(gen) ELSE UNCHANGED <<dcache, initVars>>

-----------------------------------------------------------------------------
(***************************************************************************)
(* Processes that use the file system.                                     *)
(***************************************************************************)

StartMount(m) == MountBegin(m) /\ UNCHANGED <<treeVars, at>>

FinishMount(m, ro) ==
    /\ UNCHANGED <<walkVars, at>>
    /\ MountFinish(m, ro)
    /\ IF mounted'[m] # 0 THEN AcquireTree ELSE UNCHANGED <<dcache, initVars>>

\* A slip: only open files keep umount away, walks do not.
Unmount_Walked(m) ==
    /\ UNCHANGED <<walkVars, at>>
    /\ Umount(m)
    /\ ReleaseTree(mounted[m])

\* umount is refused while a walk or an open file refers to the vfsmount.
Unmount(m) ==
    /\ \A u \in Users : at[u] # m
    /\ UNCHANGED <<walkVars, at>>
    /\ Umount(m)
    /\ ReleaseTree(mounted[m])

\* A path walk enters the file system at a mount point.
EnterMount(u, m) ==
    /\ mounted[m] # 0
    /\ WalkStart(u)
    /\ at' = [at EXCEPT ![u] = m]
    /\ UNCHANGED vars

\* It goes on to a name in the directory it has got to.
Lookup(u) ==
    /\ opening[u] = NoMount
    /\ \E n \in Names : LookupHit(u, n) \/ LookupMiss(u, n)
    /\ UNCHANGED <<vars, at>>

FinishLookup(u) ==
    /\ LookupAdd(u)
    /\ UNCHANGED <<vars, at>>

\* The kernel looks into the operations op of u's file, which are in the memory
\* of the module once aufs_create_file has set them.
FollowFop(u, op) == fault' = (fault \/ (op = "aufs" /\ ~Resident(mounted[at[u]])))

\* It has got to a file and may open it for writing.
CheckWrite(u) ==
    /\ upc[u] = "at"
    /\ dcache[ucur[u]].inode = "reg"
    /\ may_open(u, at[u])
    /\ UNCHANGED <<treeVars, at>>

\* It opens the file it has got to; for writing, after CheckWrite, and where
\* writers are counted only if the file system is still not read-only.
OpenFound(u, write) ==
    /\ OpenFile(u)
    /\ opening[u] = IF write THEN at[u] ELSE NoMount
    /\ write /\ WritersCounted => ~rdonly[mounted[at[u]]]
    /\ opening' = [opening EXCEPT ![u] = NoMount]
    /\ file' = [file EXCEPT ![u] = at[u]]
    /\ writing' = IF write THEN writing \cup {u} ELSE writing
    /\ FollowFop(u, f_op'[u])
    /\ UNCHANGED <<modVars, sbVars, mountVars, at>>

\* read or write on the open file: through the module's operations, if it has
\* them.
AccessFile(u) ==
    /\ upc[u] = "open"
    /\ FollowFop(u, f_op[u])
    /\ UNCHANGED <<modVars, sbVars, userVars, treeVars, at>>

\* The walk or the open ends, or the file is closed; then the vfsmount is let go.
Leave(u) ==
    /\ Release(u)
    /\ FollowFop(u, f_op[u])
    /\ at' = [at EXCEPT ![u] = NoMount]
    /\ opening' = [opening EXCEPT ![u] = NoMount]
    /\ file' = [file EXCEPT ![u] = NoMount]
    /\ writing' = writing \ {u}
    /\ UNCHANGED <<modVars, sbVars, mountVars>>

-----------------------------------------------------------------------------
\* Nothing is loaded; of the tree there is not even the root.
SystemInit ==
    /\ Init
    /\ dcache = [d \in Dentries |-> FreeDentry]
    /\ tpc = "lookup"
    /\ step = 1
    /\ pslot = Null
    /\ found = [i \in Steps |-> Null]
    /\ created = [i \in Steps |-> Null]
    /\ upc = [u \in Users |-> "idle"]
    /\ ucur = [u \in Users |-> Null]
    /\ unew = [u \in Users |-> Null]
    /\ f_op = [u \in Users |-> "none"]
    /\ at = [u \in Users |-> NoMount]

LoaderThread ==
    \/ ModuleOnly \/ MountKernel \/ aufs_init_create \/ aufs_init_return
    \/ UnmountKernel

UsersStep ==
    \/ \E m \in MountPoints : StartMount(m) \/ Unmount(m)
    \/ \E m \in MountPoints, ro \in BOOLEAN : FinishMount(m, ro)
    \/ \E u \in Users, m \in MountPoints : EnterMount(u, m)
    \/ \E u \in Users, write \in BOOLEAN : OpenFound(u, write)
    \/ \E u \in Users : Lookup(u) \/ FinishLookup(u) \/ CheckWrite(u)
                       \/ AccessFile(u) \/ Leave(u)

SystemNext == LoadModule \/ UnloadModule \/ LoaderThread \/ UsersStep

SystemSpec == SystemInit /\ [][SystemNext]_systemVars

\* The thread of insmod and rmmod runs, and so does a lookup that has begun:
\* neither waits for anything but the other's lookup of the same name.
SystemFairSpec ==
    /\ SystemSpec
    /\ WF_systemVars(LoaderThread)
    /\ \A u \in Users : WF_systemVars(FinishLookup(u))

-----------------------------------------------------------------------------
(***************************************************************************)
(* Properties.                                                             *)
(***************************************************************************)

\* The mounts of all generations and aufs_init's own: each has a reference on
\* the root, its mnt_root.
RootMounts ==
    Cardinality({m \in MountPoints : mounted[m] # 0})
        + (IF KernHolds(gen) THEN 1 ELSE 0)

\* d_count and s_active together: while the super block lives, whoever made it,
\* each dentry counts exactly the references there are; those of the root are
\* s_root's and one for every mount that s_active counts (aufs.c:35, supper.h:25).
TreeRefs ==
    TreeExists =>
        \A d \in Used :
            dcache[d].count =
                  Cardinality({c \in Used : dcache[c].parent = d})
                + Cardinality({u \in Users : ucur[u] = d})
                + Cardinality({u \in Users : unew[u] = d})
                + Cardinality({i \in Steps : found[i] = d})
                + (CASE d = Root -> 1 + RootMounts
                     [] d # Root /\ dcache[d].inode # "none" -> 1
                     [] OTHER -> 0)

\* kill_litter_super never runs under somebody's feet: a process that walks or
\* has a file open is on a mount, the super block of that mount lives, and the
\* dentries it holds have not been freed, whatever mounts and unmounts others
\* do, aufs_init failing half way or aufs_exit included.
UsersStandFirm ==
    \A u \in Users :
        upc[u] # "idle" =>
            /\ at[u] # NoMount /\ mounted[at[u]] # 0
            /\ s_active[mounted[at[u]]] > 0
            /\ ucur[u] \in Used
            /\ upc[u] = "adding" => unew[u] \in Used

\* From the return of aufs_init to aufs_exit every entry that one of its calls
\* reported created is what a walk through any mount finds under its name, and
\* nothing else is, a file with the module's operations: where lookups are
\* serialised, users who mounted before the tree was there, who left negative
\* dentries behind or unmounted meanwhile change nothing.
CreatedIsFound ==
    mod = "live" /\ aufs_mount = "MNT" =>
        \A i \in Steps :
            LET d == created[i]
            IN  d # Null =>
                    /\ d_lookup(dcache, dcache[d].parent, Script[i].name) = {d}
                    /\ dcache[d].parent \in {Root} \cup {created[j] : j \in Steps}
                    /\ dcache[d].inode = Script[i].kind
                    /\ dcache[d].inode = "reg" => dcache[d].i_fop = "aufs"

\* aufs_init comes to an end, although its lookups wait for those of users: it
\* returns, or dies in one of its calls.
LoadEnds == mod = "coming" ~> (mod # "coming" \/ pc = "oops")

\* aufs.c:23 says of aufs_init that it creates the aufs file system: insmod
\* fails, or the file system is registered, mounted and can be used.
LoadDelivers ==
    mod = "coming" ~>
        (mod = "unloaded" \/ (mod = "live" /\ registered /\ aufs_mount = "MNT"))

\* With the calls of aufs_init and the walks of users one by one, the system
\* does nothing AufsModule, where creating the tree is one step and any file
\* may be opened once that has begun, would not do.
ImplementsModule == Spec
=============================================================================
