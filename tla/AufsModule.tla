----------------------------- MODULE AufsModule -----------------------------
(***************************************************************************)
(* Life cycle of the aufs kernel module: insmod runs aufs_init, rmmod runs *)
(* aufs_exit, and meanwhile processes mount the file system, open its      *)
(* files, use them and unmount.                                            *)
(*                                                                         *)
(* Each insmod makes a new GENERATION of the module: its own text, its own *)
(* aufs_type and aufs_file_operations, its own aufs_mount.  A super block, *)
(* a mount or an open file keeps pointing into the generation it came      *)
(* from.  Neither aufs_type nor aufs_file_operations sets .owner, so no    *)
(* such pointer holds a reference to the module: rmmod never refuses, and  *)
(* the memory of a generation is gone once free_module has run.            *)
(*                                                                         *)
(* mount_single keeps one super block per generation, so the state of the  *)
(* super blocks is a function of the generation; s_active = 0 means that   *)
(* there is none.  Creating the tree is one step here (AufsTree models it  *)
(* call by call).                                                          *)
(*                                                                         *)
(* Opening a file for writing takes two steps: may_open asks whether the   *)
(* file system is read-only, __dentry_open enters the file among those     *)
(* that do_remount_sb looks at.  In the kernel under 3rd/linux-2.6.14      *)
(* nothing keeps a mount from making it read-only in between; later ones   *)
(* count the writers of a mount and ask again when they count.             *)
(***************************************************************************)
EXTENDS Naturals, FiniteSets

CONSTANTS
    MountPoints,       \* directories a process may mount aufs on
    Files,             \* file descriptors of processes
    NoMount,           \* "this descriptor is closed"
    MaxGen,            \* bound: number of insmod calls considered
    WritersCounted,    \* does this kernel count the writers of a mount?
    RmmodWhileMounted, \* may rmmod be called while aufs is mounted or in use?
    MountDuringExit    \* may a mount start while aufs_exit runs?

ASSUME MountPointsAssumption == IsFiniteSet(MountPoints)
ASSUME NoMountAssumption == NoMount \notin MountPoints
ASSUME MaxGenAssumption == MaxGen \in Nat \ {0}
ASSUME WritersCountedAssumption == WritersCounted \in BOOLEAN
ASSUME DisciplineAssumption ==
    RmmodWhileMounted \in BOOLEAN /\ MountDuringExit \in BOOLEAN

VARIABLES
    mod,         \* state of the module as the module loader sees it
    gen,         \* generation loaded last (0: none yet)
    pc,          \* where the insmod or rmmod thread is
    registered,  \* is aufs_type of generation gen in the list file_systems?
    aufs_mount,  \* the module's variable: NULL, an error pointer, a mount
    s_active,    \* active references of the super block of each generation
    populated,   \* has that super block got the directories and files?
    rdonly,      \* is that super block read-only (MS_RDONLY in s_flags)?
    getting,     \* generation whose aufs_type a mount(2) in progress found
    mounted,     \* generation mounted on each mount point, 0 if none
    opening,     \* mount point a file is being opened for writing on
    file,        \* mount point an open file lives on
    writing,     \* the descriptors that are open for writing
    fault        \* the kernel has used memory of a freed generation

modVars  == <<mod, gen, pc, registered, aufs_mount>>
sbVars   == <<s_active, populated, rdonly>>
fileVars == <<opening, file, writing>>
userVars == <<getting, mounted, fileVars>>
vars     == <<modVars, sbVars, userVars, fault>>

Gens    == 1..MaxGen
GenOrNo == 0..MaxGen

PCs == {"idle", "register", "kern_mount", "unwind", "populate", "oops",
        "kern_unmount", "unregister", "free"}

\* One type invariant for the whole component.
TypeOK ==
    /\ mod \in {"unloaded", "coming", "live", "going"}
    /\ gen \in GenOrNo
    /\ pc \in PCs
    /\ registered \in BOOLEAN
    /\ aufs_mount \in {"NULL", "ERR", "MNT"}
    /\ s_active \in [Gens -> Nat]
    /\ populated \in [Gens -> BOOLEAN]
    /\ rdonly \in [Gens -> BOOLEAN]
    /\ getting \in [MountPoints -> GenOrNo]
    /\ mounted \in [MountPoints -> GenOrNo]
    /\ opening \in [Files -> MountPoints \cup {NoMount}]
    /\ file \in [Files -> MountPoints \cup {NoMount}]
    /\ writing \in SUBSET Files
    /\ fault \in BOOLEAN

-----------------------------------------------------------------------------
(***************************************************************************)
(* Kernel services the module is built on.                                 *)
(***************************************************************************)

\* The text and data of generation g are still in memory.
Resident(g) == g = gen /\ mod # "unloaded"

\* The kernel follows a pointer into the text or data of generation g.
Touch(g) == fault' = (fault \/ ~Resident(g))

\* It follows one through the f_op of an open file, unless the file was opened
\* before aufs_create_file had set its operations.
TouchOps(g) == Touch(g) \/ UNCHANGED fault

\* A file of the super block of generation g is open for writing.
HasWriter(g) == \E f \in writing : mounted[file[f]] = g

\* A slip: the files that are open for writing are not looked for.
do_remount_sb_Force(g, ro) == rdonly' = [rdonly EXCEPT ![g] = ro]

\* The flags of a mount become those of the super block.  It is not made
\* read-only while a file is open for writing; that refusal goes unreported.
do_remount_sb(g, ro) ==
    rdonly' = [rdonly EXCEPT ![g] = ro /\ (@ \/ ~HasWriter(g))]

\* A slip: a new super block passes for the one that was there before.
get_sb_single_OldTree(g, ro) ==
    /\ s_active' = [s_active EXCEPT ![g] = @ + 1]
    /\ UNCHANGED populated
    /\ do_remount_sb(g, ro)

\* An active reference on the super block of generation g, through
\* mount_single.  If there was none, aufs_fill_super makes one whose tree is
\* empty: its tree_descr array holds only the terminator.
get_sb_single(g, ro) ==
    /\ s_active' = [s_active EXCEPT ![g] = @ + 1]
    /\ populated' = [populated EXCEPT ![g] = @ /\ s_active[g] > 0]
    /\ do_remount_sb(g, ro)

\* Drops an active reference; the last one calls s_type->kill_sb, which is
\* read from the aufs_type of generation g.
deactivate_super(g) ==
    /\ s_active' = [s_active EXCEPT ![g] = @ - 1]
    /\ fault' = (fault \/ (s_active[g] = 1 /\ ~Resident(g)))
    /\ UNCHANGED <<populated, rdonly>>

\* References the module loader counts for the loaded generation.  get_fs_type,
\* sget and fops_get take theirs on .owner, which aufs leaves NULL.
module_refcount == 0

-----------------------------------------------------------------------------
(***************************************************************************)
(* The thread that runs insmod and rmmod.                                  *)
(***************************************************************************)

\* The loader maps a new copy of the module and calls aufs_init.
Insmod ==
    /\ mod = "unloaded"
    /\ gen < MaxGen
    /\ gen' = gen + 1
    /\ mod' = "coming"
    /\ pc' = "register"
    /\ aufs_mount' = "NULL"
    /\ UNCHANGED <<registered, sbVars, userVars, fault>>

\* register_filesystem: -EBUSY when another file system has the name, and
\* aufs_init hands that error to the loader, which frees the module.
aufs_init_register ==
    /\ pc = "register"
    /\ \/ /\ registered' = TRUE
          /\ pc' = "kern_mount"
          /\ UNCHANGED mod
       \/ /\ mod' = "unloaded"
          /\ pc' = "idle"
          /\ UNCHANGED registered
    /\ UNCHANGED <<gen, aufs_mount, sbVars, userVars, fault>>

\* A slip: the module does not keep the mount it has made.
aufs_init_kern_mount_Dropped ==
    /\ pc = "kern_mount"
    /\ aufs_mount' = "MNT"
    /\ pc' = "populate"
    /\ UNCHANGED <<sbVars, mod, gen, registered, userVars, fault>>

\* aufs_mount = kern_mount(&aufs_type), which may fail for lack of memory.
aufs_init_kern_mount ==
    /\ pc = "kern_mount"
    /\ \/ /\ aufs_mount' = "MNT"
          /\ pc' = "populate"
          /\ get_sb_single(gen, FALSE)
       \/ /\ aufs_mount' = "ERR"
          /\ pc' = "unwind"
          /\ UNCHANGED sbVars
    /\ UNCHANGED <<mod, gen, registered, userVars, fault>>

\* The error path of kern_mount: unregister, then "return ret", and ret is
\* still the 0 of register_filesystem, so the loader keeps the module.
aufs_init_unwind ==
    /\ pc = "unwind"
    /\ registered' = FALSE
    /\ pc' = "idle"
    /\ mod' = "live"
    /\ UNCHANGED <<gen, aufs_mount, sbVars, userVars, fault>>

\* The aufs_create_dir and aufs_create_file calls, then "return ret".  One of
\* them may kill the thread (AufsTree), which leaves the module half loaded.
aufs_init_populate ==
    /\ pc = "populate"
    /\ \/ /\ populated' = [populated EXCEPT ![gen] = TRUE]
          /\ mod' = "live"
          /\ pc' = "idle"
       \/ /\ pc' = "oops"
          /\ UNCHANGED <<mod, populated>>
    /\ UNCHANGED <<gen, registered, aufs_mount, s_active, rdonly, userVars, fault>>

\* Nothing of aufs is mounted, being mounted or open.
NotInUse ==
    /\ \A m \in MountPoints : mounted[m] = 0 /\ getting[m] = 0
    /\ \A f \in Files : file[f] = NoMount /\ opening[f] = NoMount

\* delete_module: only a live module, only with no reference counted.
Rmmod ==
    /\ mod = "live"
    /\ module_refcount = 0
    /\ RmmodWhileMounted \/ NotInUse
    /\ mod' = "going"
    /\ pc' = "kern_unmount"
    /\ UNCHANGED <<gen, registered, aufs_mount, sbVars, userVars, fault>>

\* A slip: the result of kern_mount is not looked at before it is unmounted.
aufs_exit_kern_unmount_Unchecked ==
    /\ pc = "kern_unmount"
    /\ pc' = "unregister"
    /\ deactivate_super(gen)
    /\ UNCHANGED <<mod, gen, registered, aufs_mount, userVars>>

\* A slip: aufs_exit does not unmount.
aufs_exit_kern_unmount_Forgotten ==
    /\ pc = "kern_unmount"
    /\ pc' = "unregister"
    /\ UNCHANGED <<sbVars, fault, mod, gen, registered, aufs_mount, userVars>>

\* kern_unmount(aufs_mount) ignores an error pointer.
aufs_exit_kern_unmount ==
    /\ pc = "kern_unmount"
    /\ pc' = "unregister"
    /\ \/ /\ aufs_mount = "MNT"
          /\ deactivate_super(gen)
       \/ /\ aufs_mount # "MNT"
          /\ UNCHANGED <<sbVars, fault>>
    /\ UNCHANGED <<mod, gen, registered, aufs_mount, userVars>>

\* A slip: aufs_exit does not unregister.
aufs_exit_unregister_Forgotten ==
    /\ pc = "unregister"
    /\ aufs_mount' = "NULL"
    /\ pc' = "free"
    /\ UNCHANGED <<registered, mod, gen, sbVars, userVars, fault>>

\* unregister_filesystem, whose result is not looked at, and the reset of
\* aufs_mount.
aufs_exit_unregister ==
    /\ pc = "unregister"
    /\ registered' = FALSE
    /\ aufs_mount' = "NULL"
    /\ pc' = "free"
    /\ UNCHANGED <<mod, gen, sbVars, userVars, fault>>

\* aufs_exit has returned: free_module.
FreeModule ==
    /\ pc = "free"
    /\ mod' = "unloaded"
    /\ pc' = "idle"
    /\ UNCHANGED <<gen, registered, aufs_mount, sbVars, userVars, fault>>

-----------------------------------------------------------------------------
(***************************************************************************)
(* Processes that use the file system.                                     *)
(***************************************************************************)

\* mount -t aufs: get_fs_type finds the registered type by its name.
MountBegin(m) ==
    /\ registered
    /\ mounted[m] = 0 /\ getting[m] = 0
    /\ MountDuringExit \/ mod # "going"
    /\ getting' = [getting EXCEPT ![m] = gen]
    /\ UNCHANGED <<modVars, sbVars, mounted, fileVars, fault>>

\* A slip: a mount that fails late keeps its reference on the super block.
MountFinish_Leaks(m, ro) ==
    /\ getting[m] # 0
    /\ getting' = [getting EXCEPT ![m] = 0]
    /\ Touch(getting[m])
    /\ Resident(getting[m])
    /\ get_sb_single(getting[m], ro)
    /\ \/ mounted' = [mounted EXCEPT ![m] = getting[m]]
       \/ UNCHANGED mounted
    /\ UNCHANGED <<modVars, fileVars>>

\* ... then type->mount, that is aufs_get_sb, runs.  It may fail, and so may
\* what comes after it: then the reference is dropped again, but a super block
\* that was there before keeps the flags of the mount that failed.
MountFinish(m, ro) ==
    /\ getting[m] # 0
    /\ getting' = [getting EXCEPT ![m] = 0]
    /\ Touch(getting[m])
    /\ \/ /\ Resident(getting[m])
          /\ get_sb_single(getting[m], ro)
          /\ mounted' = [mounted EXCEPT ![m] = getting[m]]
       \/ /\ Resident(getting[m])
          /\ s_active[getting[m]] > 0
          /\ do_remount_sb(getting[m], ro)
          /\ UNCHANGED <<s_active, populated, mounted>>
       \/ UNCHANGED <<sbVars, mounted>>
    /\ UNCHANGED <<modVars, fileVars>>

\* umount: refused while a file of the mount is open or being opened.
Umount(m) ==
    /\ mounted[m] # 0
    /\ \A f \in Files : file[f] # m /\ opening[f] # m
    /\ mounted' = [mounted EXCEPT ![m] = 0]
    /\ deactivate_super(mounted[m])
    /\ UNCHANGED <<modVars, getting, fileVars>>

\* The super block of generation g may have files: aufs_init has created them,
\* is at it, or has died over it.
MayHaveFiles(g) == populated[g] \/ (g = gen /\ pc \in {"populate", "oops"})

\* open for writing, first step: not on a read-only file system.
may_open(f, m) ==
    /\ file[f] = NoMount /\ opening[f] = NoMount
    /\ mounted[m] # 0
    /\ MayHaveFiles(mounted[m])
    /\ ~rdonly[mounted[m]]
    /\ opening' = [opening EXCEPT ![f] = m]
    /\ UNCHANGED <<modVars, sbVars, getting, mounted, file, writing, fault>>

\* open, last step: enters the file in s_files, copies i_fop, the address of
\* aufs_file_operations, and reads its .owner.  A kernel that counts writers
\* asks once more whether the file system is read-only.
Open(f, m, write) ==
    /\ file[f] = NoMount
    /\ opening[f] = IF write THEN m ELSE NoMount
    /\ mounted[m] # 0
    /\ MayHaveFiles(mounted[m])
    /\ write /\ WritersCounted => ~rdonly[mounted[m]]
    /\ opening' = [opening EXCEPT ![f] = NoMount]
    /\ file' = [file EXCEPT ![f] = m]
    /\ writing' = IF write THEN writing \cup {f} ELSE writing
    /\ TouchOps(mounted[m])
    /\ UNCHANGED <<modVars, sbVars, getting, mounted>>

\* ... or it fails after may_open, and the path is let go.
OpenFails(f) ==
    /\ opening[f] # NoMount
    /\ opening' = [opening EXCEPT ![f] = NoMount]
    /\ UNCHANGED <<modVars, sbVars, getting, mounted, file, writing, fault>>

\* read or write: calls aufs_file_read or aufs_file_write through f_op.
Access(f) ==
    /\ file[f] # NoMount
    /\ TouchOps(mounted[file[f]])
    /\ UNCHANGED <<modVars, sbVars, userVars>>

\* close: looks for a release function in f_op.
Close(f) ==
    /\ file[f] # NoMount
    /\ TouchOps(mounted[file[f]])
    /\ file' = [file EXCEPT ![f] = NoMount]
    /\ writing' = writing \ {f}
    /\ UNCHANGED <<modVars, sbVars, getting, mounted, opening>>

-----------------------------------------------------------------------------
Init ==
    /\ mod = "unloaded"
    /\ gen = 0
    /\ pc = "idle"
    /\ registered = FALSE
    /\ aufs_mount = "NULL"
    /\ s_active = [g \in Gens |-> 0]
    /\ populated = [g \in Gens |-> FALSE]
    /\ rdonly = [g \in Gens |-> FALSE]
    /\ getting = [m \in MountPoints |-> 0]
    /\ mounted = [m \in MountPoints |-> 0]
    /\ opening = [f \in Files |-> NoMount]
    /\ file = [f \in Files |-> NoMount]
    /\ writing = {}
    /\ fault = FALSE

\* The steps of aufs_init and aufs_exit once they have been called.
ModuleThread ==
    \/ aufs_init_register \/ aufs_init_kern_mount \/ aufs_init_unwind
    \/ aufs_init_populate
    \/ aufs_exit_kern_unmount \/ aufs_exit_unregister \/ FreeModule

UserStep ==
    \/ \E m \in MountPoints : MountBegin(m) \/ Umount(m)
    \/ \E m \in MountPoints, ro \in BOOLEAN : MountFinish(m, ro)
    \/ \E f \in Files : OpenFails(f) \/ Access(f) \/ Close(f)
    \/ \E f \in Files, m \in MountPoints : may_open(f, m)
    \/ \E f \in Files, m \in MountPoints, write \in BOOLEAN : Open(f, m, write)

Next == Insmod \/ Rmmod \/ ModuleThread \/ UserStep

Spec == Init /\ [][Next]_vars

-----------------------------------------------------------------------------
(***************************************************************************)
(* Properties.                                                             *)
(***************************************************************************)

\* Mount points that show the super block of generation g.
MountsOf(g) == {m \in MountPoints : mounted[m] = g}

\* aufs_init's own mount is held until aufs_exit has passed kern_unmount.
KernHolds(g) == g = gen /\ aufs_mount = "MNT" /\ pc # "unregister"

\* Reference counting over concurrent mounts, failing mounts, insmod and
\* rmmod: the active count of a super block is exactly the number of mount
\* points showing it plus the module's own mount.  One reference too few and
\* kill_litter_super destroys a tree in use; one too many and it never runs.
ActiveRefs ==
    \A g \in Gens :
        s_active[g] = Cardinality(MountsOf(g)) + (IF KernHolds(g) THEN 1 ELSE 0)

\* The list file_systems never keeps a pointer into freed module memory, on
\* whichever path aufs_init or aufs_exit left (aufs.c 29-40, 56-61): the next
\* mount or register call anywhere in the kernel walks that list.
RegisteredIsResident == registered => mod # "unloaded"

\* The mount taken in aufs_init pins the one tree: whatever users mount and
\* unmount meanwhile, and whoever made the super block first, every aufs mount
\* of a successfully initialised module shows the populated tree.
MountSeesTree ==
    mod = "live" /\ aufs_mount = "MNT" =>
        \A m \in MountPoints : mounted[m] = gen => populated[gen]

\* All mounts share one super block, and each mount, even one that fails in the
\* end, sets its flags (supper.h:25, super.c:797): where writers are counted,
\* still no process that has a file open for writing finds it on a read-only
\* file system.  (In linux-2.6.14 one does, if the mount came between may_open
\* and __dentry_open.)
NoWriterOnReadOnly == \A f \in writing : ~rdonly[mounted[file[f]]]

\* The kernel never runs or reads code or data of an unloaded module through
\* a mount in progress, a super block or an open file.
NoUseAfterUnload == ~fault

\* aufs.c:55 says of aufs_exit that it unmounts the aufs file system: once
\* the module is gone, no aufs super block is left.
ExitUnmounts == mod = "unloaded" => \A g \in Gens : s_active[g] = 0

\* Once rmmod has been accepted, aufs_exit finishes and leaves neither the
\* super block nor the module behind, provided nobody uses the file system.
UnloadCompletes ==
    \A g \in Gens :
        (gen = g /\ mod = "going") ~> (s_active[g] = 0 /\ ~Resident(g))

-----------------------------------------------------------------------------
(***************************************************************************)
(* The super blocks, behind their counters, are the shared objects of      *)
(* SuperBlock.  NoMount, no mount point, stands for the module's mount.    *)
(***************************************************************************)

HoldersOf(g) == MountsOf(g) \cup (IF KernHolds(g) THEN {NoMount} ELSE {})

SB == INSTANCE SuperBlock WITH
        Holders <- MountPoints \cup {NoMount},
        Keeper  <- NoMount,
        held    <- [g \in Gens |-> HoldersOf(g)],
        alive   <- {g \in Gens : s_active[g] > 0},
        full    <- {g \in Gens : s_active[g] > 0 /\ populated[g]}

\* Whatever users and the loader do, in whichever order: kill_litter_super
\* destroys a tree exactly when its last holder has gone, no mount finds an
\* earlier tree again or an emptied one, and the tree appears only in a super
\* block the module itself holds (supper.h 22-26, aufs.c 35 and 58).
ImplementsSuperBlock == SB!Spec
=============================================================================
