# Verification of aufs

`src/aufs/` is a small in-memory file system for Linux, built as a loadable
module: `insmod` registers the type `aufs`, mounts it inside the kernel and
creates two directories with three files each; every file reads as one of two
fixed messages, chosen by a switch that writing to any file sets. This directory
holds TLA+ models of it, the TLC runs that check them and TLAPS proofs.

Everything else in the repository is vendored (`src/3rd`). One vendored tree is
used as a reference: `src/3rd/linux-2.6.14`, whose VFS says what the functions
aufs calls do, and from whose `fs/debugfs/inode.c` much of aufs is derived.
aufs itself needs a later kernel (`.mount`, `mount_single`, `__i_nlink`). Where
later kernels behave differently in a way that matters, a constant stands for
the difference.

## Inventory

| Component | State | Operations | Touches |
|---|---|---|---|
| life cycle, `aufs.c` | loader state, registration, `aufs_mount` | `aufs_init`, `aufs_exit` | module loader, list of file systems, super block |
| super block, `supper.h` | the super block and its active count | `aufs_get_sb` (`mount_single`), `aufs_fill_super`, `kill_litter_super` | called by every mount and unmount |
| tree creation, `dentry.h`, `node.h`, `file.h` 24-53 | dentries, inodes, their counts and operations; `pslot` in `aufs_init` | `aufs_create_dir/file`, `aufs_create_by_name`, `aufs_mknod`, `aufs_mkdir`, `aufs_create`, `aufs_get_inode` | dentry cache, shared with path walks |
| file operations, `file.h` 55-72 | `enabled`, file positions | `aufs_file_read`, `aufs_file_write` | called from any process |

How they meet: the type is registered *before* the kernel mount and the tree
exist, so processes mount, walk and open while `aufs_init` is still working;
`aufs_exit` unmounts *before* it unregisters; nothing sets `.owner`, so the
loader does not know that anything uses the module; the tree is created without
the parent directory's lock; a file becomes visible before it has its
operations; a read chooses its message before it copies, and a write stores the
position of the open file back that it found on entry; all mounts share one
super block and each of them sets its flags.

What correctness means here: references on the super block and on dentries are
exact, those on the super block and those on its root agree, and no tree is
destroyed with somebody in it; nothing freed is used; every mount shows the
populated tree; a walk finds what exists; files are
where `aufs_init` wants them and have their operations; error paths leave
nothing half done; reads stay inside their message and lose no byte of it. The hazards, each at its
line, are listed in `PROJECT.json`.

## Modules

**AufsModule** - one thread runs insmod and rmmod, step by step; processes
mount (in two steps: `get_fs_type`, then the call of `type->mount`), unmount,
open, access and close. Each insmod makes a new *generation*; super blocks,
mounts and open files remember theirs, `Resident(g)` says whether its memory
exists, and `fault` records that the kernel followed a pointer into a generation
that is gone. After a fault the real kernel may do anything; the model goes on
as if nothing had happened, which only matters for `NoUseAfterUnload`. A second super
block of the same type cannot exist (`mount_single`), so super blocks are
functions of the generation; with the count goes the read-only flag, which
`do_remount_sb` sets at every mount, also one that fails after that, unless a
file is open for writing. Opening for writing takes two steps, `may_open`, which
asks for that flag, and `Open`, which enters the file among those
`do_remount_sb` looks at. A read-only mount may come between them; in 2.6.14 the
writer then is on a read-only file system, while later kernels count writers and
ask again (constant `WritersCounted`). `NoWriterOnReadOnly` is claimed for these
only. Failures: name already registered, `kern_mount` or
a mount failing, the creating thread dying. Two constants describe the
users' discipline, as the kernel enforces none: `RmmodWhileMounted` and
`MountDuringExit`.

**SuperBlock** - what AufsModule promises, without counters: an object per load
with a set of holders, made with the first, filled by the module's own holder,
destroyed with the last. AufsModule implements it (`ImplementsSuperBlock`, model
value `NoMount` standing for `aufs_mount`): alive is `s_active > 0`, the holders
are the mounts, full is `populated`.

**AufsTree** - begins after `kern_mount`. `Script` is the list of create calls.
A call is split into lookup, `simple_lookup` adding the dentry, `aufs_mknod`
publishing the inode, and what happens after that (link count of the parent,
`i_fop`), because a user can come between any two. Users walk from the root,
look names up (cache hit; miss under the directory's semaphore), open and
release. `d_count` is modelled exactly. At the end `kill_litter_super` runs with
`d_genocide`, `shrink_dcache_parent` and the last `dput`. Kernel variants:
`SerialisedLookup` (`d_alloc_parallel` lets one lookup of a name run and others
join it: path walks from 4.7 on, `lookup_one_len` in still later kernels; the
constant stands for those where both do) and `DefaultFopsOpen` (an inode without operations can
be opened, 2.6.14 to 3.18; later `open` fails). Which of two hashed dentries of
one name a lookup meets is left open. A user's walk that joins another lookup
just waits in the model; the reference on the other's dentry it holds meanwhile
is left out. `-EFAULT` for a missing parent
(`dentry.h` 21-24) cannot happen after `kern_mount` and is not a step; users
cannot create or remove anything, as `simple_dir_inode_operations` has only
`lookup`. When a directory cannot be created, `aufs_init` passes on the null
pointer and the files meant for it go to the root, although `aufs.c:43` promises
them in the corresponding folder (`FilesInTheirFolder`, violated by
`tree_misplaced`). `InNoOtherFolder` is what holds: no file is in the folder of
another group. In the same way `OpenFilesUseAufsOps` fails (`tree_early_open`) and
`OpensGetAufsOps` says how far: only an open between `aufs_mknod` and the return
of the call that creates the very file misses the operations.

**Directory** - what a path walk promises, without a dentry cache: one tree of
names that only grows, and lookups that happen at one moment. With
`SerialisedLookup` AufsTree implements it (`ImplementsDirectory`); without, it
does not (`tree_duplicate`).

**AufsSystem** - AufsModule and AufsTree composed. It extends both, so that what
is defined and proved of each is at hand, and adds `at`. The threads' places are
`pc` in the first and `tpc` in the second; the processes of the second own the
descriptors of the first (`DescriptorAssumption`). The one step `aufs_init_populate` of AufsModule becomes the calls of
AufsTree (`aufs_init_create`) and the return after them; `kern_mount` and every
mount take a reference on the root or make a new tree (`AcquireTree`), every
unmount gives it back and the last runs `kill_litter_super` (`ReleaseTree`). A
process is on the mount `at[u]` while it walks or has a file open; it opens only
what it has walked to (for writing, after `CheckWrite`), so which files exist, and
whether they have their operations yet, is what the tree says. `CreatedIsFound`
is about what a walk finds, so it asks that the name has one dentry; without
`SerialisedLookup` a walk may meet a negative duplicate. `Open`, `Access` and `Close` of AufsModule
allow both a use of the module's operations and none (`TouchOps`);
here the file's `f_op` decides. There is one tree at a time: the model loads the
module again only when no super block of the former load is left (older super
blocks next to a new load are the subject of `module_refs`).

**AufsFile** - the switch, writers, and readers whose call is split between
fetching the position, the choice of the message and the copy. A message is its
length (19 for enabled, 20 for disabled: the literals end in a backslash and an
`n`). A *pass* is what a reader does after it set its position; history variables
record where it started, up to where and from which messages it got bytes, and
whether the switch changed. `copy_to_user` failing gives `-EFAULT` and moves
nothing, as in 2.6.14.

`read(2)` and `write(2)` work on a copy of the position: `sys_write` fetches it,
`aufs_file_write` sets the switch and leaves the copy alone, `sys_write_return`
stores it back (`read_write.c` 354-356). A writer may write through the open file of
a reader (`Through`); without a lock its store undoes the reads that came in
between, so what holds of a pass is stated for `PositionIsMine`, and
`ReaderReachesEnd` names being set back for ever as a way not to get to the end.
`SeamlessPass` is about the passes `WholeMessage` leaves out, those in which the
switch changes: the reader then gets pieces of both messages, but without a gap,
without a repetition, and up to the end.

`aufs_file_write` reads the user's buffer directly, so an unmapped one kills the
writer inside the call (`aufs_file_write_oops`). In 2.6.14 it holds nothing then;
from 3.14 on, calls through an open file that processes share hold its
`f_pos_lock`, which the dead writer keeps: `poslock`, chosen once, stands for the
two. Writers do not seek.

**MCModule, MCTree, MCFile, MCSystem** give the constants values.
**AufsModuleProofs, AufsModuleRefinement, AufsTreeProofs, AufsTreeRefinement,
AufsSystemProofs, AufsFileProofs** hold
the proofs. In each module, definitions whose names end in
an underscored word and whose comment begins with "A slip" are mutants: wrong
versions of the definition that follows, which show that the properties can fail.

## Runs

| Run | Result | What it shows |
|---|---|---|
| `module_refs` | passes | with users free to do anything: exact active counts, nothing freed stays registered, every mount of an initialised module shows the tree, and the super blocks implement SuperBlock |
| `module_exit_race` | violated | a mount found the type between `kern_unmount` and `unregister_filesystem` and runs freed code |
| `module_rmmod_mounted` | violated | rmmod of a mounted aufs leaves the super block behind (`install-aufs.sh` after `ut/run-mount.sh`) |
| `tree_build` | passes | `d_count` exact and no dangling dentry although lookups cross; no entry in the folder of another call, link counts right, nothing created is ever lost, opens outside the window get aufs operations |
| `tree_serial` | passes | on recent kernels: one dentry per name, creation ends, files get their operations, and walks see the tree of Directory |
| `tree_duplicate` | violated | on earlier kernels: two dentries for one name |
| `tree_early_open` | violated | where default operations can be opened: a file opened too early keeps them |
| `tree_unmount` | violated | every dentry keeps the reference of `lookup_one_len` after unmount; the trace is the shortest one, where each `aufs_mknod` failed, and created entries keep the same reference |
| `tree_misplaced` | violated | a directory could not be created and its files are in the root |
| `file_read` | passes | no overread; no byte lost or repeated where nobody else changes the position, and one whole message if the switch stays; readers reach the end although the switch keeps flipping and writers may die, unless one died with the lock of the reader's own open file or, without a lock, writes through it set it back for ever |
| `system_safe` | passes | the whole system over two loads, users keeping both disciplines, lookups serialised and writers counted: exact counts on dentries and super block together, nobody's tree destroyed, created entries and nothing else found under their names until `aufs_exit`, no use after unload, no writer on a read-only file system, a load ends, an accepted rmmod frees super block and module, AufsModule implemented |
| `system_load` | violated | insmod can end with a live module that is not there (`return ret` after a failed `kern_mount`), or not end at all (`IS_ERR` of the wrong pointer) |

The findings in `PROJECT.json` quote for each violated run the comment that says
otherwise.

**Bounds.** Life cycle: two loads are enough to have something of a dead
generation next to a live one; two or three mount points and two descriptors
give every combination of mount in progress, mounted and open (the proofs remove
these bounds). Tree: `ShortScript` (two directories, then a file) is the
shortest script in which a file could land in the wrong directory, and two
users give every pair of crossing lookups; `TinyScript` (one directory, one file)
is enough where only one name is raced for; the violated runs use the real
script of `aufs.c`. `MaxDentry` is large enough that
allocation never waits for an identifier (an assumption of the module);
lack of memory is a separate choice. System: two mount points, one of which a
process can be on while the other comes and goes, one process and two loads
(33 062 states). File: the real lengths, sizes from 0 to
more than a message, positions at, between and behind both ends; one reader,
because readers meet only through the switch, and two writers, one of which
shares the reader's open file.
The sizes: `module_refs` 45 966 states, `tree_build` 153 273, `tree_serial` 4 832,
`file_read` 230 532. `CHECK_DEADLOCK FALSE` is set where the system may really stop: all loads used
up, `aufs_init` dead, super block gone, a reader waiting for a dead writer's lock.

**Fairness.** `tree_serial`: the
insmod thread runs, and a user's lookup that has allocated its dentry adds it
(`simple_lookup` does not block). `file_read`: the property is about a process
that reads on, so it calls read with room for at least one byte again and again
(strong fairness, as it may also read zero bytes or seek, and as waiters for
`f_pos_lock` are served in turn), and a call returns; a write that has begun
returns or dies, but nobody has to call it. `system_safe` and `system_load`: the
thread in `aufs_init` or `aufs_exit` runs (it waits for nothing but a user's
lookup of the same name), and a user's lookup that has allocated its dentry adds
it; nobody has to load, unload, mount, walk or close.

## Proofs

`AufsModuleProofs` - for every finite set of mount points, every set of
descriptors and every `MaxGen`. `ActiveRefs` is not inductive: that
`aufs_exit` may drop a reference needs that `aufs_mount` being a mount
implies one is held, and that a finishing mount adds a mount point needs that
nothing was mounted there. `ModuleInv` adds `PhaseInv` (what each place of
`aufs_init` and `aufs_exit` knows of loader, registration and `aufs_mount`, and
that a live module with a mount is populated) and `MountInv`. `MountSeesTree`
needs the counts in turn: a further mount does not refill the super block
because the module's own reference keeps the count positive. The counting
lemmas rest on `FiniteSetTheorems`. Theorems: `TypeCorrect`, `RefsExact`,
`NeverRegisteredUnloaded`, `TreePinned`. `DisciplinedUnloadIsSafe` assumes
both disciplines and adds `InUseInv`: what is in use belongs to the loaded
generation, and nothing is in use while a module is coming before registration,
going or gone.

`AufsModuleRefinement` - `ModuleImplementsSuperBlock`: every step of AufsModule is
a step of SuperBlock or changes none of its variables. It uses `ModuleInv` and, from
it, that a super block is alive exactly when it has a holder (a finite set is
empty exactly when its cardinality is 0): so a dropped reference destroys it
exactly when the holder was the last, and a further mount makes a new one
exactly when there was none. `WritersKeepWriting` assumes
`WritersCounted` (without it the property is false) and needs besides `ModuleInv`
that an open file is on a mount, as otherwise an unmount and a new read-only mount
could come under it.

`AufsTreeProofs` - for every script, every finite set of processes and both
kernel variants (`SerialisedLookup`, `DefaultFopsOpen`). Exact counts are not
inductive by themselves: a `dput` that frees a dentry is only right if the dentry
has no child, and that follows from the tree's shape. `TreeInv(mounts)` is the inductive
invariant, `mounts` being the number of mounts on the root (1 in AufsTree):

- `Shape`: free dentries are blank, every other dentry is in a directory, a
  directory is in the root, a dentry not yet hashed has no inode;
- `Counted`: `d_count` of a dentry in use is its children, plus the references
  from outside (`External`: walks, open files, lookups under way, what
  `lookup_one_len` left with `aufs_init`, `s_root` and mounts), plus one if it was
  created; it is at least 1; a free dentry has none from outside;
- `WalkInv`, `CallInv`, `CreatedInv`, `SlotInv`: where each process is, what
  the current call knows of its dentry, what calls have returned, and that `pslot` is
  the result of the last `aufs_create_dir`.

Each operation of the cache has a lemma saying that it keeps `Cached` (shape and
counts) when the outside references change by one, and a `Frame`: what exists, and
what somebody still refers to, stays what it is, and at most one dentry is new.
From the frame follows what a step leaves alone in everybody else's part of the
invariant (`WalkerFrame`, `InitFrame`), so each action only has its own part to prove.
`kill_litter_super` is shown to keep types and to free nothing but perhaps the root, as
every other dentry in use is referred to by a call. Theorems: `TreeTypes`,
`CountsAreExact`, `NoDangling`; `CreatedNeverGoes` from the frames;
`FilesInNoOtherFolder` with `Placed`, which states the place of each file when its
call returns and that the entry is not moved later, and with the names of the
calls, which tell their results apart; `LinksAreRight` with `Linked`, links in
step with the directories in a directory, one behind between `aufs_mknod` and the
return. `NamesAreUnique` assumes `SerialisedLookup` and needs lookups under way
counted in (`Unique`), as they will be hashed. The assumption is
needed: the run `tree_duplicate` violates the property without it. `OpensHaveOps`
holds on both kinds of kernel: by `CreatedInv` an inode is the result of a call
that has returned, and then has its operations, or the one in the window.

`AufsTreeRefinement` - `TreeImplementsDirectory`, under `SerialisedLookup`. With
unique names paths are unique (`PathUnique`: two levels, and no entry is called like
the root), so what a lookup finds at the path of a dentry is that dentry
(`KindOf`). A step whose frame holds changes neither the tree seen nor anything
for processes that do not move (`FrameSeen`); a lookup that hits or adds is a `Walk`,
`aufs_mknod` is `Create` (for a process that waits at the negative dentry too),
everything else before the unmount is not seen.

`AufsSystemProofs` - for every script, every finite set of processes and mount
points, and both kernel variants. `SystemInv` says besides `ModuleInv` that while
a super block lives, it is the only one (`OneTree`) and `TreeInv(s_active[gen])`
holds (`LiveTree`): the two kinds of counters agree, since every mount
has one active reference and one on the root. `UserInv` ties every process
in the tree to a mount; a mount keeps `s_active` positive, so the tree is not
destroyed under anybody. The `TreeInv` lemmas of `AufsTreeProofs` are used as they
are, with `RootGetInv` and `RootPutInv` for mounts that come and go.
`SystemImplementsModule` shows step by step that AufsSystem does what AufsModule
allows; the hard one is `OpenFound`: AufsModule allows an open only where there may
be files, AufsSystem where the walk has got to one, so the invariant has to say
that there is no regular file before `aufs_init` has begun to create them. From it everything
proved of AufsModule carries over: `SystemRefsExact`, `SystemImplementsSuperBlock`,
`SystemUnloadIsSafe`, `SystemWritersKeepWriting`. From `SystemInv` itself:
`SystemTypes`, `SystemCountsAreExact`, `NobodyFalls`. `CreatedStaysFound` assumes
`SerialisedLookup`; it uses `Ready` (a live module with a mount has finished its
calls) and `UniqueTree`, the uniqueness of names in whichever tree lives, kept by
mounts and unmounts too.

`AufsFileProofs` - for every set of readers and writers, whoever shares whose
open file, any two lengths, sizes and positions. A reader whose position is its
own (`PositionIsMine`) has it at the end of what it got, in the open file and in
the call's copy; under `poslock` that needs that a writer inside holds the lock,
so that its copy is still the position. `ReaderInv` adds what the reader knows
while the switch has not changed: its choice is the current message, its bytes are
from it, and its position lies between its start and that message's end. Theorems:
`FileTypeCorrect`, `ReadsInBounds`, `PassesAreSeamless`, `UndisturbedReadIsWhole`.

Every invariant, action property and refinement that a passing run checks is
proved. Only model-checked: the liveness properties `UnloadCompletes`,
`CreationEnds`, `FileOpsAssigned`, `ReaderReachesEnd` and `LoadEnds` (fairness and
`ENABLED` are out of the prover's reach). What the violated runs show are
counterexamples, which need no proof.

## Not modelled

The program is the 300 lines of `src/aufs`, and all of its operations are
modelled. The millions of lines under `src/3rd` are other projects (a kernel, ceph,
fast-fs, fuse, sshfs, glusterfs, phxpaxos, rocksdb); none of them is built with aufs and
only the kernel ever meets it. Of the kernel we model what aufs calls and what
calls aufs, and nothing for its own sake; so the mapped lines are a
tiny share of the repository and nearly all of the program.

Within aufs: times, owners and permissions of inodes, `init_special_inode` (no
call reaches it), messages to the log, statfs and directory listing, the build
files. Within the kernel: mount flags other than read-only; `umount -l` and bind
mounts; addresses that `access_ok` refuses before aufs is called; what happens
after the kernel has used freed memory.

## Plan

1. Done: life cycle, tree, file operations, their composition; abstract
   specifications of the super block and of the directory tree.
2. Done: proofs of every safety property and refinement the passing runs check,
   for all values of the constants.
3. Left: Directory for each generation's tree in AufsSystem, which no run asks for
   yet; the safety half of the liveness properties (what is enabled where).
