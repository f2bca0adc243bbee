------------------------------ MODULE AufsTree ------------------------------
(***************************************************************************)
(* The directories and files aufs_init creates, dentry by dentry, while    *)
(* other processes already look names up below the same root: the type is  *)
(* registered before the tree exists, so it can be mounted half built.     *)
(*                                                                         *)
(* The state is the part of the dentry cache that belongs to one aufs      *)
(* super block.  aufs_create_by_name calls lookup_one_len without taking   *)
(* the semaphore of the parent directory, so its lookup interleaves with   *)
(* the ones of path walks, which do take it.                               *)
(*                                                                         *)
(* The module is built against kernels that differ in what a racing lookup *)
(* does and in what an inode without operations does when it is opened;    *)
(* constants stand for both, the kernel under 3rd/linux-2.6.14 being       *)
(* SerialisedLookup = FALSE, DefaultFopsOpen = TRUE.  SerialisedLookup     *)
(* stands for kernels whose lookup_one_len goes through d_alloc_parallel,  *)
(* which is later than path walks did (4.7).                               *)
(***************************************************************************)
EXTENDS Naturals, Sequences, FiniteSets

CONSTANTS
    Script,           \* the aufs_create_dir and aufs_create_file calls
    Users,            \* processes that walk paths and open files
    MaxDentry,        \* bound: dentries of the super block at one time
    SerialisedLookup, \* does the dcache let one lookup of a name run at a time?
    DefaultFopsOpen   \* can an inode with the default operations be opened?

Null     == 0          \* the null pointer
Root     == 1          \* sb->s_root
Dentries == 1..MaxDentry
Steps    == 1..Len(Script)
Names    == {Script[i].name : i \in Steps}
NoName   == "/"        \* name of the root; lookup_one_len takes no such name

ASSUME ScriptAssumption ==
    /\ Script \in Seq([name : STRING, kind : {"dir", "reg"}]) \ {<<>>}
    /\ \A i, j \in Steps : Script[i].name = Script[j].name => i = j
    /\ NoName \notin Names
ASSUME UsersAssumption == IsFiniteSet(Users)
ASSUME MaxDentryAssumption ==
    MaxDentry \in Nat /\ MaxDentry >= 1 + Len(Script) + Cardinality(Users)
ASSUME KernelAssumption ==
    SerialisedLookup \in BOOLEAN /\ DefaultFopsOpen \in BOOLEAN

VARIABLES
    dcache,   \* every dentry, with the fields of its inode
    tpc,      \* where aufs_init is in the current call
    step,     \* number of the call, an index into Script
    pslot,    \* its local variable pslot
    found,    \* what lookup_one_len gave each call; nobody gives it back
    created,  \* history: what each call returned; Null before and on failure
    upc,      \* where each user is
    ucur,     \* dentry it holds (nameidata or open file)
    unew,     \* dentry it is adding
    f_op      \* operations of its open file

initVars == <<tpc, step, pslot, found, created>>
walkVars == <<upc, ucur, unew, f_op>>
treeVars == <<dcache, initVars, walkVars>>

\* Links of an empty root: 1 in 2.6.14, 2 where simple_fill_super counts ".".
RootNlink == 1

\* A dentry: whether it is unused memory, allocated but not yet in the hash
\* table, or hashed; d_name, d_parent, d_count; its inode (none: negative
\* dentry) with i_fop and i_nlink.
Dentry == [state  : {"free", "new", "hashed"},
           name   : Names \cup {NoName},
           parent : Dentries \cup {Null},
           count  : Nat,
           inode  : {"none", "dir", "reg"},
           i_fop  : {"none", "default", "dir", "aufs"},
           nlink  : Nat]

FreeDentry == [state |-> "free", name |-> NoName, parent |-> Null, count |-> 0,
               inode |-> "none", i_fop |-> "none", nlink |-> 0]

NewDentry(p, n) == [state |-> "new", name |-> n, parent |-> p, count |-> 1,
                    inode |-> "none", i_fop |-> "none", nlink |-> 0]

\* One type invariant for the whole component.
TreeTypeOK ==
    /\ dcache \in [Dentries -> Dentry]
    /\ tpc \in {"lookup", "wait", "add", "mknod", "finish", "done", "oops", "killed"}
    /\ step \in 1..(Len(Script) + 1)
    /\ pslot \in Dentries \cup {Null}
    /\ found \in [Steps -> Dentries \cup {Null}]
    /\ created \in [Steps -> Dentries \cup {Null}]
    /\ upc \in [Users -> {"idle", "at", "adding", "open"}]
    /\ ucur \in [Users -> Dentries \cup {Null}]
    /\ unew \in [Users -> Dentries \cup {Null}]
    /\ f_op \in [Users -> {"none", "default", "aufs"}]

-----------------------------------------------------------------------------
(***************************************************************************)
(* The dentry cache: operators from one dcache to the next.                *)
(***************************************************************************)

\* d_lookup: the hashed children of p that have the name n.
d_lookup(dc, p, n) ==
    {d \in Dentries : dc[d].state = "hashed" /\ dc[d].parent = p /\ dc[d].name = n}

\* The dentries that lookups of n in p have allocated and not yet added.
InLookup(dc, p, n) ==
    {d \in Dentries : dc[d].state = "new" /\ dc[d].parent = p /\ dc[d].name = n}

dget(dc, d) == [dc EXCEPT ![d].count = @ + 1]

\* The last dput frees the dentry: d_delete of simple_lookup's dentries always
\* says so.  It then drops the reference d_alloc took on the parent.
dput(dc, d) ==
    IF dc[d].count > 1 THEN [dc EXCEPT ![d].count = @ - 1]
    ELSE LET freed == [dc EXCEPT ![d] = FreeDentry]
         IN  [freed EXCEPT ![dc[d].parent].count = @ - 1]

\* An unused dentry; the bound MaxDentry is such that there always is one.
Room(dc)  == \E d \in Dentries : dc[d].state = "free"
Fresh(dc) == CHOOSE d \in Dentries : dc[d].state = "free"

\* d_alloc(p, n) into the dentry d: one reference, and one more on p.
d_alloc(dc, d, p, n) ==
    LET added == [dc EXCEPT ![d] = NewDentry(p, n)]
    IN  [added EXCEPT ![p].count = @ + 1]

\* d_add(d, NULL), all that simple_lookup does: a negative dentry.
d_add(dc, d) == [dc EXCEPT ![d].state = "hashed"]

\* aufs_get_inode and d_instantiate: the operations of a regular file are the
\* defaults of new_inode until aufs_create_file sets them.
d_instantiate(dc, d, kind) ==
    [dc EXCEPT ![d].inode = kind,
               ![d].i_fop = IF kind = "dir" THEN "dir" ELSE "default",
               ![d].nlink = IF kind = "dir" THEN 2 ELSE 1]

\* d_genocide: takes one reference from every positive dentry but the root.
d_genocide(dc) ==
    [d \in Dentries |->
        IF d # Root /\ dc[d].state = "hashed" /\ dc[d].inode # "none"
        THEN [dc[d] EXCEPT !.count = @ - 1] ELSE dc[d]]

\* One sweep of prune_dcache over the dentries nobody refers to.
prune_dcache(dc) ==
    LET unused == {d \in Dentries \ {Root} : dc[d].state # "free" /\ dc[d].count = 0}
    IN  [d \in Dentries |->
            IF d \in unused THEN FreeDentry
            ELSE [dc[d] EXCEPT !.count =
                    @ - Cardinality({c \in unused : dc[c].parent = d})]]

\* shrink_dcache_parent sweeps until nothing is unused; the tree has two
\* levels below the root.
shrink_dcache_parent(dc) == prune_dcache(prune_dcache(dc))

\* The end of __mntput(aufs_mount): mnt_root's reference, then, with the last
\* active reference, kill_litter_super; the root is not hashed, so that dput
\* frees it if it is not in use.
kill_litter_super(dc) ==
    LET swept == shrink_dcache_parent(d_genocide([dc EXCEPT ![Root].count = @ - 1]))
    IN  IF swept[Root].count > 1 THEN [swept EXCEPT ![Root].count = @ - 1]
        ELSE [swept EXCEPT ![Root] = FreeDentry]

-----------------------------------------------------------------------------
(***************************************************************************)
(* aufs_init, from aufs.c:42 on: one aufs_create_file call per step.       *)
(***************************************************************************)

Call == Script[step]

\* *dentry in aufs_create_by_name.
lk == found[step]

\* A null parent stands for the root of aufs_mount, which aufs_init knows to
\* exist; aufs_create_dir calls always pass NULL.
Parent == IF Call.kind = "dir" \/ pslot = Null THEN Root ELSE pslot

\* A slip: pslot is only set by a call that succeeded.
Return_KeepSlot(d) ==
    /\ created' = [created EXCEPT ![step] = d]
    /\ pslot' = IF Call.kind = "dir" /\ d # Null THEN d ELSE pslot
    /\ step' = step + 1
    /\ tpc' = IF step = Len(Script) THEN "done" ELSE "lookup"
    /\ UNCHANGED found

\* The call returns d to aufs_init, which keeps it if it is a directory.
Return(d) ==
    /\ created' = [created EXCEPT ![step] = d]
    /\ pslot' = IF Call.kind = "dir" THEN d ELSE pslot
    /\ step' = step + 1
    /\ tpc' = IF step = Len(Script) THEN "done" ELSE "lookup"
    /\ UNCHANGED found

\* A slip: a dentry from the cache is used without a reference.
lookup_one_len_hit_NoGet ==
    /\ tpc = "lookup"
    /\ \E d \in d_lookup(dcache, Parent, Call.name) :
            found' = [found EXCEPT ![step] = d]
    /\ tpc' = "mknod"
    /\ UNCHANGED <<dcache, step, pslot, created, walkVars>>

\* lookup_one_len finds a dentry that some user's lookup left in the cache.
lookup_one_len_hit ==
    /\ tpc = "lookup"
    /\ \E d \in d_lookup(dcache, Parent, Call.name) :
            /\ dcache' = dget(dcache, d)
            /\ found' = [found EXCEPT ![step] = d]
    /\ tpc' = "mknod"
    /\ UNCHANGED <<step, pslot, created, walkVars>>

\* A slip: the name is added although another lookup of it is under way.
lookup_one_len_miss_NoJoin ==
    /\ tpc = "lookup"
    /\ d_lookup(dcache, Parent, Call.name) = {}
    /\ found' = [found EXCEPT ![step] = Fresh(dcache)]
    /\ dcache' = d_alloc(dcache, Fresh(dcache), Parent, Call.name)
    /\ tpc' = "add"
    /\ UNCHANGED <<step, pslot, created, walkVars>>

\* It finds none and allocates one.  For lack of memory it returns an error
\* pointer, also where it would then have joined another lookup; IS_ERR is
\* asked about the address of the variable instead, and aufs_mknod follows the
\* error pointer: the thread is killed.
lookup_one_len_miss ==
    /\ tpc = "lookup"
    /\ d_lookup(dcache, Parent, Call.name) = {}
    /\ \/ /\ SerialisedLookup => InLookup(dcache, Parent, Call.name) = {}
          /\ Room(dcache)
          /\ found' = [found EXCEPT ![step] = Fresh(dcache)]
          /\ dcache' = d_alloc(dcache, Fresh(dcache), Parent, Call.name)
          /\ tpc' = "add"
       \/ /\ tpc' = "oops"
          /\ UNCHANGED <<dcache, found>>
    /\ UNCHANGED <<step, pslot, created, walkVars>>

\* Where lookups of a name are serialised it joins the one under way: it takes
\* a reference on that dentry and waits until it has been added.
d_alloc_parallel_join ==
    /\ SerialisedLookup
    /\ tpc = "lookup"
    /\ \E d \in InLookup(dcache, Parent, Call.name) :
            /\ dcache' = dget(dcache, d)
            /\ found' = [found EXCEPT ![step] = d]
    /\ tpc' = "wait"
    /\ UNCHANGED <<step, pslot, created, walkVars>>

d_wait_lookup ==
    /\ tpc = "wait"
    /\ dcache[lk].state = "hashed"
    /\ tpc' = "mknod"
    /\ UNCHANGED <<dcache, step, pslot, found, created, walkVars>>

\* ... and simple_lookup adds it to the cache.
lookup_one_len_add ==
    /\ tpc = "add"
    /\ dcache' = d_add(dcache, lk)
    /\ tpc' = "mknod"
    /\ UNCHANGED <<step, pslot, found, created, walkVars>>

\* aufs_mknod refuses a positive dentry, or finds no memory for an inode: the
\* call returns NULL and keeps its reference on the dentry.
aufs_mknod_fail ==
    /\ tpc = "mknod"
    /\ Return(Null)
    /\ UNCHANGED <<dcache, walkVars>>

\* A slip: the reference of the lookup is dropped, none is taken instead.
aufs_mknod_Put ==
    /\ tpc = "mknod"
    /\ dcache[lk].inode = "none"
    /\ dcache' = dput(d_instantiate(dcache, lk, Call.kind), lk)
    /\ tpc' = "finish"
    /\ UNCHANGED <<step, pslot, found, created, walkVars>>

\* aufs_mknod publishes the inode and pins the dentry.
aufs_mknod ==
    /\ tpc = "mknod"
    /\ dcache[lk].inode = "none"
    /\ dcache' = dget(d_instantiate(dcache, lk, Call.kind), lk)
    /\ tpc' = "finish"
    /\ UNCHANGED <<step, pslot, found, created, walkVars>>

\* A slip: the new directory counts the link, not its parent.
aufs_create_file_finish_OwnLink ==
    /\ tpc = "finish"
    /\ dcache' = IF Call.kind = "dir"
                 THEN [dcache EXCEPT ![lk].nlink = @ + 1]
                 ELSE [dcache EXCEPT ![lk].i_fop = "aufs"]
    /\ Return(lk)
    /\ UNCHANGED walkVars

\* A slip: the operations are not set.
aufs_create_file_finish_NoFops ==
    /\ tpc = "finish"
    /\ dcache' = IF Call.kind = "dir"
                 THEN [dcache EXCEPT ![dcache[lk].parent].nlink = @ + 1]
                 ELSE dcache
    /\ Return(lk)
    /\ UNCHANGED walkVars

\* What is left once the inode is visible: aufs_mkdir counts the new link of
\* the parent, aufs_create_file sets the operations of a file.
aufs_create_file_finish ==
    /\ tpc = "finish"
    /\ dcache' = IF Call.kind = "dir"
                 THEN [dcache EXCEPT ![dcache[lk].parent].nlink = @ + 1]
                 ELSE [dcache EXCEPT ![lk].i_fop = "aufs"]
    /\ Return(lk)
    /\ UNCHANGED walkVars

\* aufs_exit, nobody else having the file system mounted: kern_unmount.
aufs_exit_kill ==
    /\ tpc = "done"
    /\ \A u \in Users : upc[u] = "idle"
    /\ dcache' = kill_litter_super(dcache)
    /\ tpc' = "killed"
    /\ UNCHANGED <<step, pslot, found, created, walkVars>>

-----------------------------------------------------------------------------
(***************************************************************************)
(* Users.                                                                  *)
(***************************************************************************)

\* A path walk begins at the root of a mount.
WalkStart(u) ==
    /\ upc[u] = "idle"
    /\ tpc # "killed"
    /\ dcache' = dget(dcache, Root)
    /\ upc' = [upc EXCEPT ![u] = "at"]
    /\ ucur' = [ucur EXCEPT ![u] = Root]
    /\ UNCHANGED <<initVars, unew, f_op>>

\* do_lookup finds n in the cache: the walk moves on to that dentry.
LookupHit(u, n) ==
    /\ upc[u] = "at"
    /\ dcache[ucur[u]].inode = "dir"
    /\ \E d \in d_lookup(dcache, ucur[u], n) :
            /\ dcache' = dput(dget(dcache, d), ucur[u])
            /\ ucur' = [ucur EXCEPT ![u] = d]
    /\ UNCHANGED <<initVars, upc, unew, f_op>>

\* A slip: a lookup of the same name may already be under way.
LookupMiss_NoWait(u, n) ==
    /\ upc[u] = "at"
    /\ dcache[ucur[u]].inode = "dir"
    /\ d_lookup(dcache, ucur[u], n) = {}
    /\ upc' = [upc EXCEPT ![u] = "adding"]
    /\ unew' = [unew EXCEPT ![u] = Fresh(dcache)]
    /\ dcache' = d_alloc(dcache, Fresh(dcache), ucur[u], n)
    /\ UNCHANGED <<initVars, ucur, f_op>>

\* real_lookup, n not being in the cache: takes the semaphore of the directory,
\* looks once more and allocates a dentry.  Where lookups are serialised, a walk
\* waits while another looks n up; the reference on the other's dentry it holds
\* meanwhile is left out, as the dentry cannot go before it has been added.
LookupMiss(u, n) ==
    /\ upc[u] = "at"
    /\ dcache[ucur[u]].inode = "dir"
    /\ d_lookup(dcache, ucur[u], n) = {}
    /\ IF SerialisedLookup
       THEN InLookup(dcache, ucur[u], n) = {}
       ELSE \A v \in Users : ~(upc[v] = "adding" /\ ucur[v] = ucur[u])
    /\ Room(dcache)
    /\ upc' = [upc EXCEPT ![u] = "adding"]
    /\ unew' = [unew EXCEPT ![u] = Fresh(dcache)]
    /\ dcache' = d_alloc(dcache, Fresh(dcache), ucur[u], n)
    /\ UNCHANGED <<initVars, ucur, f_op>>

\* A slip: the directory the walk leaves is put twice.
LookupAdd_PutTwice(u) ==
    /\ upc[u] = "adding"
    /\ dcache' = dput(dput(d_add(dcache, unew[u]), ucur[u]), ucur[u])
    /\ upc' = [upc EXCEPT ![u] = "at"]
    /\ ucur' = [ucur EXCEPT ![u] = unew[u]]
    /\ unew' = [unew EXCEPT ![u] = Null]
    /\ UNCHANGED <<initVars, f_op>>

\* A slip: the walk keeps its reference on the directory it leaves.
LookupAdd_KeepParent(u) ==
    /\ upc[u] = "adding"
    /\ dcache' = d_add(dcache, unew[u])
    /\ upc' = [upc EXCEPT ![u] = "at"]
    /\ ucur' = [ucur EXCEPT ![u] = unew[u]]
    /\ unew' = [unew EXCEPT ![u] = Null]
    /\ UNCHANGED <<initVars, f_op>>

\* A slip: the walk moves on, but the dentry is never added.
LookupAdd_NotAdded(u) ==
    /\ upc[u] = "adding"
    /\ dcache' = dput(dcache, ucur[u])
    /\ upc' = [upc EXCEPT ![u] = "at"]
    /\ ucur' = [ucur EXCEPT ![u] = unew[u]]
    /\ unew' = [unew EXCEPT ![u] = Null]
    /\ UNCHANGED <<initVars, f_op>>

\* ... adds it, and the walk moves on to it.
LookupAdd(u) ==
    /\ upc[u] = "adding"
    /\ dcache' = dput(d_add(dcache, unew[u]), ucur[u])
    /\ upc' = [upc EXCEPT ![u] = "at"]
    /\ ucur' = [ucur EXCEPT ![u] = unew[u]]
    /\ unew' = [unew EXCEPT ![u] = Null]
    /\ UNCHANGED <<initVars, f_op>>

\* __dentry_open takes over the operations the inode has now.
OpenFile(u) ==
    /\ upc[u] = "at"
    /\ dcache[ucur[u]].inode = "reg"
    /\ DefaultFopsOpen \/ dcache[ucur[u]].i_fop # "default"
    /\ upc' = [upc EXCEPT ![u] = "open"]
    /\ f_op' = [f_op EXCEPT ![u] = dcache[ucur[u]].i_fop]
    /\ UNCHANGED <<dcache, initVars, ucur, unew>>

\* The walk ends (at a negative dentry, with ENOENT; at a file that cannot be
\* opened; anywhere it was meant to end; for lack of memory) or the file is
\* closed.
Release(u) ==
    /\ upc[u] \in {"at", "open"}
    /\ dcache' = dput(dcache, ucur[u])
    /\ upc' = [upc EXCEPT ![u] = "idle"]
    /\ ucur' = [ucur EXCEPT ![u] = Null]
    /\ f_op' = [f_op EXCEPT ![u] = "none"]
    /\ UNCHANGED <<initVars, unew>>

-----------------------------------------------------------------------------
\* simple_fill_super has made the root, referred to by s_root and, the first
\* mount being done, by its mnt_root.
simple_fill_super ==
    [d \in Dentries |->
        IF d = Root
        THEN [state |-> "new", name |-> NoName, parent |-> Null, count |-> 2,
              inode |-> "dir", i_fop |-> "dir", nlink |-> RootNlink]
        ELSE FreeDentry]

\* kern_mount is done.
TreeInit ==
    /\ dcache = simple_fill_super
    /\ tpc = "lookup"
    /\ step = 1
    /\ pslot = Null
    /\ found = [i \in Steps |-> Null]
    /\ created = [i \in Steps |-> Null]
    /\ upc = [u \in Users |-> "idle"]
    /\ ucur = [u \in Users |-> Null]
    /\ unew = [u \in Users |-> Null]
    /\ f_op = [u \in Users |-> "none"]

InitThread ==
    \/ lookup_one_len_hit \/ lookup_one_len_miss \/ lookup_one_len_add
    \/ d_alloc_parallel_join \/ d_wait_lookup
    \/ aufs_mknod_fail \/ aufs_mknod \/ aufs_create_file_finish

WalkerStep(u) ==
    \/ WalkStart(u)
    \/ \E n \in Names : LookupHit(u, n) \/ LookupMiss(u, n)
    \/ LookupAdd(u) \/ OpenFile(u) \/ Release(u)

TreeNext ==
    \/ InitThread
    \/ aufs_exit_kill
    \/ \E u \in Users : WalkerStep(u)

TreeSpec == TreeInit /\ [][TreeNext]_treeVars

\* The thread of insmod runs, and so does a lookup that has begun; neither
\* waits for anything but the other's lookup of the same name.
TreeFairSpec == TreeSpec /\ WF_treeVars(InitThread) /\ \A u \in Users : WF_treeVars(LookupAdd(u))
-----------------------------------------------------------------------------
(***************************************************************************)
(* Properties.                                                             *)
(***************************************************************************)

Used     == {d \in Dentries : dcache[d].state # "free"}
Subdirs(p) == {c \in Used : dcache[c].parent = p /\ dcache[c].inode = "dir"}

\* The last aufs_create_dir call up to call i, if there is one.
LastDir(i) ==
    {j \in 1..i : /\ Script[j].kind = "dir"
                  /\ \A k \in (j + 1)..i : Script[k].kind # "dir"}

\* Whatever lookups of users and of aufs_init cross each other, d_count is the
\* number of references that exist: from children, from walks and open files,
\* from lookups under way, the one lookup_one_len left behind in each call
\* and the one of aufs_mknod (node.h:56), which pins a created entry.
RefsAccounted ==
    tpc # "killed" =>
        \A d \in Used :
            dcache[d].count =
                  Cardinality({c \in Used : dcache[c].parent = d})
                + Cardinality({u \in Users : ucur[u] = d})
                + Cardinality({u \in Users : unew[u] = d})
                + Cardinality({i \in Steps : found[i] = d})
                + (CASE d = Root -> 2
                     [] d # Root /\ dcache[d].inode # "none" -> 1
                     [] OTHER -> 0)

\* Nobody holds a dentry that has been freed: not aufs_init between its lookup
\* and aufs_mknod, nor through pslot two calls later, nor a user, nor a child.
NoDanglingDentry ==
    tpc # "killed" =>
        /\ \A u \in Users : {ucur[u], unew[u]} \subseteq Used \cup {Null}
        /\ \A i \in Steps : {found[i], created[i]} \subseteq Used \cup {Null}
        /\ pslot \in Used \cup {Null}
        /\ \A d \in Used \ {Root} :
                dcache[d].parent \in Used /\ dcache[dcache[d].parent].inode = "dir"

\* A name is in the cache once, so that a walk cannot meet a negative dentry
\* in place of a file that exists.  The cache relies on the parent being locked
\* for it (namei.c:1057, "needs parent already locked"); dentry.h:27 does not
\* lock it.
OneDentryPerName ==
    \A d, e \in Used :
        /\ dcache[d].state = "hashed" /\ dcache[e].state = "hashed"
        /\ dcache[d].parent = dcache[e].parent
        /\ dcache[d].name = dcache[e].name
        => d = e

\* An entry that is in a folder of aufs_init is in the one of the last
\* aufs_create_dir call before it: whichever calls failed (aufs.c:42-50, pslot),
\* no file goes to the folder of an earlier call.
InNoOtherFolder ==
    tpc # "killed" =>
        \A i, j \in Steps :
            created[i] # Null /\ created[j] # Null /\ dcache[created[i]].parent = created[j]
                => j \in LastDir(i)

\* aufs.c:43 says that the files are created in the corresponding folder: a
\* file that was created is in the folder of its group.
FilesInTheirFolder ==
    tpc # "killed" =>
        \A i \in Steps :
            Script[i].kind = "reg" /\ created[i] # Null =>
                \E j \in LastDir(i) :
                    created[j] # Null /\ dcache[created[i]].parent = created[j]

\* The link count of a directory is right on every path of aufs_mkdir, except
\* that aufs_mknod has already published the child before the parent counts it
\* (node.h:67-69): a user may see a count that is one behind.
NlinkCounts ==
    tpc # "killed" =>
        \A p \in Used :
            dcache[p].inode = "dir" =>
                LET late == {c \in Subdirs(p) : tpc = "finish" /\ c = lk}
                IN  dcache[p].nlink + Cardinality(late)
                        = (IF p = Root THEN RootNlink ELSE 2) + Cardinality(Subdirs(p))

\* An open file has the operations meant for it (aufs.c:10), although they
\* are set after the inode has become visible (file.h:39-44).
OpenFilesUseAufsOps == \A u \in Users : upc[u] = "open" => f_op[u] = "aufs"

\* Only in that window: any open that does not fall between aufs_mknod and the
\* return of the call that creates the very file, be other calls still to come,
\* failed or dead, gets the operations of aufs.
OpensGetAufsOps ==
    [][\A u \in Users :
        upc[u] # "open" /\ upc'[u] = "open" =>
            f_op'[u] = "aufs" \/ (tpc = "finish" /\ ucur[u] = lk)]_treeVars

\* generic_shutdown_super says that dentries and inodes are taken care of
\* (super.c:222): once the super block is killed, none is left.
UnmountFreesTree == tpc = "killed" => Used = {}

\* What exists stays: until the super block is killed no step frees, renames,
\* moves or replaces an entry that has got its inode, whoever drops which
\* reference.
CreatedStays ==
    [][tpc' # "killed" =>
        \A d \in Used :
            dcache[d].inode # "none" =>
                /\ dcache'[d].state = dcache[d].state
                /\ dcache'[d].name = dcache[d].name
                /\ dcache'[d].parent = dcache[d].parent
                /\ dcache'[d].inode = dcache[d].inode]_treeVars

\* aufs_init gets through its calls, or dies in one, even where its lookup
\* has to wait for a user's lookup of the same name.
CreationEnds == <>(tpc \in {"done", "oops", "killed"})

\* Every regular file that has become visible gets its operations.
FileOpsAssigned ==
    \A d \in Dentries :
        (dcache[d].inode = "reg") ~> (dcache[d].i_fop = "aufs" \/ tpc = "killed")

-----------------------------------------------------------------------------
(***************************************************************************)
(* The dentry cache, where lookups of a name are serialised, is the tree   *)
(* of Directory: no user can tell that aufs_create_by_name takes no lock.  *)
(***************************************************************************)

PathOf(d) ==
    IF d = Root THEN <<NoName, NoName>>
    ELSE <<dcache[dcache[d].parent].name, dcache[d].name>>

EntryAt(p) ==
    LET here == {d \in Used : dcache[d].inode # "none" /\ PathOf(d) = p}
    IN  IF here = {} \/ tpc = "killed" THEN "none"
        ELSE dcache[CHOOSE d \in here : TRUE].inode

Dir == INSTANCE Directory WITH
        Nowhere <- <<>>,
        tree <- [p \in {<<NoName, NoName>>} \cup ((Names \cup {NoName}) \X Names)
                    |-> EntryAt(p)],
        at   <- [u \in Users |-> IF ucur[u] = Null THEN <<>> ELSE PathOf(ucur[u])],
        sees <- [u \in Users |-> IF ucur[u] = Null THEN "none" ELSE dcache[ucur[u]].inode]

\* However users' lookups, which hit, miss or join others, cross those of
\* aufs_init (dentry.h 27-33), every walk finds what exists at one moment of
\* its lookup: never a missing entry in place of one that is there, and an entry
\* created where a user waits appears to that user too.
ImplementsDirectory == Dir!Spec
=============================================================================
