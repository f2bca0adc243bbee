-------------------------- MODULE AufsSystemProofs --------------------------
(***************************************************************************)
(* The whole system: the tree that AufsTreeProofs is about lives exactly   *)
(* as long as the super block of AufsModuleProofs, so its processes stand  *)
(* firm; and with the tree built call by call and walked name by name,     *)
(* everything proved of the module's life cycle still holds.               *)
(***************************************************************************)
EXTENDS AufsSystem, AufsModuleRefinement, AufsTreeProofs

-----------------------------------------------------------------------------
(***************************************************************************)
(* The inductive invariant.                                                *)
(***************************************************************************)

NoFile(dc) == \A d \in Dentries : dc[d].inode # "reg"

\* A process in the file system is on a mount, one that is not holds nothing,
\* and AufsModule knows of its file exactly while that is open, and before that
\* of the file it is about to open for writing.
UserInv(u) ==
    /\ upc[u] # "idle" => at[u] \in MountPoints /\ mounted[at[u]] # 0
    /\ upc[u] = "idle" => at[u] = NoMount /\ ucur[u] = Null /\ unew[u] = Null
    /\ upc[u] = "open" => file[u] = at[u]
    /\ upc[u] # "open" => file[u] = NoMount /\ f_op[u] = "none" /\ u \notin writing
    /\ opening[u] # NoMount => opening[u] = at[u] /\ upc[u] = "at"

\* There is one super block at most, that of the last load.
OneTree == \A g \in Gens : s_active[g] > 0 => g = gen

\* While it exists, the references on the root are those s_active counts, and
\* it has no file before aufs_init begins to create them.
LiveTree ==
    TreeExists =>
        /\ \A k \in Nat : k = s_active[gen] => TreeInv(k)
        /\ NoFile(dcache) \/ MayHaveFiles(gen)

\* aufs_init has returned, so all its calls have.
Ready == mod = "live" /\ aufs_mount = "MNT" => tpc = "done"

AtType == at \in [Users -> MountPoints \cup {NoMount}]

SystemInv ==
    /\ ModuleInv
    /\ TreeTypeOK
    /\ AtType
    /\ \A u \in Users : UserInv(u)
    /\ OneTree
    /\ LiveTree
    /\ Ready

\* What it says beyond the state of the module.
Rest == TreeTypeOK /\ AtType /\ (\A u \in Users : UserInv(u)) /\ OneTree /\ LiveTree /\ Ready

\* Whoever is on a mount keeps the tree.
LEMMA MountedLives ==
    ASSUME ModuleInv, NEW m \in MountPoints, mounted[m] # 0
    PROVE  mounted[m] \in Gens /\ s_active[mounted[m]] > 0
<1>1. mounted[m] \in Gens
    BY MaxGenAssumption DEF ModuleInv, TypeOK, Gens, GenOrNo
<1>2. HoldersOf(mounted[m]) # {}
    BY DEF HoldersOf, MountsOf
<1> QED
    BY <1>1, <1>2, ActiveIffHeld DEF HeldInv

\* ... and so does aufs_init.
LEMMA KernelLives ==
    ASSUME ModuleInv, KernHolds(gen), gen \in Gens
    PROVE  s_active[gen] > 0 /\ TreeExists
<1>1. HoldersOf(gen) # {}
    BY DEF HoldersOf
<1> QED
    BY <1>1, ActiveIffHeld DEF HeldInv, TreeExists

LEMMA TreeOfSystem ==
    ASSUME SystemInv, TreeExists
    PROVE  /\ gen \in Gens
           /\ s_active[gen] > 0
           /\ \E k \in Nat : k = s_active[gen] /\ TreeInv(k)
<1>1. gen \in Gens /\ s_active[gen] > 0
    BY DEF SystemInv, OneTree, TreeExists
<1>2. s_active[gen] \in Nat
    BY <1>1 DEF SystemInv, ModuleInv, TypeOK
<1> QED
    BY <1>1, <1>2 DEF SystemInv, LiveTree

LEMMA UserInTree ==
    ASSUME SystemInv, NEW u \in Users, upc[u] # "idle"
    PROVE  /\ at[u] \in MountPoints
           /\ mounted[at[u]] = gen
           /\ s_active[gen] > 0
           /\ gen \in Gens
           /\ TreeExists
           /\ ucur[u] \in Dentries
<1>1. at[u] \in MountPoints /\ mounted[at[u]] # 0
    BY DEF SystemInv, UserInv
<1>2. mounted[at[u]] \in Gens /\ s_active[mounted[at[u]]] > 0
    BY <1>1, MountedLives DEF SystemInv
<1>3. mounted[at[u]] = gen /\ TreeExists
    BY <1>2 DEF SystemInv, OneTree, TreeExists
<1>4. PICK k \in Nat : TreeInv(k)
    BY <1>3, TreeOfSystem
<1>5. ucur[u] \in Dentries
    BY <1>4 DEF TreeInv, FrameType, WalkInv
<1> QED
    BY <1>1, <1>2, <1>3, <1>5

-----------------------------------------------------------------------------
(***************************************************************************)
(* Every step is one of AufsModule, or none.                               *)
(***************************************************************************)

\* Following a file's operations is what AufsModule says of it.
LEMMA FollowIsTouch ==
    ASSUME fault \in BOOLEAN, NEW u, NEW op, FollowFop(u, op)
    PROVE  /\ TouchOps(mounted[at[u]])
           /\ op # "aufs" => UNCHANGED fault
           /\ fault' \in BOOLEAN
<1>1. CASE op = "aufs"
    BY <1>1, Zenon DEF FollowFop, TouchOps, Touch
<1>2. CASE op # "aufs"
    <2>1. fault' = (fault \/ FALSE)
        BY <1>2, Zenon DEF FollowFop
    <2>2. fault' = fault
        BY <2>1, Zenon
    <2> QED
        BY <1>2, <2>2, Zenon DEF TouchOps
<1> QED
    BY <1>1, <1>2

LEMMA OpenIsOpen ==
    ASSUME SystemInv, NEW u \in Users, NEW write \in BOOLEAN, OpenFound(u, write)
    PROVE  Open(u, at[u], write)
<1>1. upc[u] = "at" /\ dcache[ucur[u]].inode = "reg"
    BY DEF OpenFound, OpenFile
<1>2. /\ at[u] \in MountPoints
      /\ mounted[at[u]] = gen
      /\ gen \in Gens
      /\ TreeExists
      /\ ucur[u] \in Dentries
    BY <1>1, UserInTree
<1>3. MayHaveFiles(gen)
    BY <1>1, <1>2 DEF SystemInv, LiveTree, NoFile
<1>4. file[u] = NoMount
    BY <1>1 DEF SystemInv, UserInv
<1>5. fault \in BOOLEAN
    BY DEF SystemInv, ModuleInv, TypeOK
<1>6. TouchOps(mounted[at[u]])
    BY <1>5, FollowIsTouch DEF OpenFound
<1>7. gen # 0
    BY <1>2 DEF Gens
<1> QED
    BY <1>2, <1>3, <1>4, <1>6, <1>7 DEF OpenFound, Open, mountVars

LEMMA AccessIsAccess ==
    ASSUME SystemInv, NEW u \in Users, AccessFile(u)
    PROVE  Access(u)
<1>1. fault \in BOOLEAN
    BY DEF SystemInv, ModuleInv, TypeOK
<1>2. TouchOps(mounted[at[u]])
    BY <1>1, FollowIsTouch DEF AccessFile
<1>3. file[u] = at[u] /\ at[u] \in MountPoints
    BY DEF AccessFile, SystemInv, UserInv
<1> QED
    BY <1>2, <1>3, NoMountAssumption DEF AccessFile, Access

\* The end of a walk that opened nothing is the failure of an open, or not seen.
LEMMA LeaveIsClose ==
    ASSUME SystemInv, NEW u \in Users, Leave(u)
    PROVE  Close(u) \/ OpenFails(u) \/ UNCHANGED vars
<1>1. /\ fault \in BOOLEAN /\ file \in [Files -> MountPoints \cup {NoMount}]
      /\ opening \in [Files -> MountPoints \cup {NoMount}]
    BY DEF SystemInv, ModuleInv, TypeOK
<1>2. TouchOps(mounted[at[u]]) /\ (f_op[u] # "aufs" => UNCHANGED fault)
    BY <1>1, FollowIsTouch DEF Leave
<1>3. CASE upc[u] = "open"
    <2>1. file[u] = at[u] /\ at[u] \in MountPoints /\ opening[u] = NoMount
        BY <1>3 DEF SystemInv, UserInv
    <2>2. opening' = opening
        BY <1>1, <2>1 DEF Leave
    <2> QED
        BY <1>2, <2>1, <2>2, NoMountAssumption DEF Leave, Close, mountVars
<1>4. CASE upc[u] # "open"
    <2>1. file[u] = NoMount /\ f_op[u] = "none" /\ u \notin writing
        BY <1>4 DEF SystemInv, UserInv
    <2>2. file' = file /\ writing' = writing /\ fault' = fault
        BY <1>1, <1>2, <2>1 DEF Leave
    <2>3. CASE opening[u] = NoMount
        <3>1. opening' = opening
            BY <1>1, <2>3 DEF Leave
        <3> QED
            BY <2>2, <3>1 DEF Leave, vars, userVars, fileVars, mountVars
    <2>4. CASE opening[u] # NoMount
        BY <2>2, <2>4 DEF Leave, OpenFails, mountVars
    <2> QED
        BY <2>3, <2>4
<1> QED
    BY <1>3, <1>4

LEMMA SystemStepIsModuleStep ==
    SystemInv /\ [SystemNext]_systemVars => [Next]_vars
<1> SUFFICES ASSUME SystemInv, [SystemNext]_systemVars PROVE [Next]_vars
    OBVIOUS
<1>1. CASE LoadModule \/ UnloadModule
    BY <1>1 DEF LoadModule, UnloadModule, Next
<1>2. CASE LoaderThread
    <2>1. CASE aufs_init_create
        BY <2>1 DEF aufs_init_create
    <2>2. CASE ModuleOnly \/ MountKernel \/ aufs_init_return \/ UnmountKernel
        BY <2>2 DEF ModuleOnly, MountKernel, aufs_init_return, UnmountKernel,
                    Next, ModuleThread
    <2> QED
        BY <1>2, <2>1, <2>2 DEF LoaderThread
<1>3. CASE UsersStep
    <2>1. ASSUME NEW m \in MountPoints, StartMount(m) \/ Unmount(m)
          PROVE  Next
        BY <2>1 DEF StartMount, Unmount, Next, UserStep
    <2>2. ASSUME NEW m \in MountPoints, NEW ro \in BOOLEAN, FinishMount(m, ro)
          PROVE  Next
        BY <2>2 DEF FinishMount, Next, UserStep
    <2>3. ASSUME NEW u \in Users, NEW m \in MountPoints, EnterMount(u, m)
          PROVE  UNCHANGED vars
        BY <2>3 DEF EnterMount
    <2>4. ASSUME NEW u \in Users, NEW write \in BOOLEAN, OpenFound(u, write)
          PROVE  Next
        <3>1. upc[u] # "idle"
            BY <2>4 DEF OpenFound, OpenFile
        <3>2. at[u] \in MountPoints
            BY <3>1, UserInTree
        <3>3. Open(u, at[u], write)
            BY <2>4, OpenIsOpen
        <3>4. ASSUME NEW m \in MountPoints, m = at[u] PROVE Next
            BY <3>3, <3>4, DescriptorAssumption DEF Next, UserStep
        <3> QED
            BY <3>2, <3>4
    <2>5. ASSUME NEW u \in Users, Lookup(u) \/ FinishLookup(u)
          PROVE  UNCHANGED vars
        BY <2>5 DEF Lookup, FinishLookup
    <2>6. ASSUME NEW u \in Users, AccessFile(u)
          PROVE  Next
        BY <2>6, AccessIsAccess, DescriptorAssumption DEF Next, UserStep
    <2>7. ASSUME NEW u \in Users, Leave(u)
          PROVE  [Next]_vars
        BY <2>7, LeaveIsClose, DescriptorAssumption DEF Next, UserStep
    <2>8. ASSUME NEW u \in Users, CheckWrite(u)
          PROVE  Next
        <3>1. may_open(u, at[u]) /\ upc[u] # "idle"
            BY <2>8 DEF CheckWrite
        <3>2. at[u] \in MountPoints
            BY <3>1, UserInTree
        <3>3. ASSUME NEW m \in MountPoints, m = at[u] PROVE Next
            BY <3>1, <3>3, DescriptorAssumption DEF Next, UserStep
        <3> QED
            BY <3>2, <3>3
    <2> QED
        BY <1>3, <2>1, <2>2, <2>3, <2>4, <2>5, <2>6, <2>7, <2>8 DEF UsersStep
<1>4. CASE UNCHANGED systemVars
    BY <1>4 DEF systemVars
<1> QED
    BY <1>1, <1>2, <1>3, <1>4 DEF SystemNext

-----------------------------------------------------------------------------
(***************************************************************************)
(* The invariant is kept.                                                  *)
(***************************************************************************)

LEMMA SystemInitInv == SystemInit => SystemInv
<1> SUFFICES ASSUME SystemInit PROVE SystemInv
    OBVIOUS
<1>1. ModuleInv
    BY ModuleInit DEF SystemInit
<1>2. TreeTypeOK
  <2>1. FreeDentry \in Dentry
    BY DEF FreeDentry, Dentry
  <2>2. 1 \in 1..(Len(Script) + 1)
    BY ConstantFacts
  <2> QED
    BY <2>1, <2>2 DEF SystemInit, TreeTypeOK
<1>3. AtType /\ \A u \in Users : UserInv(u)
    BY DescriptorAssumption DEF SystemInit, Init, UserInv, AtType
<1>4. ~TreeExists /\ OneTree /\ Ready
    BY DEF SystemInit, Init, TreeExists, OneTree, Ready
<1> QED
    BY <1>1, <1>2, <1>3, <1>4 DEF SystemInv, LiveTree

\* The tree is left alone.
LEMMA TreeStill ==
    ASSUME NEW k \in Nat, TreeInv(k), UNCHANGED <<dcache, initVars, walkVars>>
    PROVE  TreeInv(k)'
<1>1. Ext(k)' = Ext(k)
    BY DEF Ext, initVars, walkVars
<1>2. Cached(dcache', Ext(k)') /\ \A e \in Dentries : Keeps(dcache, dcache', e)
    BY <1>1, HeldFacts DEF Keeps
<1> QED
    BY <1>2, RootFrame

\* Nobody's walk is touched, nor a mount somebody is on.
LEMMA UsersKeep ==
    ASSUME SystemInv, UNCHANGED <<walkVars, at, opening, file, writing>>,
           \A u \in Users : at[u] \in MountPoints /\ mounted[at[u]] # 0 => mounted'[at[u]] # 0
    PROVE  AtType' /\ \A u \in Users : UserInv(u)'
<1>1. AtType'
    BY DEF SystemInv, AtType
<1>2. ASSUME NEW u \in Users PROVE UserInv(u)'
    BY DEF SystemInv, UserInv, walkVars
<1> QED
    BY <1>1, <1>2

\* The super blocks are left alone.
LEMMA LiveKept ==
    ASSUME SystemInv, UNCHANGED <<gen, s_active>>,
           TreeExists =>
                /\ \A k \in Nat : TreeInv(k) => TreeInv(k)'
                /\ NoFile(dcache) => NoFile(dcache') \/ MayHaveFiles(gen)'
                /\ MayHaveFiles(gen) => MayHaveFiles(gen)'
    PROVE  OneTree' /\ LiveTree'
<1>1. OneTree' /\ (TreeExists' <=> TreeExists)
    BY DEF SystemInv, OneTree, TreeExists
<1>2. ASSUME TreeExists
      PROVE  /\ \A k \in Nat : k = s_active'[gen'] => TreeInv(k)'
             /\ NoFile(dcache') \/ MayHaveFiles(gen)'
    BY <1>2 DEF SystemInv, LiveTree
<1> QED
    BY <1>1, <1>2 DEF LiveTree, NoFile

\* The tree and the super blocks are left alone.
LEMMA AllStill ==
    ASSUME SystemInv, UNCHANGED <<gen, s_active, dcache, initVars, walkVars>>,
           MayHaveFiles(gen) => MayHaveFiles(gen)'
    PROVE  TreeTypeOK' /\ OneTree' /\ LiveTree'
<1>1. TreeTypeOK'
    BY DEF SystemInv, TreeTypeOK, initVars, walkVars
<1>2. \A k \in Nat : TreeInv(k) => TreeInv(k)'
    BY TreeStill
<1> QED
    BY <1>1, <1>2, LiveKept

\* A mount takes the tree that is there, or makes an empty one.
LEMMA AcquireKeeps ==
    ASSUME SystemInv, gen \in Gens, UNCHANGED <<gen, walkVars>>, AcquireTree,
           s_active' = [s_active EXCEPT ![gen] = @ + 1],
           populated[gen] /\ s_active[gen] > 0 => populated'[gen],
           pc \in {"populate", "oops"} => UNCHANGED pc
    PROVE  TreeTypeOK' /\ OneTree' /\ LiveTree'
<1>1. s_active \in [Gens -> Nat] /\ s_active[gen] \in Nat
    BY DEF SystemInv, ModuleInv, TypeOK
<1>2. OneTree' /\ s_active'[gen'] = s_active[gen] + 1
    BY <1>1 DEF SystemInv, OneTree
<1>3. CASE TreeExists
  <2>1. s_active[gen] > 0
    BY <1>3, TreeOfSystem
  <2>2. PICK k \in Nat : k = s_active[gen] /\ TreeInv(k)
    BY <1>3, TreeOfSystem
  <2>3. dcache' = dget(dcache, Root) /\ UNCHANGED <<initVars, walkVars>>
    BY <1>3 DEF AcquireTree
  <2>4. TreeInv(k + 1)' /\ k + 1 \in Nat /\ s_active'[gen'] = k + 1
    BY <1>2, <2>2, <2>3, RootGetInv
  <2>5. TreeTypeOK'
    BY <2>4 DEF TreeInv, FrameType, Shape, TreeTypeOK
  <2>6. \A e \in Dentries : dcache'[e].inode = dcache[e].inode
    BY <2>2, <2>3, ConstantFacts, DgetEffect DEF TreeInv, Shape, Keeps
  <2>7. MayHaveFiles(gen) => MayHaveFiles(gen)'
    BY <2>1 DEF MayHaveFiles
  <2>8. NoFile(dcache') \/ MayHaveFiles(gen)'
    BY <1>3, <2>6, <2>7 DEF SystemInv, LiveTree, NoFile
  <2>9. \A j \in Nat : j = s_active'[gen'] => TreeInv(j)'
    BY <2>4
  <2> QED
    BY <1>2, <2>5, <2>8, <2>9 DEF LiveTree, NoFile
<1>4. CASE ~TreeExists
  <2>1. /\ dcache' = simple_fill_super /\ tpc' = "lookup" /\ step' = 1 /\ pslot' = Null
        /\ found' = [i \in Steps |-> Null] /\ created' = [i \in Steps |-> Null]
    BY <1>4 DEF AcquireTree
  <2>2. \A u \in Users : upc[u] = "idle" /\ ucur[u] = Null /\ unew[u] = Null /\ f_op[u] = "none"
    <3>1. \A u \in Users : upc[u] = "idle"
        BY <1>4, UserInTree
    <3> QED
        BY <3>1 DEF SystemInv, UserInv
  <2>3. /\ upc' = [u \in Users |-> "idle"] /\ ucur' = [u \in Users |-> Null]
        /\ unew' = [u \in Users |-> Null] /\ f_op' = [u \in Users |-> "none"]
    BY <2>2 DEF SystemInv, TreeTypeOK, walkVars
  <2>4. TreeInit'
    BY <2>1, <2>3 DEF TreeInit
  <2>5. TreeInit' => TreeInv(1)'
    BY InitInv, PTL
  <2>6. TreeInv(1)' /\ s_active'[gen'] = 1
    BY <1>1, <1>2, <1>4, <2>4, <2>5 DEF TreeExists
  <2>7. TreeTypeOK'
    BY <2>6 DEF TreeInv, FrameType, Shape, TreeTypeOK
  <2>8. NoFile(dcache')
    BY <2>1 DEF NoFile, simple_fill_super, FreeDentry
  <2>9. \A j \in Nat : j = s_active'[gen'] => TreeInv(j)'
    BY <2>6
  <2> QED
    BY <1>2, <2>7, <2>8, <2>9 DEF LiveTree, NoFile
<1> QED
    BY <1>3, <1>4

\* An unmount leaves the tree to the others, or destroys it.
LEMMA ReleaseKeeps ==
    ASSUME SystemInv, gen \in Gens, s_active[gen] > 0,
           UNCHANGED <<gen, populated, walkVars>>, ReleaseTree(gen),
           s_active' = [s_active EXCEPT ![gen] = @ - 1],
           pc \in {"populate", "oops"} => UNCHANGED pc
    PROVE  TreeTypeOK' /\ OneTree' /\ LiveTree'
<1>1. s_active \in [Gens -> Nat] /\ s_active[gen] \in Nat
    BY DEF SystemInv, ModuleInv, TypeOK
<1>2. OneTree' /\ s_active'[gen'] = s_active[gen] - 1
    BY <1>1 DEF SystemInv, OneTree
<1>3. TreeExists /\ UNCHANGED initVars
    BY DEF TreeExists, ReleaseTree
<1>4. PICK k \in Nat : k + 1 = s_active[gen] /\ TreeInv(k + 1)
  <2>1. PICK j \in Nat : j = s_active[gen] /\ TreeInv(j)
    BY <1>3, TreeOfSystem
  <2>2. j - 1 \in Nat /\ (j - 1) + 1 = j
    BY <2>1
  <2> QED
    BY <2>1, <2>2
<1>5. CASE s_active[gen] = 1
  <2>1. ~TreeExists'
    BY <1>1, <1>2, <1>5 DEF OneTree, TreeExists
  <2>2. dcache' = kill_litter_super(dcache)
    BY <1>5 DEF ReleaseTree
  <2>3. dcache' \in [Dentries -> Dentry]
    BY <1>4, <2>2, UsedAreHeld, KillFacts
  <2>4. TreeTypeOK'
    BY <1>3, <2>3 DEF SystemInv, TreeTypeOK, initVars, walkVars
  <2> QED
    BY <1>2, <2>1, <2>4 DEF LiveTree
<1>6. CASE s_active[gen] # 1
  <2>1. dcache' = [dcache EXCEPT ![Root].count = @ - 1]
    BY <1>6 DEF ReleaseTree
  <2>2. TreeInv(k)' /\ s_active'[gen'] = k
    BY <1>2, <1>3, <1>4, <2>1, RootPutInv
  <2>3. TreeTypeOK'
    BY <2>2 DEF TreeInv, FrameType, Shape, TreeTypeOK
  <2>4. \A e \in Dentries : dcache'[e].inode = dcache[e].inode
    <3>1. dcache \in [Dentries -> Dentry]
        BY DEF SystemInv, TreeTypeOK
    <3> QED
        BY <2>1, <3>1 DEF Dentry
  <2>5. MayHaveFiles(gen) => MayHaveFiles(gen)'
    BY DEF MayHaveFiles
  <2>6. NoFile(dcache') \/ MayHaveFiles(gen)'
    BY <1>3, <2>4, <2>5 DEF SystemInv, LiveTree, NoFile
  <2>7. \A j \in Nat : j = s_active'[gen'] => TreeInv(j)'
    BY <2>2
  <2> QED
    BY <1>2, <2>3, <2>6, <2>7 DEF LiveTree, NoFile
<1> QED
    BY <1>5, <1>6

\* The thread of insmod and rmmod.
LEMMA LoaderKeeps ==
    ASSUME SystemInv, LoadModule \/ UnloadModule \/ LoaderThread
    PROVE  Rest'
<1>0. UNCHANGED <<walkVars, at, opening, file, writing, mounted>> => AtType' /\ \A u \in Users : UserInv(u)'
    BY UsersKeep
<1>1. PhaseInv /\ TypeOK
    BY DEF SystemInv, ModuleInv
<1>2. CASE LoadModule
  <2>1. UNCHANGED <<walkVars, at, dcache, initVars, opening, file, writing, mounted, s_active>> /\ ~TreeExists
    BY <1>2 DEF LoadModule, Insmod, treeVars, sbVars, userVars, fileVars
  <2>2. ~TreeExists' /\ OneTree'
    BY <2>1 DEF TreeExists, OneTree
  <2>3. TreeTypeOK'
    BY <2>1 DEF SystemInv, TreeTypeOK, initVars, walkVars
  <2>4. Ready'
    BY <1>2 DEF LoadModule, Insmod, Ready
  <2> QED
    BY <1>0, <2>1, <2>2, <2>3, <2>4 DEF Rest, LiveTree
<1>3. CASE UnloadModule \/ ModuleOnly
  <2>1. /\ UNCHANGED <<walkVars, at, opening, file, writing, mounted>>
        /\ UNCHANGED <<gen, s_active, dcache, initVars, populated>>
        /\ pc \notin {"populate", "oops"}
    BY <1>1, <1>3 DEF UnloadModule, Rmmod, ModuleOnly, aufs_init_register,
        aufs_init_unwind, aufs_exit_unregister, FreeModule, PhaseInv,
        treeVars, sbVars, userVars, fileVars
  <2>2. MayHaveFiles(gen) => MayHaveFiles(gen)'
    BY <2>1 DEF MayHaveFiles
  <2>3. ~(mod' = "live" /\ aufs_mount' = "MNT")
    BY <1>1, <1>3 DEF UnloadModule, Rmmod, ModuleOnly, aufs_init_register,
        aufs_init_unwind, aufs_exit_unregister, FreeModule, PhaseInv
  <2> QED
    BY <1>0, <2>1, <2>2, <2>3, AllStill DEF Rest, Ready
<1>4. CASE aufs_init_return
  <2>1. /\ UNCHANGED <<walkVars, at, opening, file, writing, mounted>>
        /\ UNCHANGED <<gen, s_active, dcache, initVars>>
        /\ pc = "populate"
        /\ populated' = [populated EXCEPT ![gen] = TRUE] \/ pc' = "oops"
        /\ tpc \in {"done", "oops"} /\ (pc' = "oops" <=> tpc = "oops")
        /\ pc' = "oops" => UNCHANGED mod
    BY <1>4 DEF aufs_init_return, aufs_init_populate, treeVars, userVars, fileVars
  <2>2. gen \in Gens /\ populated \in [Gens -> BOOLEAN]
    BY <1>1, <2>1 DEF TypeOK, PhaseInv
  <2>3. MayHaveFiles(gen)'
    BY <2>1, <2>2 DEF MayHaveFiles
  <2>4. Ready'
    BY <1>1, <2>1 DEF PhaseInv, Ready, initVars
  <2> QED
    BY <1>0, <2>1, <2>3, <2>4, AllStill DEF Rest
<1>5. CASE aufs_init_create
  <2>1. /\ UNCHANGED <<gen, pc, mod, s_active, populated, opening, file, writing, mounted, at>>
        /\ pc = "populate"
        /\ InitThread
    BY <1>5 DEF aufs_init_create, vars, modVars, sbVars, userVars, fileVars
  <2>2. UNCHANGED walkVars
    BY <2>1 DEF walkVars, InitThread, lookup_one_len_hit, lookup_one_len_miss,
        lookup_one_len_add, d_alloc_parallel_join, d_wait_lookup, aufs_mknod_fail,
        aufs_mknod, aufs_create_file_finish
  <2>3. MayHaveFiles(gen)' /\ Ready'
    BY <1>1, <2>1 DEF MayHaveFiles, Ready, PhaseInv
  <2>4. \A k \in Nat : TreeInv(k) => TreeInv(k)'
    BY <2>1, InitThreadInv
  <2>5. OneTree' /\ LiveTree'
    BY <2>1, <2>3, <2>4, LiveKept
  <2>6. TreeTypeOK'
    <3>1. KernHolds(gen) /\ gen \in Gens
        BY <1>1, <2>1 DEF PhaseInv, KernHolds
    <3>2. TreeExists
        BY <3>1, KernelLives DEF SystemInv
    <3>3. PICK k \in Nat : TreeInv(k)
        BY <3>2, TreeOfSystem
    <3>4. TreeInv(k)'
        BY <2>4, <3>3
    <3> QED
        BY <3>4 DEF TreeInv, FrameType, Shape, TreeTypeOK
  <2> QED
    BY <1>0, <2>1, <2>2, <2>3, <2>5, <2>6 DEF Rest
<1>6. CASE MountKernel
  <2>1. pc = "kern_mount" /\ gen \in Gens
    BY <1>1, <1>6 DEF MountKernel, aufs_init_kern_mount, PhaseInv
  <2>2. UNCHANGED <<walkVars, at, opening, file, writing, mounted, gen, mod>>
    BY <1>6 DEF MountKernel, aufs_init_kern_mount, userVars, fileVars
  <2>3. Ready'
    BY <1>1, <2>1, <2>2 DEF PhaseInv, Ready
  <2>4. CASE aufs_mount' = "MNT"
    <3>1. get_sb_single(gen, FALSE) /\ AcquireTree
        BY <1>6, <2>4 DEF MountKernel, aufs_init_kern_mount
    <3>2. s_active[gen] > 0 => populated' = populated
        BY <1>1, <2>1, <3>1, GetSb
    <3>3. TreeTypeOK' /\ OneTree' /\ LiveTree'
        BY <2>1, <2>2, <3>1, <3>2, AcquireKeeps DEF get_sb_single
    <3> QED
        BY <1>0, <2>2, <2>3, <3>3 DEF Rest
  <2>5. CASE aufs_mount' # "MNT"
    <3>1. UNCHANGED <<gen, s_active, dcache, initVars, populated>>
        BY <1>6, <2>5 DEF MountKernel, aufs_init_kern_mount, sbVars
    <3>2. MayHaveFiles(gen) => MayHaveFiles(gen)'
        BY <2>1, <3>1 DEF MayHaveFiles
    <3> QED
        BY <1>0, <2>2, <2>3, <3>1, <3>2, AllStill DEF Rest
  <2> QED
    BY <2>4, <2>5
<1>7. CASE UnmountKernel
  <2>1. pc = "kern_unmount" /\ gen \in Gens /\ mod = "going"
    BY <1>1, <1>7 DEF UnmountKernel, aufs_exit_kern_unmount, PhaseInv
  <2>2. UNCHANGED <<walkVars, at, opening, file, writing, mounted, gen, populated, mod>>
    BY <1>7 DEF UnmountKernel, aufs_exit_kern_unmount, deactivate_super,
                userVars, fileVars, sbVars
  <2>3. Ready'
    BY <2>1, <2>2 DEF Ready
  <2>4. CASE aufs_mount = "MNT"
    <3>1. s_active' = [s_active EXCEPT ![gen] = @ - 1] /\ ReleaseTree(gen)
        BY <1>7, <2>4 DEF UnmountKernel, aufs_exit_kern_unmount, deactivate_super
    <3>2. s_active[gen] > 0
        BY <2>1, <2>4, KernelLives DEF SystemInv, KernHolds
    <3>3. TreeTypeOK' /\ OneTree' /\ LiveTree'
        BY <2>1, <2>2, <3>1, <3>2, ReleaseKeeps
    <3> QED
        BY <1>0, <2>2, <2>3, <3>3 DEF Rest
  <2>5. CASE aufs_mount # "MNT"
    <3>1. UNCHANGED <<gen, s_active, dcache, initVars>>
        BY <1>7, <2>5 DEF UnmountKernel, aufs_exit_kern_unmount, sbVars
    <3>2. MayHaveFiles(gen) => MayHaveFiles(gen)'
        BY <2>1, <2>2 DEF MayHaveFiles
    <3> QED
        BY <1>0, <2>2, <2>3, <3>1, <3>2, AllStill DEF Rest
  <2> QED
    BY <2>4, <2>5
<1> QED
    BY <1>2, <1>3, <1>4, <1>5, <1>6, <1>7 DEF LoaderThread

\* Processes that mount and unmount.
LEMMA MountersKeep ==
    ASSUME SystemInv, NEW m \in MountPoints,
           \/ StartMount(m)
           \/ Unmount(m)
           \/ \E ro \in BOOLEAN : FinishMount(m, ro)
    PROVE  Rest'
<1>1. PhaseInv /\ TypeOK /\ MountInv
    BY DEF SystemInv, ModuleInv
<1>2. CASE StartMount(m)
  <2>1. /\ UNCHANGED <<walkVars, at, opening, file, writing, mounted, gen, pc, mod, aufs_mount>>
        /\ UNCHANGED <<s_active, dcache, initVars, populated>>
    BY <1>2 DEF StartMount, MountBegin, treeVars, sbVars, modVars, fileVars
  <2>2. MayHaveFiles(gen) => MayHaveFiles(gen)'
    BY <2>1 DEF MayHaveFiles
  <2>3. Ready'
    BY <2>1 DEF SystemInv, Ready, initVars
  <2> QED
    BY <2>1, <2>2, <2>3, AllStill, UsersKeep DEF Rest
<1>3. CASE Unmount(m)
  <2>1. /\ mounted[m] # 0
        /\ \A u \in Users : at[u] # m
        /\ mounted' = [mounted EXCEPT ![m] = 0]
        /\ deactivate_super(mounted[m])
        /\ ReleaseTree(mounted[m])
        /\ UNCHANGED <<walkVars, at, opening, file, writing, gen, pc, mod, aufs_mount>>
    BY <1>3 DEF Unmount, Umount, modVars, fileVars
  <2>2. mounted[m] = gen /\ gen \in Gens /\ s_active[gen] > 0
    BY <2>1, MountedLives DEF SystemInv, OneTree
  <2>3. TreeTypeOK' /\ OneTree' /\ LiveTree'
    BY <2>1, <2>2, ReleaseKeeps DEF deactivate_super
  <2>4. AtType' /\ \A u \in Users : UserInv(u)'
    BY <1>1, <2>1, UsersKeep DEF TypeOK
  <2>5. Ready'
    BY <2>1 DEF SystemInv, Ready, ReleaseTree, initVars
  <2> QED
    BY <2>3, <2>4, <2>5 DEF Rest
<1>4. ASSUME NEW ro \in BOOLEAN, FinishMount(m, ro) PROVE Rest'
  <2>1. /\ getting[m] # 0
        /\ mounted[m] = 0
        /\ UNCHANGED <<walkVars, at, opening, file, writing, gen, pc, mod, aufs_mount>>
    BY <1>1, <1>4 DEF FinishMount, MountFinish, MountInv, modVars, fileVars
  <2>2. mounted' = [mounted EXCEPT ![m] = getting[m]] \/ UNCHANGED mounted
    BY <1>4 DEF FinishMount, MountFinish
  <2>3. AtType' /\ \A u \in Users : UserInv(u)'
    BY <1>1, <2>1, <2>2, UsersKeep DEF TypeOK
  <2>4. CASE mounted'[m] # 0
    <3>1. Resident(getting[m]) /\ get_sb_single(getting[m], ro) /\ AcquireTree
        BY <1>4, <2>1, <2>4 DEF FinishMount, MountFinish
    <3>2. getting[m] = gen /\ gen \in Gens
        BY <1>1, <3>1 DEF Resident, PhaseInv
    <3>3. s_active[gen] > 0 => populated' = populated
        BY <1>1, <3>1, <3>2, GetSb
    <3>4. TreeTypeOK' /\ OneTree' /\ LiveTree'
        BY <2>1, <3>1, <3>2, <3>3, AcquireKeeps DEF get_sb_single
    <3>5. Ready'
      <4>1. ASSUME mod = "live", aufs_mount = "MNT" PROVE tpc' = "done"
        <5>1. KernHolds(gen)
            BY <1>1, <4>1 DEF PhaseInv, KernHolds
        <5>2. TreeExists
            BY <3>2, <5>1, KernelLives DEF SystemInv
        <5> QED
            BY <3>1, <4>1, <5>2 DEF AcquireTree, SystemInv, Ready, initVars
      <4> QED
        BY <2>1, <4>1 DEF Ready
    <3> QED
        BY <2>3, <3>4, <3>5 DEF Rest
  <2>5. CASE mounted'[m] = 0
    <3>1. UNCHANGED <<s_active, populated, dcache, initVars>>
        BY <1>1, <1>4, <2>1, <2>5 DEF FinishMount, MountFinish, TypeOK, sbVars
    <3>2. MayHaveFiles(gen) => MayHaveFiles(gen)'
        BY <2>1, <3>1 DEF MayHaveFiles
    <3>3. Ready'
        BY <2>1, <3>1 DEF SystemInv, Ready, initVars
    <3> QED
        BY <2>1, <2>3, <3>1, <3>2, <3>3, AllStill DEF Rest
  <2> QED
    BY <2>4, <2>5
<1> QED
    BY <1>2, <1>3, <1>4

\* A process takes a step of AufsTree, in the tree its mount keeps.
LEMMA WalkerKeeps ==
    ASSUME SystemInv, TreeExists, NEW u \in Users, WalkerStep(u),
           UNCHANGED <<modVars, s_active, populated, mounted>>,
           AtType',
           upc'[u] # "idle" => at'[u] \in MountPoints /\ mounted[at'[u]] # 0,
           upc'[u] = "idle" => at'[u] = NoMount,
           upc'[u] = "open" => file'[u] = at'[u],
           upc'[u] # "open" => file'[u] = NoMount /\ u \notin writing',
           opening'[u] = NoMount,
           \A v \in Users \ {u} :
                /\ upc'[v] = upc[v] /\ at'[v] = at[v] /\ ucur'[v] = ucur[v]
                /\ unew'[v] = unew[v] /\ f_op'[v] = f_op[v] /\ file'[v] = file[v]
                /\ opening'[v] = opening[v]
                /\ v \in writing' <=> v \in writing
    PROVE  Rest'
<1>1. PICK k \in Nat : k = s_active[gen] /\ TreeInv(k)
    BY TreeOfSystem
<1>2. TreeInv(k)' /\ PositiveStays(dcache, dcache') /\ UNCHANGED initVars
    BY <1>1, WalkerInv, QuietWalker
<1>3. TreeTypeOK'
    BY <1>2 DEF TreeInv, FrameType, Shape, TreeTypeOK
<1>4. NoFile(dcache) => NoFile(dcache')
    BY <1>2 DEF PositiveStays, Keeps, NoFile
<1>5. MayHaveFiles(gen) => MayHaveFiles(gen)'
    BY DEF MayHaveFiles, modVars
<1>6. UNCHANGED <<gen, s_active>> /\ \A j \in Nat : TreeInv(j) => TreeInv(j)'
    BY WalkerInv DEF modVars
<1>7. OneTree' /\ LiveTree'
    BY <1>4, <1>5, <1>6, LiveKept
<1>8. UserInv(u)'
  <2>1. WalkInv(u)'
    BY <1>2 DEF TreeInv
  <2> QED
    BY <2>1 DEF WalkInv, UserInv
<1>9. ASSUME NEW v \in Users \ {u} PROVE UserInv(v)'
  <2>1. UserInv(v)
    BY DEF SystemInv
  <2> QED
    BY <2>1 DEF UserInv
<1>10. Ready'
    BY <1>2 DEF SystemInv, Ready, modVars, initVars
<1> QED
    BY <1>3, <1>7, <1>8, <1>9, <1>10 DEF Rest

\* Processes that walk, open, use and close.
LEMMA WalkersKeep ==
    ASSUME SystemInv, NEW u \in Users,
           \/ \E m \in MountPoints : EnterMount(u, m)
           \/ \E write \in BOOLEAN : OpenFound(u, write)
           \/ Lookup(u) \/ FinishLookup(u) \/ CheckWrite(u) \/ AccessFile(u) \/ Leave(u)
    PROVE  Rest'
<1>1. AtType /\ UserInv(u) /\ NoMount \notin MountPoints
    BY NoMountAssumption DEF SystemInv
<1>2. /\ file \in [Users -> MountPoints \cup {NoMount}]
      /\ opening \in [Users -> MountPoints \cup {NoMount}]
      /\ upc \in [Users -> {"idle", "at", "adding", "open"}]
      /\ ucur \in [Users -> Dentries \cup {Null}]
      /\ unew \in [Users -> Dentries \cup {Null}]
      /\ f_op \in [Users -> {"none", "default", "aufs"}]
    BY DescriptorAssumption DEF SystemInv, ModuleInv, TypeOK, TreeTypeOK
<1>3. upc[u] # "idle" => TreeExists
    BY UserInTree
<1>4. ASSUME NEW m \in MountPoints, EnterMount(u, m) PROVE Rest'
  <2>1. /\ UNCHANGED <<modVars, s_active, populated, mounted, opening, file, writing, unew, f_op>>
        /\ upc[u] = "idle" /\ mounted[m] # 0 /\ WalkStart(u)
        /\ upc' = [upc EXCEPT ![u] = "at"]
        /\ ucur' = [ucur EXCEPT ![u] = Root]
        /\ at' = [at EXCEPT ![u] = m]
    BY <1>4 DEF EnterMount, WalkStart, vars, sbVars, userVars, fileVars
  <2>2. TreeExists /\ WalkerStep(u)
    BY <2>1, MountedLives DEF SystemInv, TreeExists, WalkerStep
  <2>3. /\ AtType' /\ at'[u] = m /\ upc'[u] = "at"
        /\ \A v \in Users \ {u} : upc'[v] = upc[v] /\ at'[v] = at[v] /\ ucur'[v] = ucur[v]
    BY <1>1, <1>2, <2>1 DEF AtType
  <2>4. file'[u] = NoMount /\ u \notin writing' /\ opening'[u] = NoMount
    BY <1>1, <2>1 DEF UserInv
  <2> QED
    BY <2>1, <2>2, <2>3, <2>4, WalkerKeeps
<1>5. ASSUME NEW write \in BOOLEAN, OpenFound(u, write) PROVE Rest'
  <2>1. /\ UNCHANGED <<modVars, s_active, populated, mounted, ucur, unew, at>>
        /\ upc[u] = "at" /\ OpenFile(u)
        /\ upc' = [upc EXCEPT ![u] = "open"]
        /\ f_op' = [f_op EXCEPT ![u] = dcache[ucur[u]].i_fop]
        /\ opening' = [opening EXCEPT ![u] = NoMount]
        /\ file' = [file EXCEPT ![u] = at[u]]
        /\ writing' = IF write THEN writing \cup {u} ELSE writing
    BY <1>5 DEF OpenFound, OpenFile, sbVars, mountVars
  <2>2. TreeExists /\ WalkerStep(u) /\ AtType'
    BY <1>1, <1>3, <2>1 DEF WalkerStep, AtType
  <2>3. /\ file'[u] = at'[u] /\ upc'[u] = "open" /\ opening'[u] = NoMount
        /\ \A v \in Users \ {u} : /\ upc'[v] = upc[v] /\ f_op'[v] = f_op[v]
                                  /\ file'[v] = file[v] /\ opening'[v] = opening[v]
    BY <1>2, <2>1
  <2>4. at'[u] \in MountPoints /\ mounted[at'[u]] # 0
    BY <1>1, <2>1 DEF UserInv
  <2>5. \A v \in Users \ {u} : v \in writing' <=> v \in writing
    BY <2>1
  <2> QED
    BY <2>1, <2>2, <2>3, <2>4, <2>5, WalkerKeeps
<1>6. ASSUME NEW pc1 \in {"at", "adding"}, WalkerStep(u), upc[u] \in {"at", "adding"},
             opening[u] = NoMount,
             upc' = [upc EXCEPT ![u] = pc1],
             \A v \in Users \ {u} : ucur'[v] = ucur[v] /\ unew'[v] = unew[v],
             UNCHANGED <<vars, at, f_op>>
      PROVE  Rest'
  <2>1. /\ UNCHANGED <<modVars, s_active, populated, mounted, opening, file, writing, at>>
        /\ TreeExists /\ AtType'
    BY <1>1, <1>3, <1>6 DEF vars, sbVars, userVars, fileVars, AtType
  <2>2. upc'[u] = pc1 /\ \A v \in Users \ {u} : upc'[v] = upc[v] /\ f_op'[v] = f_op[v]
    BY <1>2, <1>6
  <2>3. /\ at'[u] \in MountPoints /\ mounted[at'[u]] # 0
        /\ file'[u] = NoMount /\ u \notin writing' /\ opening'[u] = NoMount
    BY <1>1, <1>6, <2>1 DEF UserInv
  <2> QED
    BY <1>6, <2>1, <2>2, <2>3, WalkerKeeps
<1>7. CASE Lookup(u)
  <2>1. PICK n \in Names : LookupHit(u, n) \/ LookupMiss(u, n)
    BY <1>7 DEF Lookup
  <2>2. WalkerStep(u) /\ upc[u] = "at" /\ opening[u] = NoMount /\ UNCHANGED <<vars, at, f_op>>
    BY <1>7, <2>1 DEF WalkerStep, Lookup, LookupHit, LookupMiss
  <2>3. CASE LookupHit(u, n)
    <3>1. \A v \in Users \ {u} : ucur'[v] = ucur[v] /\ unew'[v] = unew[v]
        BY <1>2, <2>3 DEF LookupHit
    <3>2. upc' = [upc EXCEPT ![u] = "at"]
        BY <1>2, <2>2, <2>3 DEF LookupHit
    <3> QED
        BY <1>6, <2>2, <3>1, <3>2
  <2>4. CASE LookupMiss(u, n)
    <3>1. \A v \in Users \ {u} : ucur'[v] = ucur[v] /\ unew'[v] = unew[v]
        BY <1>2, <2>4 DEF LookupMiss
    <3>2. upc' = [upc EXCEPT ![u] = "adding"]
        BY <2>4 DEF LookupMiss
    <3> QED
        BY <1>6, <2>2, <3>1, <3>2
  <2> QED
    BY <2>1, <2>3, <2>4
<1>8. CASE FinishLookup(u)
  <2>1. /\ WalkerStep(u) /\ upc[u] = "adding" /\ UNCHANGED <<vars, at, f_op>>
        /\ upc' = [upc EXCEPT ![u] = "at"]
    BY <1>8 DEF WalkerStep, FinishLookup, LookupAdd
  <2>2. \A v \in Users \ {u} : ucur'[v] = ucur[v] /\ unew'[v] = unew[v]
    BY <1>2, <1>8 DEF FinishLookup, LookupAdd
  <2>3. opening[u] = NoMount
    BY <1>1, <2>1 DEF UserInv
  <2> QED
    BY <1>6, <2>1, <2>2, <2>3
<1>11. CASE CheckWrite(u)
  <2>1. /\ UNCHANGED <<gen, pc, mod, aufs_mount, s_active, populated, mounted>>
        /\ UNCHANGED <<initVars, dcache, walkVars, at, file, writing>>
        /\ opening' = [opening EXCEPT ![u] = at[u]] /\ upc[u] = "at"
    BY <1>11 DEF CheckWrite, may_open, modVars, sbVars, treeVars
  <2>2. MayHaveFiles(gen) => MayHaveFiles(gen)'
    BY <2>1 DEF MayHaveFiles
  <2>3. Ready'
    BY <2>1 DEF SystemInv, Ready, initVars
  <2>4. AtType' /\ \A v \in Users : UserInv(v)'
    <3>1. AtType'
        BY <1>1, <2>1 DEF AtType
    <3>2. opening'[u] = at[u] /\ \A v \in Users \ {u} : opening'[v] = opening[v]
        BY <1>2, <2>1
    <3>3. ASSUME NEW v \in Users PROVE UserInv(v)'
        <4>1. UserInv(v)
            BY DEF SystemInv
        <4> QED
            BY <2>1, <3>2, <4>1 DEF UserInv, walkVars
    <3> QED
        BY <3>1, <3>3
  <2> QED
    BY <2>1, <2>2, <2>3, <2>4, AllStill DEF Rest
<1>9. CASE AccessFile(u)
  <2>1. /\ UNCHANGED <<gen, pc, mod, aufs_mount, s_active, populated, mounted>>
        /\ UNCHANGED <<initVars, dcache, walkVars, at, opening, file, writing>>
    BY <1>9 DEF AccessFile, modVars, sbVars, userVars, fileVars, treeVars
  <2>2. MayHaveFiles(gen) => MayHaveFiles(gen)'
    BY <2>1 DEF MayHaveFiles
  <2>3. Ready'
    BY <2>1 DEF SystemInv, Ready, initVars
  <2> QED
    BY <2>1, <2>2, <2>3, AllStill, UsersKeep DEF Rest
<1>10. CASE Leave(u)
  <2>1. /\ UNCHANGED <<modVars, s_active, populated, mounted, unew>>
        /\ upc[u] \in {"at", "open"} /\ WalkerStep(u)
        /\ upc' = [upc EXCEPT ![u] = "idle"]
        /\ ucur' = [ucur EXCEPT ![u] = Null]
        /\ f_op' = [f_op EXCEPT ![u] = "none"]
        /\ at' = [at EXCEPT ![u] = NoMount]
        /\ opening' = [opening EXCEPT ![u] = NoMount]
        /\ file' = [file EXCEPT ![u] = NoMount]
        /\ writing' = writing \ {u}
    BY <1>10 DEF Leave, Release, WalkerStep, sbVars, mountVars
  <2>2. TreeExists
    BY <1>3, <2>1
  <2>3. /\ AtType' /\ at'[u] = NoMount /\ upc'[u] = "idle" /\ file'[u] = NoMount
        /\ opening'[u] = NoMount
        /\ \A v \in Users \ {u} : /\ upc'[v] = upc[v] /\ at'[v] = at[v] /\ ucur'[v] = ucur[v]
                                  /\ f_op'[v] = f_op[v] /\ file'[v] = file[v]
                                  /\ opening'[v] = opening[v]
    BY <1>1, <1>2, <2>1 DEF AtType
  <2>4. u \notin writing' /\ \A v \in Users \ {u} : v \in writing' <=> v \in writing
    BY <2>1
  <2> QED
    BY <2>1, <2>2, <2>3, <2>4, WalkerKeeps
<1> QED
    BY <1>4, <1>5, <1>7, <1>8, <1>9, <1>10, <1>11

LEMMA SystemStep == SystemInv /\ [SystemNext]_systemVars => SystemInv'
<1> SUFFICES ASSUME SystemInv, [SystemNext]_systemVars PROVE SystemInv'
    OBVIOUS
<1>1. ModuleInv'
    BY SystemStepIsModuleStep, ModuleStep DEF SystemInv
<1>2. Rest'
  <2>1. CASE LoadModule \/ UnloadModule \/ LoaderThread
    BY <2>1, LoaderKeeps
  <2>2. CASE UsersStep
    BY <2>2, MountersKeep, WalkersKeep DEF UsersStep
  <2>3. CASE UNCHANGED systemVars
    <3>1. /\ UNCHANGED <<gen, pc, mod, aufs_mount, s_active, populated, mounted>>
          /\ UNCHANGED <<initVars, dcache, walkVars, at, opening, file, writing>>
        BY <2>3 DEF systemVars, vars, modVars, sbVars, userVars, fileVars, treeVars
    <3>2. MayHaveFiles(gen) => MayHaveFiles(gen)'
        BY <3>1 DEF MayHaveFiles
    <3>3. Ready'
        BY <3>1 DEF SystemInv, Ready, initVars
    <3> QED
        BY <3>1, <3>2, <3>3, AllStill, UsersKeep DEF Rest
  <2> QED
    BY <2>1, <2>2, <2>3 DEF SystemNext
<1> QED
    BY <1>1, <1>2 DEF SystemInv, Rest

\* Processes stay on mounts of the one tree there is, whose root counts exactly
\* the references s_active counts.
THEOREM SystemInvariant == SystemSpec => []SystemInv
BY SystemInitInv, SystemStep, PTL DEF SystemSpec

-----------------------------------------------------------------------------
(***************************************************************************)
(* What follows from it.                                                   *)
(***************************************************************************)

\* Building the tree call by call, under the feet of processes that walk it,
\* does nothing the life cycle with its one creating step would not do.
THEOREM SystemImplementsModule == SystemSpec => ImplementsModule
<1>1. SystemInit => Init
    BY DEF SystemInit
<1> QED
    BY <1>1, SystemInvariant, SystemStepIsModuleStep, PTL
    DEF SystemSpec, ImplementsModule, Spec

\* ... so the active count of the super block is exact in the whole system,
THEOREM SystemRefsExact == SystemSpec => []ActiveRefs
BY SystemImplementsModule, RefsExact, PTL DEF ImplementsModule

\* ... its super blocks are the shared objects of SuperBlock,
THEOREM SystemImplementsSuperBlock == SystemSpec => ImplementsSuperBlock
BY SystemImplementsModule, ModuleImplementsSuperBlock, PTL DEF ImplementsModule

\* ... and whoever keeps from rmmod while aufs is in use and from mounting
\* while aufs_exit runs never makes the kernel use freed module memory.
THEOREM SystemUnloadIsSafe ==
    ASSUME ~RmmodWhileMounted, ~MountDuringExit
    PROVE  SystemSpec => []NoUseAfterUnload
BY SystemImplementsModule, DisciplinedUnloadIsSafe, PTL DEF ImplementsModule

\* Although every mount sets the flags of the super block that all share, no
\* process finds the file it writes on a read-only file system, where the kernel
\* counts writers (supper.h:25).
THEOREM SystemWritersKeepWriting ==
    ASSUME WritersCounted
    PROVE  SystemSpec => []NoWriterOnReadOnly
BY SystemImplementsModule, WritersKeepWriting, PTL DEF ImplementsModule

-----------------------------------------------------------------------------
(***************************************************************************)
(* The tree in the whole system.                                           *)
(***************************************************************************)

\* Every variable of the system keeps its type: in particular no count of a
\* dentry drops below zero, not even while kill_litter_super runs.
THEOREM SystemTypes == SystemSpec => []SystemTypeOK
<1>1. SystemInv => SystemTypeOK
    BY DEF SystemInv, ModuleInv, AtType, SystemTypeOK
<1> QED
    BY <1>1, SystemInvariant, PTL

\* s_active counts the mounts that have the root.
LEMMA ActiveIsMounts ==
    ASSUME SystemInv, TreeExists
    PROVE  RootMounts = s_active[gen]
<1>1. gen \in Gens /\ s_active[gen] > 0
    BY TreeOfSystem
<1>2. {m \in MountPoints : mounted[m] # 0} = MountsOf(gen)
  <2>1. \A m \in MountPoints : mounted[m] # 0 => mounted[m] = gen
    BY MountedLives DEF SystemInv, OneTree
  <2>2. gen # 0
    BY <1>1 DEF Gens
  <2> QED
    BY <2>1, <2>2 DEF MountsOf
<1> QED
    BY <1>1, <1>2 DEF SystemInv, ModuleInv, ActiveRefs, RootMounts

\* While the super block lives, d_count of every dentry is exactly the number
\* of references there are, those of the root being s_root's and one for every
\* mount s_active counts (aufs.c:35, supper.h:25).
THEOREM SystemCountsAreExact == SystemSpec => []TreeRefs
<1>1. ASSUME SystemInv, TreeExists, NEW d \in Used
      PROVE  dcache[d].count =
                  Cardinality({c \in Used : dcache[c].parent = d})
                + Cardinality({u \in Users : ucur[u] = d})
                + Cardinality({u \in Users : unew[u] = d})
                + Cardinality({i \in Steps : found[i] = d})
                + (CASE d = Root -> 1 + RootMounts
                     [] d # Root /\ dcache[d].inode # "none" -> 1
                     [] OTHER -> 0)
  <2>1. PICK k \in Nat : k = s_active[gen] /\ TreeInv(k)
    BY <1>1, TreeOfSystem
  <2>2. k = RootMounts
    BY <1>1, <2>1, ActiveIsMounts
  <2> QED
    BY <1>1, <2>1, <2>2, CountOfUsed
<1>2. SystemInv => TreeRefs
    BY <1>1 DEF TreeRefs
<1> QED
    BY <1>2, SystemInvariant, PTL

\* kill_litter_super never runs under somebody's feet: whoever walks or has a
\* file open is on a mount whose super block lives, and what it holds has not
\* been freed.
THEOREM NobodyFalls == SystemSpec => []UsersStandFirm
<1>1. ASSUME SystemInv, NEW u \in Users, upc[u] # "idle"
      PROVE  /\ at[u] # NoMount /\ mounted[at[u]] # 0
             /\ s_active[mounted[at[u]]] > 0
             /\ ucur[u] \in Used
             /\ upc[u] = "adding" => unew[u] \in Used
  <2>1. /\ at[u] \in MountPoints /\ mounted[at[u]] = gen /\ gen \in Gens
        /\ s_active[gen] > 0 /\ TreeExists /\ ucur[u] \in Dentries
    BY <1>1, UserInTree
  <2>2. PICK k \in Nat : TreeInv(k)
    BY <1>1, <2>1, TreeOfSystem
  <2>3. ucur[u] \in Used
    BY <2>1, <2>2, HeldFacts DEF Used
  <2>4. upc[u] = "adding" => unew[u] \in Used
    BY <2>2, HeldFacts DEF Used, TreeInv, WalkInv
  <2>5. at[u] # NoMount /\ gen # 0
    BY <2>1, NoMountAssumption DEF Gens
  <2> QED
    BY <2>1, <2>3, <2>4, <2>5
<1>2. SystemInv => UsersStandFirm
    BY <1>1 DEF UsersStandFirm
<1> QED
    BY <1>2, SystemInvariant, PTL

\* While there is a tree, no two of its dentries have the same place and name,
\* those of lookups under way included.
UniqueTree == TreeExists => Unique(dcache)

LEMMA UniqueAcquire ==
    ASSUME SystemInv, UniqueTree, AcquireTree
    PROVE  Unique(dcache')
<1>1. CASE TreeExists
  <2>1. dcache' = dget(dcache, Root) /\ dcache \in [Dentries -> Dentry]
    BY <1>1 DEF AcquireTree, SystemInv, TreeTypeOK
  <2>2. \A e \in Dentries : Keeps(dcache, dcache', e)
    BY <2>1, ConstantFacts, DgetEffect
  <2>3. NoneButNew(dcache, dcache', Null)
    BY <2>2 DEF NoneButNew, Keeps
  <2> QED
    BY <1>1, <2>3, UniqueKept DEF UniqueTree
<1>2. CASE ~TreeExists
  <2>1. \A e \in Dentries \ {Root} : dcache'[e].state = "free"
    BY <1>2 DEF AcquireTree, simple_fill_super, FreeDentry
  <2> QED
    BY <2>1 DEF Unique
<1> QED
    BY <1>1, <1>2

LEMMA UniqueRelease ==
    ASSUME SystemInv, UniqueTree, gen \in Gens, s_active[gen] > 0, ReleaseTree(gen),
           s_active' = [s_active EXCEPT ![gen] = @ - 1]
    PROVE  UniqueTree'
<1>1. s_active \in [Gens -> Nat] /\ dcache \in [Dentries -> Dentry]
    BY DEF SystemInv, ModuleInv, TypeOK, TreeTypeOK
<1>2. CASE s_active[gen] = 1
  <2>1. \A g \in Gens : ~(s_active'[g] > 0)
    BY <1>1, <1>2 DEF SystemInv, OneTree
  <2> QED
    BY <2>1 DEF UniqueTree, TreeExists
<1>3. CASE s_active[gen] # 1
  <2>1. dcache' = [dcache EXCEPT ![Root].count = @ - 1]
    BY <1>3 DEF ReleaseTree
  <2>2. \A e \in Dentries : /\ dcache'[e].state = dcache[e].state
                            /\ dcache'[e].name = dcache[e].name
                            /\ dcache'[e].parent = dcache[e].parent
    BY <1>1, <2>1 DEF Dentry
  <2>3. Unique(dcache)
    BY DEF UniqueTree, TreeExists
  <2>4. Unique(dcache')
    BY <2>2, <2>3 DEF Unique, SameName
  <2> QED
    BY <2>4 DEF UniqueTree
<1> QED
    BY <1>2, <1>3

LEMMA UniqueStep ==
    ASSUME SerialisedLookup, SystemInv, UniqueTree, [SystemNext]_systemVars
    PROVE  UniqueTree'
<1>0. PhaseInv /\ TypeOK
    BY DEF SystemInv, ModuleInv
<1>1. CASE UNCHANGED <<dcache, s_active>>
    BY <1>1 DEF UniqueTree, TreeExists
<1>2. CASE LoadModule \/ UnloadModule \/ ModuleOnly \/ aufs_init_return
    BY <1>1, <1>2 DEF LoadModule, Insmod, UnloadModule, Rmmod, ModuleOnly,
        aufs_init_register, aufs_init_unwind, aufs_exit_unregister, FreeModule,
        aufs_init_return, aufs_init_populate, sbVars, treeVars
<1>3. CASE aufs_init_create
  <2>1. InitThread /\ pc = "populate" /\ UNCHANGED s_active
    BY <1>3 DEF aufs_init_create, vars, sbVars
  <2>2. KernHolds(gen) /\ gen \in Gens
    BY <1>0, <2>1 DEF PhaseInv, KernHolds
  <2>3. TreeExists
    BY <2>2, KernelLives DEF SystemInv
  <2>4. PICK k \in Nat : TreeInv(k)
    BY <2>3, TreeOfSystem
  <2> QED
    BY <2>1, <2>3, <2>4, UniqueInit DEF UniqueTree
<1>4. CASE MountKernel
  <2>1. CASE aufs_mount' = "MNT"
    BY <1>4, <2>1, UniqueAcquire DEF MountKernel, UniqueTree
  <2>2. CASE aufs_mount' # "MNT"
    BY <1>1, <1>4, <2>2 DEF MountKernel, aufs_init_kern_mount, sbVars
  <2> QED
    BY <2>1, <2>2
<1>5. CASE UnmountKernel
  <2>1. pc = "kern_unmount" /\ gen \in Gens
    BY <1>0, <1>5 DEF UnmountKernel, aufs_exit_kern_unmount, PhaseInv
  <2>2. CASE aufs_mount = "MNT"
    <3>1. s_active' = [s_active EXCEPT ![gen] = @ - 1] /\ ReleaseTree(gen)
        BY <1>5, <2>2 DEF UnmountKernel, aufs_exit_kern_unmount, deactivate_super
    <3>2. s_active[gen] > 0
        BY <2>1, <2>2, KernelLives DEF SystemInv, KernHolds
    <3> QED
        BY <2>1, <3>1, <3>2, UniqueRelease
  <2>3. CASE aufs_mount # "MNT"
    BY <1>1, <1>5, <2>3 DEF UnmountKernel, aufs_exit_kern_unmount, sbVars
  <2> QED
    BY <2>2, <2>3
<1>6. ASSUME NEW m \in MountPoints, StartMount(m) PROVE UniqueTree'
    BY <1>1, <1>6 DEF StartMount, MountBegin, sbVars, treeVars
<1>7. ASSUME NEW m \in MountPoints, Unmount(m) PROVE UniqueTree'
  <2>1. mounted[m] # 0 /\ deactivate_super(mounted[m]) /\ ReleaseTree(mounted[m])
    BY <1>7 DEF Unmount, Umount
  <2>2. mounted[m] = gen /\ gen \in Gens /\ s_active[gen] > 0
    BY <2>1, MountedLives DEF SystemInv, OneTree
  <2> QED
    BY <2>1, <2>2, UniqueRelease DEF deactivate_super
<1>8. ASSUME NEW m \in MountPoints, NEW ro \in BOOLEAN, FinishMount(m, ro) PROVE UniqueTree'
  <2>1. CASE mounted'[m] # 0
    BY <1>8, <2>1, UniqueAcquire DEF FinishMount, UniqueTree
  <2>2. CASE mounted'[m] = 0
    <3>1. UNCHANGED <<s_active, dcache>>
        BY <1>0, <1>8, <2>2 DEF FinishMount, MountFinish, TypeOK, sbVars
    <3> QED
        BY <1>1, <3>1
  <2> QED
    BY <2>1, <2>2
<1>9. ASSUME NEW u \in Users, WalkerStep(u), UNCHANGED s_active PROVE UniqueTree'
  <2>1. ASSUME TreeExists PROVE Unique(dcache')
    <3>1. PICK k \in Nat : TreeInv(k)
        BY <2>1, TreeOfSystem
    <3> QED
        BY <1>9, <2>1, <3>1, UniqueWalker DEF UniqueTree
  <2> QED
    BY <1>9, <2>1 DEF UniqueTree, TreeExists
<1>10. ASSUME NEW u \in Users, NEW m \in MountPoints, EnterMount(u, m) PROVE UniqueTree'
    BY <1>9, <1>10 DEF EnterMount, WalkerStep, vars, sbVars
<1>11. ASSUME NEW u \in Users, NEW w \in BOOLEAN, OpenFound(u, w) PROVE UniqueTree'
    BY <1>9, <1>11 DEF OpenFound, WalkerStep, sbVars
<1>12. ASSUME NEW u \in Users, Lookup(u) \/ FinishLookup(u) \/ Leave(u) PROVE UniqueTree'
    BY <1>9, <1>12 DEF Lookup, FinishLookup, Leave, WalkerStep, vars, sbVars
<1>13. ASSUME NEW u \in Users, CheckWrite(u) \/ AccessFile(u) PROVE UniqueTree'
    BY <1>1, <1>13 DEF CheckWrite, may_open, AccessFile, sbVars, treeVars
<1>14. CASE UNCHANGED systemVars
    BY <1>1, <1>14 DEF systemVars, vars, sbVars, treeVars
<1>15. CASE LoaderThread
    BY <1>2, <1>3, <1>4, <1>5, <1>15 DEF LoaderThread
<1>16. CASE UsersStep
    BY <1>6, <1>7, <1>8, <1>10, <1>11, <1>12, <1>13, <1>16 DEF UsersStep
<1> QED
    BY <1>2, <1>14, <1>15, <1>16 DEF SystemNext

\* From the return of aufs_init to aufs_exit a walk finds, under the name of
\* every entry one of its calls reported created, that entry and nothing else,
\* a file with the module's operations, where lookups of a name are serialised.
THEOREM CreatedStaysFound ==
    ASSUME SerialisedLookup
    PROVE  SystemSpec => []CreatedIsFound
<1>1. ASSUME SystemInv, UniqueTree, mod = "live", aufs_mount = "MNT", NEW i \in Steps,
             created[i] # Null
      PROVE  /\ d_lookup(dcache, dcache[created[i]].parent, Script[i].name) = {created[i]}
             /\ dcache[created[i]].parent \in {Root} \cup {created[j] : j \in Steps}
             /\ dcache[created[i]].inode = Script[i].kind
             /\ dcache[created[i]].inode = "reg" => dcache[created[i]].i_fop = "aufs"
  <2>1. KernHolds(gen) /\ gen \in Gens
    BY <1>1 DEF SystemInv, ModuleInv, PhaseInv, KernHolds
  <2>2. TreeExists
    BY <1>1, <2>1, KernelLives DEF SystemInv
  <2>3. PICK k \in Nat : TreeInv(k)
    BY <1>1, <2>2, TreeOfSystem
  <2>4. /\ created[i] = found[i] /\ created[i] \in Dentries
        /\ dcache[created[i]].state = "hashed"
        /\ dcache[created[i]].name = Script[i].name
        /\ dcache[created[i]].inode = Script[i].kind
        /\ Script[i].kind = "reg" => dcache[created[i]].i_fop = "aufs"
    BY <1>1, <2>3 DEF TreeInv, CreatedInv, FrameType
  <2>5. created[i] # Root /\ dcache[Root].state # "hashed"
    BY <2>3, <2>4 DEF TreeInv, Shape
  <2>6. dcache[created[i]].parent \in {Root} \cup {created[j] : j \in Steps}
    <3>1. tpc = "done"
        BY <1>1 DEF SystemInv, Ready
    <3>2. /\ dcache[created[i]].parent \in Dentries
          /\ dcache[dcache[created[i]].parent].inode = "dir"
        BY <2>3, <2>4, <2>5 DEF TreeInv, Shape
    <3> QED
        BY <2>3, <3>1, <3>2 DEF TreeInv, CreatedInv
  <2>7. d_lookup(dcache, dcache[created[i]].parent, Script[i].name) = {created[i]}
    <3>1. ASSUME NEW e \in d_lookup(dcache, dcache[created[i]].parent, Script[i].name)
          PROVE  e = created[i]
        <4>1. /\ e \in Dentries \ {Root} /\ dcache[e].state = "hashed"
              /\ dcache[e].parent = dcache[created[i]].parent
              /\ dcache[e].name = dcache[created[i]].name
            BY <2>4, <2>5 DEF d_lookup
        <4> QED
            BY <1>1, <2>2, <2>4, <2>5, <4>1 DEF UniqueTree, Unique, SameName
    <3> QED
        BY <2>4, <3>1 DEF d_lookup
  <2> QED
    BY <2>4, <2>6, <2>7
<1>2. SystemInv /\ UniqueTree => CreatedIsFound
    BY <1>1 DEF CreatedIsFound
<1>3. SystemInit => UniqueTree
    BY DEF SystemInit, Init, UniqueTree, TreeExists
<1>4. SystemInv /\ UniqueTree /\ [SystemNext]_systemVars => UniqueTree'
    BY UniqueStep
<1> QED
    BY <1>2, <1>3, <1>4, SystemInvariant, PTL DEF SystemSpec
=============================================================================
