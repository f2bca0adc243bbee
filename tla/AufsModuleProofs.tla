-------------------------- MODULE AufsModuleProofs --------------------------
(***************************************************************************)
(* Proofs about AufsModule, for any finite number of mount points, any     *)
(* number of descriptors and any number of loads of the module.            *)
(***************************************************************************)
EXTENDS AufsModule, FiniteSetTheorems, TLAPS

-----------------------------------------------------------------------------
(***************************************************************************)
(* The inductive invariant.                                                *)
(***************************************************************************)

\* What each place of aufs_init and aufs_exit knows of the loader's state, the
\* registration and the variable aufs_mount.
PhaseInv ==
    /\ mod # "unloaded" => gen \in Gens
    /\ mod = "unloaded" => pc = "idle" /\ ~registered /\ aufs_mount # "MNT"
    /\ mod = "live" => pc = "idle"
    /\ pc = "idle" => mod \in {"unloaded", "live"}
    /\ pc = "register" => mod = "coming" /\ ~registered /\ aufs_mount = "NULL"
    /\ pc = "kern_mount" => mod = "coming" /\ aufs_mount = "NULL"
    /\ pc = "unwind" => mod = "coming" /\ aufs_mount = "ERR"
    /\ pc \in {"populate", "oops"} => mod = "coming" /\ aufs_mount = "MNT"
    /\ pc \in {"kern_unmount", "unregister", "free"} => mod = "going"
    /\ pc = "free" => ~registered /\ aufs_mount = "NULL"
    /\ mod = "live" /\ aufs_mount = "MNT" => populated[gen]

\* A mount point is not mounted while a mount on it is in progress.
MountInv == \A m \in MountPoints : getting[m] # 0 => mounted[m] = 0

ModuleInv == TypeOK /\ PhaseInv /\ MountInv /\ ActiveRefs

\* With the discipline that nobody calls rmmod while aufs is in use or starts
\* a mount while aufs_exit runs: everything in use belongs to the loaded
\* module, and nothing is in use while there is none.
InUseInv ==
    /\ ~fault
    /\ \A m \in MountPoints : mounted[m] \in {0, gen} /\ getting[m] \in {0, gen}
    /\ mod \in {"going", "unloaded"} \/ pc = "register" => NotInUse
    /\ \A f \in Files : file[f] # NoMount => mounted[file[f]] # 0

-----------------------------------------------------------------------------
(***************************************************************************)
(* Counting mount points.                                                  *)
(***************************************************************************)

\* The mount points a function sends to g are finitely many.
LEMMA CountType ==
    ASSUME NEW h, NEW g
    PROVE  /\ IsFiniteSet({x \in MountPoints : h[x] = g})
           /\ Cardinality({x \in MountPoints : h[x] = g}) \in Nat
<1>1. {x \in MountPoints : h[x] = g} \in SUBSET MountPoints
    OBVIOUS
<1>2. IsFiniteSet({x \in MountPoints : h[x] = g})
    BY <1>1, FS_Subset, MountPointsAssumption
<1> QED
    BY <1>2, FS_CardinalityType

\* Mounting generation k on a free mount point adds one to k's count only.
LEMMA CountMount ==
    ASSUME NEW h \in [MountPoints -> GenOrNo], NEW m \in MountPoints,
           NEW k \in Gens, h[m] = 0, NEW g \in Gens
    PROVE  Cardinality({x \in MountPoints : [h EXCEPT ![m] = k][x] = g})
             = Cardinality({x \in MountPoints : h[x] = g}) + (IF g = k THEN 1 ELSE 0)
<1> DEFINE S == {x \in MountPoints : h[x] = g}
           T == {x \in MountPoints : [h EXCEPT ![m] = k][x] = g}
<1>1. g # 0
    BY MaxGenAssumption DEF Gens
<1>2. m \notin S
    BY <1>1
<1>3. IsFiniteSet(S) /\ Cardinality(S) \in Nat
    BY CountType
<1>4. CASE g = k
    <2>1. T = S \cup {m}
        BY <1>4
    <2>2. Cardinality(S \cup {m}) = Cardinality(S) + 1
        BY <1>2, <1>3, FS_AddElement
    <2> QED
        BY <1>4, <2>1, <2>2
<1>5. CASE g # k
    <2>1. T = S
        BY <1>1, <1>5
    <2> QED
        BY <1>3, <1>5, <2>1
<1> QED
    BY <1>4, <1>5

\* Unmounting takes one from the count of the generation that was mounted,
\* which was positive.
LEMMA CountUmount ==
    ASSUME NEW h \in [MountPoints -> GenOrNo], NEW m \in MountPoints,
           h[m] # 0, NEW g \in Gens
    PROVE  /\ Cardinality({x \in MountPoints : [h EXCEPT ![m] = 0][x] = g})
                = Cardinality({x \in MountPoints : h[x] = g})
                    - (IF g = h[m] THEN 1 ELSE 0)
           /\ g = h[m] => Cardinality({x \in MountPoints : h[x] = g}) > 0
<1> DEFINE S == {x \in MountPoints : h[x] = g}
           T == {x \in MountPoints : [h EXCEPT ![m] = 0][x] = g}
<1>1. g # 0
    BY MaxGenAssumption DEF Gens
<1>3. IsFiniteSet(S) /\ Cardinality(S) \in Nat
    BY CountType
<1>4. CASE g = h[m]
    <2>1. T = S \ {m}
        BY <1>1, <1>4
    <2>2. Cardinality(S \ {m}) = Cardinality(S) - 1
        BY <1>3, <1>4, FS_RemoveElement
    <2>3. S # {}
        BY <1>4
    <2>4. Cardinality(S) # 0
        BY <1>3, <2>3, FS_EmptySet
    <2> QED
        BY <1>3, <1>4, <2>1, <2>2, <2>4
<1>5. CASE g # h[m]
    <2>1. T = S
        BY <1>1, <1>5
    <2> QED
        BY <1>3, <1>5, <2>1
<1> QED
    BY <1>4, <1>5

-----------------------------------------------------------------------------
(***************************************************************************)
(* The invariant holds initially and every step keeps it.                  *)
(***************************************************************************)

LEMMA ModuleInit == Init => ModuleInv
<1> SUFFICES ASSUME Init PROVE ModuleInv
    OBVIOUS
<1>1. TypeOK
    <2>1. /\ gen \in GenOrNo
          /\ s_active \in [Gens -> Nat]
          /\ getting \in [MountPoints -> GenOrNo]
          /\ mounted \in [MountPoints -> GenOrNo]
        BY MaxGenAssumption DEF Init, Gens, GenOrNo
    <2>2. populated \in [Gens -> BOOLEAN] /\ rdonly \in [Gens -> BOOLEAN] /\ registered \in BOOLEAN /\ fault \in BOOLEAN
        BY Zenon DEF Init
    <2> QED
        BY <2>1, <2>2 DEF Init, TypeOK, PCs
<1>2. PhaseInv /\ MountInv
    BY DEF Init, PhaseInv, MountInv
<1>3. ASSUME NEW g \in Gens
      PROVE  s_active[g] = Cardinality(MountsOf(g)) + (IF KernHolds(g) THEN 1 ELSE 0)
    <2>1. g # 0
        BY MaxGenAssumption DEF Gens
    <2>2. MountsOf(g) = {}
        BY <2>1 DEF Init, MountsOf
    <2>3. Cardinality(MountsOf(g)) = 0
        BY <2>2, FS_EmptySet
    <2> QED
        BY <2>3 DEF Init, KernHolds
<1> QED
    BY <1>1, <1>2, <1>3 DEF ModuleInv, ActiveRefs

\* A step that changes neither a count, nor a mount, nor who holds the kernel
\* mount keeps ActiveRefs.
LEMMA RefsKept ==
    ASSUME ActiveRefs, UNCHANGED <<s_active, mounted>>,
           \A g \in Gens : KernHolds(g)' <=> KernHolds(g)
    PROVE  ActiveRefs'
BY DEF ActiveRefs, MountsOf

\* The flags stay Boolean, whatever a mount asks for.
LEMMA Remount ==
    ASSUME TypeOK, NEW g \in Gens, NEW ro \in BOOLEAN, do_remount_sb(g, ro)
    PROVE  rdonly' \in [Gens -> BOOLEAN]
<1>1. ASSUME NEW v, v = (ro /\ (rdonly[g] \/ ~HasWriter(g)))
      PROVE  rdonly' \in [Gens -> BOOLEAN]
    <2>1. v \in BOOLEAN
        BY <1>1, Zenon
    <2>2. rdonly' = [rdonly EXCEPT ![g] = v]
        BY <1>1, Zenon DEF do_remount_sb
    <2> QED
        BY <2>1, <2>2 DEF TypeOK
<1> QED
    BY <1>1

\* A further reference on the super block of generation g leaves its tree alone
\* if there was one before.
LEMMA GetSb ==
    ASSUME TypeOK, NEW g \in Gens, NEW ro \in BOOLEAN, get_sb_single(g, ro)
    PROVE  /\ s_active' \in [Gens -> Nat]
           /\ populated' \in [Gens -> BOOLEAN]
           /\ rdonly' \in [Gens -> BOOLEAN]
           /\ s_active[g] > 0 => populated' = populated
           /\ \A k \in Gens : k # g => populated'[k] = populated[k]
<1>3. rdonly' \in [Gens -> BOOLEAN]
    BY Remount DEF get_sb_single
<1>1. s_active' \in [Gens -> Nat]
    BY DEF TypeOK, get_sb_single
<1>2. ASSUME NEW b, b = (s_active[g] > 0)
      PROVE  /\ populated' \in [Gens -> BOOLEAN]
             /\ b => populated' = populated
             /\ \A k \in Gens : k # g => populated'[k] = populated[k]
    <2>1. populated' = [populated EXCEPT ![g] = populated[g] /\ b]
        BY <1>2 DEF get_sb_single
    <2>2. (populated[g] /\ b) \in BOOLEAN
        OBVIOUS
    <2>3. b => (populated[g] /\ b) = populated[g]
        BY Zenon DEF TypeOK
    <2>4. ASSUME NEW v, v = (populated[g] /\ b)
          PROVE  /\ populated' \in [Gens -> BOOLEAN]
                 /\ b => populated' = populated
                 /\ \A k \in Gens : k # g => populated'[k] = populated[k]
        <3>1. populated' = [populated EXCEPT ![g] = v] /\ v \in BOOLEAN
            BY <2>1, <2>2, <2>4, Zenon
        <3>2. b => v = populated[g]
            BY <2>3, <2>4, Zenon
        <3> QED
            BY <3>1, <3>2 DEF TypeOK
    <2> QED
        BY <2>4
<1> QED
    BY <1>1, <1>2, <1>3

\* The steps of the thread of insmod and rmmod.
LEMMA ThreadStep ==
    ASSUME ModuleInv, Insmod \/ Rmmod \/ ModuleThread
    PROVE  ModuleInv'
<1> USE MaxGenAssumption DEF ModuleInv, Gens, GenOrNo, modVars, sbVars, userVars, fileVars
<1>1. CASE Insmod
    <2>1. TypeOK'
        BY <1>1 DEF Insmod, TypeOK, PCs
    <2>2. PhaseInv' /\ MountInv'
        BY <1>1 DEF Insmod, TypeOK, PhaseInv, MountInv
    <2>3. ActiveRefs'
        BY <1>1, RefsKept DEF Insmod, PhaseInv, KernHolds
    <2> QED
        BY <2>1, <2>2, <2>3
<1>2. CASE Rmmod
    <2>1. TypeOK'
        BY <1>2 DEF Rmmod, TypeOK, PCs
    <2>2. PhaseInv' /\ MountInv'
        BY <1>2 DEF Rmmod, TypeOK, PhaseInv, MountInv
    <2>3. ActiveRefs'
        BY <1>2, RefsKept DEF Rmmod, PhaseInv, KernHolds
    <2> QED
        BY <2>1, <2>2, <2>3
<1>3. CASE aufs_init_register
    <2>1. registered' \in BOOLEAN
        BY <1>3, Zenon DEF aufs_init_register, TypeOK
    <2>3. TypeOK'
        BY <1>3, <2>1 DEF aufs_init_register, TypeOK, PCs
    <2>4. PhaseInv' /\ MountInv'
        BY <1>3 DEF aufs_init_register, TypeOK, PhaseInv, MountInv
    <2>2. ActiveRefs'
        BY <1>3, RefsKept DEF aufs_init_register, PhaseInv, KernHolds
    <2> QED
        BY <2>2, <2>3, <2>4
<1>4. CASE aufs_init_kern_mount
    <2>3. gen \in Gens
        BY <1>4 DEF aufs_init_kern_mount, PhaseInv
    <2>4. /\ s_active' \in [Gens -> Nat]
          /\ populated' \in [Gens -> BOOLEAN]
          /\ rdonly' \in [Gens -> BOOLEAN]
        BY <1>4, <2>3, GetSb DEF aufs_init_kern_mount, TypeOK
    <2>1. TypeOK'
        BY <1>4, <2>4 DEF aufs_init_kern_mount, TypeOK, PCs
    <2>5. PhaseInv' /\ MountInv'
        BY <1>4 DEF aufs_init_kern_mount, TypeOK, PhaseInv, MountInv
    <2>2. ASSUME NEW g \in Gens
          PROVE  s_active'[g] = Cardinality(MountsOf(g)')
                                + (IF KernHolds(g)' THEN 1 ELSE 0)
        <3>1. MountsOf(g)' = MountsOf(g) /\ Cardinality(MountsOf(g)) \in Nat
            BY <1>4, CountType DEF aufs_init_kern_mount, MountsOf
        <3>2. CASE aufs_mount' = "MNT" /\ pc' = "populate" /\ get_sb_single(gen, FALSE)
            <4>1. s_active' = [s_active EXCEPT ![gen] = @ + 1]
                BY <3>2 DEF get_sb_single
            <4>2. s_active[g] = Cardinality(MountsOf(g)) /\ (KernHolds(g)' <=> g = gen)
                BY <1>4, <3>1, <3>2 DEF aufs_init_kern_mount, PhaseInv, KernHolds, ActiveRefs
            <4> QED
                BY <3>1, <4>1, <4>2 DEF TypeOK
        <3>3. CASE aufs_mount' = "ERR" /\ UNCHANGED sbVars
            BY <1>4, <3>1, <3>3 DEF aufs_init_kern_mount, PhaseInv, KernHolds, ActiveRefs
        <3> QED
            BY <1>4, <3>2, <3>3 DEF aufs_init_kern_mount
    <2> QED
        BY <2>1, <2>2, <2>5 DEF ActiveRefs
<1>5. CASE aufs_init_unwind
    <2>1. TypeOK'
        BY <1>5 DEF aufs_init_unwind, TypeOK, PCs
    <2>2. PhaseInv' /\ MountInv'
        BY <1>5 DEF aufs_init_unwind, TypeOK, PhaseInv, MountInv
    <2>3. ActiveRefs'
        BY <1>5, RefsKept DEF aufs_init_unwind, PhaseInv, KernHolds
    <2> QED
        BY <2>1, <2>2, <2>3
<1>6. CASE aufs_init_populate
    <2>1. TypeOK'
        BY <1>6 DEF aufs_init_populate, TypeOK, PCs
    <2>2. PhaseInv' /\ MountInv'
        BY <1>6 DEF aufs_init_populate, TypeOK, PhaseInv, MountInv
    <2>3. ActiveRefs'
        BY <1>6, RefsKept DEF aufs_init_populate, PhaseInv, KernHolds
    <2> QED
        BY <2>1, <2>2, <2>3
<1>7. CASE aufs_exit_kern_unmount
    <2>1. \A g \in Gens : Cardinality(MountsOf(g)) \in Nat /\ MountsOf(g)' = MountsOf(g)
        BY <1>7, CountType DEF aufs_exit_kern_unmount, MountsOf
    <2>2. s_active' \in [Gens -> Nat]
        <3>1. CASE aufs_mount = "MNT" /\ deactivate_super(gen)
            <4>1. gen \in Gens /\ s_active \in [Gens -> Nat]
                BY <1>7 DEF aufs_exit_kern_unmount, TypeOK, PhaseInv
            <4>2. s_active[gen] = Cardinality(MountsOf(gen)) + 1
                BY <1>7, <3>1, <4>1 DEF aufs_exit_kern_unmount, ActiveRefs, KernHolds
            <4> QED
                BY <2>1, <3>1, <4>1, <4>2 DEF deactivate_super
        <3>2. CASE UNCHANGED s_active
            BY <3>2 DEF TypeOK
        <3> QED
            BY <1>7, <3>1, <3>2 DEF aufs_exit_kern_unmount
    <2>3. TypeOK'
        BY <1>7, <2>2 DEF aufs_exit_kern_unmount, deactivate_super, TypeOK, PCs
    <2>5. PhaseInv' /\ MountInv'
        BY <1>7 DEF aufs_exit_kern_unmount, deactivate_super, TypeOK, PhaseInv, MountInv
    <2>4. ActiveRefs'
        BY <1>7, <2>1 DEF aufs_exit_kern_unmount, deactivate_super, TypeOK, PhaseInv,
                          ActiveRefs, KernHolds
    <2> QED
        BY <2>3, <2>4, <2>5
<1>8. CASE aufs_exit_unregister
    <2>1. TypeOK'
        BY <1>8 DEF aufs_exit_unregister, TypeOK, PCs
    <2>2. PhaseInv' /\ MountInv'
        BY <1>8 DEF aufs_exit_unregister, TypeOK, PhaseInv, MountInv
    <2>3. ActiveRefs'
        BY <1>8, RefsKept DEF aufs_exit_unregister, PhaseInv, KernHolds
    <2> QED
        BY <2>1, <2>2, <2>3
<1>9. CASE FreeModule
    <2>1. TypeOK'
        BY <1>9 DEF FreeModule, TypeOK, PCs
    <2>2. PhaseInv' /\ MountInv'
        BY <1>9 DEF FreeModule, TypeOK, PhaseInv, MountInv
    <2>3. ActiveRefs'
        BY <1>9, RefsKept DEF FreeModule, PhaseInv, KernHolds
    <2> QED
        BY <2>1, <2>2, <2>3
<1> QED
    BY <1>1, <1>2, <1>3, <1>4, <1>5, <1>6, <1>7, <1>8, <1>9 DEF ModuleThread

\* The steps of processes that mount, use and unmount the file system.
LEMMA ProcessStep ==
    ASSUME ModuleInv, UserStep
    PROVE  ModuleInv'
<1> USE MaxGenAssumption DEF ModuleInv, Gens, GenOrNo, modVars, sbVars, userVars, fileVars
<1>1. ASSUME NEW m \in MountPoints, MountBegin(m)
      PROVE  ModuleInv'
    <2>1. TypeOK'
        BY <1>1 DEF MountBegin, TypeOK
    <2>2. PhaseInv' /\ MountInv'
        BY <1>1 DEF MountBegin, TypeOK, PhaseInv, MountInv
    <2>3. ActiveRefs'
        BY <1>1, RefsKept DEF MountBegin, KernHolds
    <2> QED
        BY <2>1, <2>2, <2>3
<1>2. ASSUME NEW m \in MountPoints, NEW ro \in BOOLEAN, MountFinish(m, ro)
      PROVE  ModuleInv'
    <2>1. fault' \in BOOLEAN
        BY <1>2, Zenon DEF MountFinish, Touch
    <2>2. CASE /\ UNCHANGED <<s_active, populated, mounted>>
               /\ UNCHANGED rdonly \/ do_remount_sb(getting[m], ro)
        <3>4. rdonly' \in [Gens -> BOOLEAN]
            <4>1. getting[m] \in Gens
                BY <1>2 DEF MountFinish, TypeOK
            <4>2. do_remount_sb(getting[m], ro) => rdonly' \in [Gens -> BOOLEAN]
                BY <4>1, Remount
            <4> QED
                BY <2>2, <4>2 DEF TypeOK
        <3>1. TypeOK'
            BY <1>2, <2>1, <2>2, <3>4 DEF MountFinish, TypeOK
        <3>2. PhaseInv' /\ MountInv'
            BY <1>2, <2>2 DEF MountFinish, TypeOK, PhaseInv, MountInv
        <3>3. ActiveRefs'
            BY <1>2, <2>2, RefsKept DEF MountFinish, KernHolds
        <3> QED
            BY <3>1, <3>2, <3>3
    <2>3. CASE /\ get_sb_single(getting[m], ro)
               /\ mounted' = [mounted EXCEPT ![m] = getting[m]]
        <3>1. getting[m] \in Gens /\ mounted[m] = 0
            BY <1>2 DEF MountFinish, TypeOK, MountInv
        <3>2. /\ s_active' \in [Gens -> Nat]
              /\ populated' \in [Gens -> BOOLEAN]
              /\ rdonly' \in [Gens -> BOOLEAN]
              /\ s_active[getting[m]] > 0 => populated' = populated
              /\ \A k \in Gens : k # getting[m] => populated'[k] = populated[k]
            BY <2>3, <3>1, GetSb
        <3>3. TypeOK'
            BY <1>2, <2>1, <2>3, <3>1, <3>2 DEF MountFinish, TypeOK
        <3>8. MountInv'
            BY <1>2, <2>3 DEF MountFinish, TypeOK, MountInv
        <3>4. mod = "live" /\ aufs_mount = "MNT" => s_active[gen] > 0
            <4>1. \A g \in Gens : Cardinality(MountsOf(g)) \in Nat
                BY CountType DEF MountsOf
            <4> QED
                BY <4>1 DEF PhaseInv, ActiveRefs, KernHolds, TypeOK
        <3>5. mod = "live" /\ aufs_mount = "MNT" => populated'[gen]
            BY <3>2, <3>4 DEF PhaseInv
        <3>6. PhaseInv'
            BY <1>2, <3>5 DEF MountFinish, PhaseInv
        <3>7. ASSUME NEW g \in Gens
              PROVE  s_active'[g] = Cardinality(MountsOf(g)')
                                    + (IF KernHolds(g)' THEN 1 ELSE 0)
            <4>1. Cardinality(MountsOf(g)') = Cardinality(MountsOf(g))
                                              + (IF g = getting[m] THEN 1 ELSE 0)
                <5>1. mounted \in [MountPoints -> GenOrNo]
                    BY DEF TypeOK
                <5>2. Cardinality({x \in MountPoints :
                                     [mounted EXCEPT ![m] = getting[m]][x] = g})
                        = Cardinality({x \in MountPoints : mounted[x] = g})
                          + (IF g = getting[m] THEN 1 ELSE 0)
                    BY <3>1, <5>1, CountMount
                <5> QED
                    BY <2>3, <5>2 DEF MountsOf
            <4>2. Cardinality(MountsOf(g)) \in Nat
                BY CountType DEF MountsOf
            <4>3. KernHolds(g)' <=> KernHolds(g)
                BY <1>2 DEF MountFinish, KernHolds
            <4> QED
                BY <2>3, <3>1, <4>1, <4>2, <4>3 DEF get_sb_single, ActiveRefs, TypeOK
        <3> QED
            BY <3>3, <3>6, <3>7, <3>8 DEF ActiveRefs
    <2> QED
        BY <1>2, <2>2, <2>3 DEF MountFinish
<1>3. ASSUME NEW m \in MountPoints, Umount(m)
      PROVE  ModuleInv'
    <2>1. mounted[m] \in Gens
        BY <1>3 DEF Umount, TypeOK
    <2>2. ASSUME NEW g \in Gens
          PROVE  /\ s_active'[g] = Cardinality(MountsOf(g)')
                                   + (IF KernHolds(g)' THEN 1 ELSE 0)
                 /\ s_active'[g] \in Nat
        <3>1. /\ Cardinality(MountsOf(g)') = Cardinality(MountsOf(g))
                                             - (IF g = mounted[m] THEN 1 ELSE 0)
              /\ g = mounted[m] => Cardinality(MountsOf(g)) > 0
            <4>1. mounted \in [MountPoints -> GenOrNo] /\ mounted[m] # 0
                BY <1>3 DEF Umount, TypeOK
            <4>2. /\ Cardinality({x \in MountPoints :
                                     [mounted EXCEPT ![m] = 0][x] = g})
                        = Cardinality({x \in MountPoints : mounted[x] = g})
                          - (IF g = mounted[m] THEN 1 ELSE 0)
                  /\ g = mounted[m] => Cardinality({x \in MountPoints : mounted[x] = g}) > 0
                BY <4>1, CountUmount
            <4> QED
                BY <1>3, <4>2 DEF Umount, MountsOf
        <3>2. Cardinality(MountsOf(g)) \in Nat
            BY CountType DEF MountsOf
        <3>3. KernHolds(g)' <=> KernHolds(g)
            BY <1>3 DEF Umount, KernHolds
        <3> QED
            BY <1>3, <2>1, <3>1, <3>2, <3>3 DEF Umount, deactivate_super, ActiveRefs, TypeOK
    <2>3. s_active' \in [Gens -> Nat]
        BY <1>3, <2>2 DEF Umount, deactivate_super, TypeOK
    <2>4. fault' \in BOOLEAN
        BY <1>3, Zenon DEF Umount, deactivate_super
    <2>5. TypeOK'
        BY <1>3, <2>3, <2>4 DEF Umount, deactivate_super, TypeOK
    <2>6. PhaseInv' /\ MountInv'
        BY <1>3 DEF Umount, deactivate_super, PhaseInv, MountInv, TypeOK
    <2> QED
        BY <2>2, <2>5, <2>6 DEF ActiveRefs
<1>4. ASSUME NEW f \in Files, Access(f) \/ Close(f)
      PROVE  ModuleInv'
    <2>0. fault \in BOOLEAN
        BY DEF TypeOK
    <2>1. fault' \in BOOLEAN
        BY <1>4, <2>0, Zenon DEF Access, Close, TouchOps, Touch
    <2>2. /\ opening' \in [Files -> MountPoints \cup {NoMount}]
          /\ file' \in [Files -> MountPoints \cup {NoMount}]
          /\ writing' \in SUBSET Files
        BY <1>4 DEF Access, Close, TypeOK
    <2>3. UNCHANGED <<mod, gen, pc, registered, aufs_mount, s_active, populated,
                      rdonly, getting, mounted>>
        BY <1>4 DEF Access, Close
    <2>4. TypeOK'
        BY <2>1, <2>2, <2>3 DEF TypeOK
    <2>5. PhaseInv' /\ MountInv'
        BY <2>3 DEF PhaseInv, MountInv
    <2>6. ActiveRefs'
        BY <2>3, RefsKept DEF KernHolds
    <2> QED
        BY <2>4, <2>5, <2>6
<1>5. ASSUME NEW f \in Files, NEW m \in MountPoints, NEW w \in BOOLEAN, Open(f, m, w)
      PROVE  ModuleInv'
    <2>0. fault \in BOOLEAN
        BY DEF TypeOK
    <2>1. fault' \in BOOLEAN
        BY <1>5, <2>0, Zenon DEF Open, TouchOps, Touch
    <2>2. TypeOK'
        BY <1>5, <2>1 DEF Open, TypeOK
    <2>3. PhaseInv' /\ MountInv'
        BY <1>5 DEF Open, PhaseInv, MountInv
    <2>4. ActiveRefs'
        BY <1>5, RefsKept DEF Open, KernHolds
    <2> QED
        BY <2>2, <2>3, <2>4
<1>6. ASSUME NEW f \in Files, OpenFails(f) \/ \E m \in MountPoints : may_open(f, m)
      PROVE  ModuleInv'
    <2>1. UNCHANGED <<mod, gen, pc, registered, aufs_mount, s_active, populated,
                      rdonly, getting, mounted, file, writing, fault>>
        BY <1>6 DEF OpenFails, may_open
    <2>2. opening' \in [Files -> MountPoints \cup {NoMount}]
        BY <1>6 DEF OpenFails, may_open, TypeOK
    <2>3. TypeOK'
        BY <2>1, <2>2 DEF TypeOK
    <2>4. PhaseInv' /\ MountInv'
        BY <2>1 DEF PhaseInv, MountInv
    <2>5. ActiveRefs'
        BY <2>1, RefsKept DEF KernHolds
    <2> QED
        BY <2>3, <2>4, <2>5
<1> QED
    BY <1>1, <1>2, <1>3, <1>4, <1>5, <1>6 DEF UserStep

LEMMA ModuleStep == ModuleInv /\ [Next]_vars => ModuleInv'
<1> SUFFICES ASSUME ModuleInv, [Next]_vars PROVE ModuleInv'
    OBVIOUS
<1>1. CASE Next
    BY <1>1, ThreadStep, ProcessStep DEF Next
<1>2. CASE UNCHANGED vars
    <2>1. TypeOK' /\ PhaseInv' /\ MountInv'
        BY <1>2 DEF ModuleInv, vars, modVars, sbVars, userVars, fileVars, TypeOK, PhaseInv, MountInv
    <2>2. ActiveRefs'
        BY <1>2, RefsKept DEF ModuleInv, vars, modVars, sbVars, userVars, fileVars, KernHolds
    <2> QED
        BY <2>1, <2>2 DEF ModuleInv
<1> QED
    BY <1>1, <1>2

\* The inductive invariant is an invariant of the specification.
THEOREM ModuleInvariant == Spec => []ModuleInv
BY ModuleInit, ModuleStep, PTL DEF Spec

-----------------------------------------------------------------------------
(***************************************************************************)
(* What follows from it.                                                   *)
(***************************************************************************)

\* Every variable of the life cycle keeps its type: in particular no
\* interleaving of mount, umount, aufs_init and aufs_exit takes an active
\* count below zero.
THEOREM TypeCorrect == Spec => []TypeOK
<1>1. ModuleInv => TypeOK
    BY DEF ModuleInv
<1> QED
    BY <1>1, ModuleInvariant, PTL

\* The active count of every super block is the number of its mounts plus the
\* module's own (deactivate_super calls kill_litter_super exactly when the
\* last of them goes), with or without discipline of the users.
THEOREM RefsExact == Spec => []ActiveRefs
<1>1. ModuleInv => ActiveRefs
    BY DEF ModuleInv
<1> QED
    BY <1>1, ModuleInvariant, PTL

\* On no path of aufs_init and aufs_exit does freed memory stay registered.
THEOREM NeverRegisteredUnloaded == Spec => []RegisteredIsResident
<1>1. ModuleInv => RegisteredIsResident
    BY DEF ModuleInv, PhaseInv, RegisteredIsResident
<1> QED
    BY <1>1, ModuleInvariant, PTL

\* The mount aufs_init keeps pins the populated tree for every later mount.
THEOREM TreePinned == Spec => []MountSeesTree
<1>1. ModuleInv => MountSeesTree
    BY DEF ModuleInv, PhaseInv, MountSeesTree
<1> QED
    BY <1>1, ModuleInvariant, PTL

-----------------------------------------------------------------------------
(***************************************************************************)
(* Use after unload, under the discipline the code leaves to its users.    *)
(***************************************************************************)

LEMMA InUseStep ==
    ASSUME ~RmmodWhileMounted, ~MountDuringExit, ModuleInv, InUseInv, [Next]_vars
    PROVE  InUseInv'
<1> USE MaxGenAssumption, NoMountAssumption
    DEF ModuleInv, Gens, GenOrNo, modVars, sbVars, userVars, fileVars
<1>1. CASE Insmod
    BY <1>1 DEF Insmod, InUseInv, NotInUse, PhaseInv
<1>2. CASE Rmmod
    BY <1>2 DEF Rmmod, InUseInv, NotInUse, PhaseInv
<1>3. CASE aufs_init_register
    BY <1>3 DEF aufs_init_register, InUseInv, NotInUse, PhaseInv
<1>4. CASE aufs_init_kern_mount
    BY <1>4 DEF aufs_init_kern_mount, InUseInv, NotInUse, PhaseInv
<1>5. CASE aufs_init_unwind \/ aufs_init_populate
    BY <1>5 DEF aufs_init_unwind, aufs_init_populate, InUseInv, NotInUse, PhaseInv
<1>6. CASE aufs_exit_kern_unmount
    <2>1. ~fault'
        BY <1>6 DEF aufs_exit_kern_unmount, deactivate_super, Resident, InUseInv, PhaseInv
    <2> QED
        BY <1>6, <2>1 DEF aufs_exit_kern_unmount, InUseInv, NotInUse, PhaseInv
<1>7. CASE aufs_exit_unregister \/ FreeModule
    BY <1>7 DEF aufs_exit_unregister, FreeModule, InUseInv, NotInUse, PhaseInv
<1>8. ASSUME NEW m \in MountPoints, MountBegin(m)
      PROVE  InUseInv'
    <2>1. mod \notin {"going", "unloaded"} /\ pc # "register"
        BY <1>8 DEF MountBegin, PhaseInv
    <2> QED
        BY <1>8, <2>1 DEF MountBegin, InUseInv, TypeOK
<1>9. ASSUME NEW m \in MountPoints, NEW ro \in BOOLEAN, MountFinish(m, ro)
      PROVE  InUseInv'
    <2>1. mod \notin {"going", "unloaded"} /\ pc # "register"
        BY <1>9 DEF MountFinish, InUseInv, NotInUse
    <2>2. ~fault'
        BY <1>9, <2>1 DEF MountFinish, Touch, Resident, InUseInv
    <2> QED
        BY <1>9, <2>1, <2>2 DEF MountFinish, InUseInv, TypeOK
<1>10. ASSUME NEW m \in MountPoints, Umount(m)
       PROVE  InUseInv'
    <2>1. mod \notin {"going", "unloaded"} /\ pc # "register"
        BY <1>10 DEF Umount, InUseInv, NotInUse
    <2>2. ~fault'
        BY <1>10, <2>1 DEF Umount, deactivate_super, Resident, InUseInv
    <2> QED
        BY <1>10, <2>1, <2>2 DEF Umount, InUseInv, TypeOK
<1>11. ASSUME NEW f \in Files, Access(f) \/ Close(f)
       PROVE  InUseInv'
    <2>1. file[f] \in MountPoints /\ file[f] # NoMount
        BY <1>11 DEF Access, Close, TypeOK
    <2>2. mod \notin {"going", "unloaded"} /\ pc # "register"
        BY <1>11, <2>1 DEF InUseInv, NotInUse
    <2>3. ~fault'
        BY <1>11, <2>1, <2>2 DEF Access, Close, TouchOps, Touch, Resident, InUseInv
    <2> QED
        BY <1>11, <2>2, <2>3 DEF Access, Close, InUseInv, TypeOK
<1>12. ASSUME NEW f \in Files, NEW m \in MountPoints, NEW w \in BOOLEAN, Open(f, m, w)
       PROVE  InUseInv'
    <2>1. mod \notin {"going", "unloaded"} /\ pc # "register"
        BY <1>12 DEF Open, InUseInv, NotInUse
    <2>2. ~fault'
        BY <1>12, <2>1 DEF Open, TouchOps, Touch, Resident, InUseInv
    <2> QED
        BY <1>12, <2>1, <2>2 DEF Open, InUseInv, TypeOK
<1>13. CASE UNCHANGED vars
    BY <1>13 DEF vars, InUseInv, NotInUse
<1>14. ASSUME NEW f \in Files, NEW m \in MountPoints, may_open(f, m)
       PROVE  InUseInv'
    <2>1. mod \notin {"going", "unloaded"} /\ pc # "register"
        BY <1>14 DEF may_open, InUseInv, NotInUse
    <2> QED
        BY <1>14, <2>1 DEF may_open, InUseInv, TypeOK
<1>15. ASSUME NEW f \in Files, OpenFails(f)
       PROVE  InUseInv'
    <2>1. mod \notin {"going", "unloaded"} /\ pc # "register"
        BY <1>15 DEF OpenFails, InUseInv, NotInUse
    <2> QED
        BY <1>15, <2>1 DEF OpenFails, InUseInv, TypeOK
<1> QED
    BY <1>1, <1>2, <1>3, <1>4, <1>5, <1>6, <1>7, <1>8, <1>9, <1>10, <1>11, <1>12, <1>13,
       <1>14, <1>15
    DEF Next, ModuleThread, UserStep

\* If rmmod is only called when aufs is neither mounted nor open, and nobody
\* mounts while aufs_exit runs, no pointer into an unloaded module is ever
\* followed.  Run module_exit_race shows what happens without the second, run
\* module_rmmod_mounted what is left behind without the first: aufs_type and
\* aufs_file_operations have no .owner (aufs.c 11-21), and aufs_exit
\* unregisters last.
THEOREM DisciplinedUnloadIsSafe ==
    ASSUME ~RmmodWhileMounted, ~MountDuringExit
    PROVE  Spec => []NoUseAfterUnload
<1>1. Init => InUseInv
    BY DEF Init, InUseInv, NotInUse
<1>2. ModuleInv /\ InUseInv /\ [Next]_vars => InUseInv'
    BY InUseStep
<1>3. InUseInv => NoUseAfterUnload
    BY DEF InUseInv, NoUseAfterUnload
<1> QED
    BY <1>1, <1>2, <1>3, ModuleInvariant, PTL DEF Spec
=============================================================================
