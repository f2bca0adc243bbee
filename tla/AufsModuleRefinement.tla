------------------------ MODULE AufsModuleRefinement ------------------------
(***************************************************************************)
(* AufsModule implements SuperBlock: counting references is as good as     *)
(* knowing the holders.  And what the shared flags of the super block mean *)
(* for writers.                                                            *)
(***************************************************************************)
EXTENDS AufsModuleProofs

-----------------------------------------------------------------------------
(***************************************************************************)
(* Counters and holders.                                                   *)
(***************************************************************************)

\* A count is positive exactly if somebody holds the super block.
HeldInv == \A g \in Gens : s_active[g] > 0 <=> HoldersOf(g) # {}

LEMMA ActiveIffHeld == ModuleInv => HeldInv
<1> SUFFICES ASSUME ModuleInv, NEW g \in Gens
             PROVE  s_active[g] > 0 <=> HoldersOf(g) # {}
    BY DEF HeldInv
<1>1. IsFiniteSet(MountsOf(g)) /\ Cardinality(MountsOf(g)) \in Nat
    BY CountType DEF MountsOf
<1>2. Cardinality(MountsOf(g)) = 0 <=> MountsOf(g) = {}
    BY <1>1, FS_EmptySet
<1>3. s_active[g] = Cardinality(MountsOf(g)) + (IF KernHolds(g) THEN 1 ELSE 0)
    BY DEF ModuleInv, ActiveRefs
<1> QED
    BY <1>1, <1>2, <1>3 DEF HoldersOf

\* A step that leaves holders, counts and trees alone is not seen.
LEMMA StutterStep ==
    ASSUME \A g \in Gens : HoldersOf(g)' = HoldersOf(g),
           UNCHANGED s_active,
           \A g \in Gens : s_active[g] > 0 => populated'[g] = populated[g]
    PROVE  UNCHANGED SB!vars
<1>1. [g \in Gens |-> HoldersOf(g)]' = [g \in Gens |-> HoldersOf(g)]
    OBVIOUS
<1>2. {g \in Gens : s_active[g] > 0}' = {g \in Gens : s_active[g] > 0}
    OBVIOUS
<1>3. {g \in Gens : s_active[g] > 0 /\ populated[g]}'
        = {g \in Gens : s_active[g] > 0 /\ populated[g]}
    OBVIOUS
<1> QED
    BY <1>1, <1>2, <1>3 DEF SB!vars

\* One more holder through get_sb_single is an Acquire.
LEMMA AcquireStep ==
    ASSUME ModuleInv, NEW g \in Gens, NEW h \in MountPoints \cup {NoMount},
           NEW ro \in BOOLEAN, get_sb_single(g, ro), h \notin HoldersOf(g),
           \A k \in Gens : HoldersOf(k)' = IF k = g THEN HoldersOf(k) \cup {h}
                                                    ELSE HoldersOf(k)
    PROVE  SB!Next
<1> DEFINE Held == [k \in Gens |-> HoldersOf(k)]
           Alive == {k \in Gens : s_active[k] > 0}
           Full == {k \in Gens : s_active[k] > 0 /\ populated[k]}
<1>1. s_active' = [s_active EXCEPT ![g] = @ + 1] /\ s_active \in [Gens -> Nat]
    BY DEF get_sb_single, ModuleInv, TypeOK
<1>2. Held' = [Held EXCEPT ![g] = @ \cup {h}]
    OBVIOUS
<1>3. Alive' = Alive \cup {g}
    BY <1>1
<1>4. Full' = Full
    <2>1. \A k \in Gens : k # g => populated'[k] = populated[k]
        BY GetSb DEF ModuleInv
    <2>2. populated'[g] <=> populated[g] /\ s_active[g] > 0
        <3>1. populated' = [populated EXCEPT ![g] = populated[g] /\ s_active[g] > 0]
            BY DEF get_sb_single
        <3>2. populated \in [Gens -> BOOLEAN]
            BY DEF ModuleInv, TypeOK
        <3> HIDE DEF Held, Alive, Full
        <3> QED
            BY <3>1, <3>2, Zenon
    <2> QED
        BY <1>1, <2>1, <2>2
<1>5. h \notin Held[g]
    OBVIOUS
<1> HIDE DEF Held, Alive, Full
<1>6. SB!Acquire(g, h)
    BY <1>2, <1>3, <1>4, <1>5 DEF SB!Acquire, Held, Alive, Full
<1> QED
    BY <1>6 DEF SB!Next

\* One holder less through deactivate_super is a Release.
LEMMA ReleaseStep ==
    ASSUME ModuleInv, ModuleInv', NEW g \in Gens, NEW h \in MountPoints \cup {NoMount},
           deactivate_super(g), h \in HoldersOf(g),
           \A k \in Gens : HoldersOf(k)' = IF k = g THEN HoldersOf(k) \ {h}
                                                    ELSE HoldersOf(k)
    PROVE  SB!Next
<1> DEFINE Held == [k \in Gens |-> HoldersOf(k)]
           Alive == {k \in Gens : s_active[k] > 0}
           Full == {k \in Gens : s_active[k] > 0 /\ populated[k]}
<1>1. \A k \in Gens : s_active[k] > 0 <=> HoldersOf(k) # {}
    BY ActiveIffHeld DEF HeldInv
<1>2. \A k \in Gens : s_active'[k] > 0 <=> HoldersOf(k)' # {}
    <2>1. HeldInv'
        BY ActiveIffHeld, PTL
    <2> QED
        BY <2>1 DEF HeldInv
<1>3. Held' = [Held EXCEPT ![g] = @ \ {h}]
    OBVIOUS
<1>4. Alive' = IF Held[g] = {h} THEN Alive \ {g} ELSE Alive
    BY <1>1, <1>2
<1>5. UNCHANGED populated
    BY DEF deactivate_super
<1>6. Full' = IF Held[g] = {h} THEN Full \ {g} ELSE Full
    BY <1>1, <1>2, <1>5
<1>7. h \in Held[g]
    OBVIOUS
<1> HIDE DEF Held, Alive, Full
<1>8. SB!Release(g, h)
    BY <1>3, <1>4, <1>6, <1>7 DEF SB!Release, Held, Alive, Full
<1> QED
    BY <1>8 DEF SB!Next

-----------------------------------------------------------------------------
(***************************************************************************)
(* The simulation, action by action.                                       *)
(***************************************************************************)

LEMMA HandleInit == Init => SB!Init
<1> SUFFICES ASSUME Init PROVE SB!Init
    OBVIOUS
<1>1. \A g \in Gens : HoldersOf(g) = {}
    BY MaxGenAssumption DEF Init, Gens, HoldersOf, MountsOf, KernHolds
<1>2. [g \in Gens |-> HoldersOf(g)] = [g \in Gens |-> {}]
    BY <1>1
<1>3. {g \in Gens : s_active[g] > 0} = {}
    BY DEF Init
<1>4. {g \in Gens : s_active[g] > 0 /\ populated[g]} = {}
    BY DEF Init
<1> QED
    BY <1>2, <1>3, <1>4 DEF SB!Init

LEMMA HandleStep ==
    ASSUME ModuleInv, ModuleInv', [Next]_vars
    PROVE  [SB!Next]_(SB!vars)
<1> USE MaxGenAssumption, NoMountAssumption
    DEF Gens, GenOrNo, modVars, sbVars, userVars, fileVars
\* Steps that touch neither counts, nor mounts, nor the module's own mount.
<1>1. ASSUME UNCHANGED <<s_active, populated, mounted>>,
             \A g \in Gens : KernHolds(g)' <=> KernHolds(g)
      PROVE  UNCHANGED SB!vars
    <2>1. \A g \in Gens : HoldersOf(g)' = HoldersOf(g)
        BY <1>1 DEF HoldersOf, MountsOf
    <2> QED
        BY <1>1, <2>1, StutterStep
<1>2. CASE Insmod \/ Rmmod \/ aufs_init_register \/ aufs_init_unwind
    <2>1. UNCHANGED <<s_active, populated, mounted>>
        BY <1>2 DEF Insmod, Rmmod, aufs_init_register, aufs_init_unwind
    <2>2. \A g \in Gens : KernHolds(g)' <=> KernHolds(g)
        BY <1>2 DEF Insmod, Rmmod, aufs_init_register, aufs_init_unwind, KernHolds,
                    ModuleInv, PhaseInv
    <2> QED
        BY <1>1, <2>1, <2>2
<1>3. CASE aufs_exit_unregister \/ FreeModule
    <2>1. UNCHANGED <<s_active, populated, mounted>>
        BY <1>3 DEF aufs_exit_unregister, FreeModule
    <2>2. \A g \in Gens : KernHolds(g)' <=> KernHolds(g)
        BY <1>3 DEF aufs_exit_unregister, FreeModule, KernHolds, ModuleInv, PhaseInv
    <2> QED
        BY <1>1, <2>1, <2>2
<1>4. CASE aufs_init_kern_mount
    <2>1. gen \in Gens /\ aufs_mount = "NULL"
        BY <1>4 DEF aufs_init_kern_mount, ModuleInv, PhaseInv
    <2>2. CASE aufs_mount' = "MNT" /\ pc' = "populate" /\ get_sb_single(gen, FALSE)
        <3>1. NoMount \notin HoldersOf(gen)
            BY <2>1 DEF HoldersOf, MountsOf, KernHolds
        <3>2. \A k \in Gens : HoldersOf(k)' = IF k = gen THEN HoldersOf(k) \cup {NoMount}
                                                          ELSE HoldersOf(k)
            BY <1>4, <2>1, <2>2 DEF aufs_init_kern_mount, HoldersOf, MountsOf, KernHolds
        <3> QED
            BY <2>1, <2>2, <3>1, <3>2, AcquireStep
    <2>3. CASE aufs_mount' = "ERR" /\ UNCHANGED sbVars
        <3>1. \A g \in Gens : KernHolds(g)' <=> KernHolds(g)
            BY <2>1, <2>3 DEF KernHolds
        <3> QED
            BY <1>1, <1>4, <2>3, <3>1 DEF aufs_init_kern_mount
    <2> QED
        BY <1>4, <2>2, <2>3 DEF aufs_init_kern_mount
<1>5. CASE aufs_init_populate
    <2>1. /\ gen \in Gens /\ KernHolds(gen)
          /\ \A g \in Gens : HoldersOf(g)' = HoldersOf(g)
          /\ UNCHANGED s_active
        BY <1>5 DEF aufs_init_populate, ModuleInv, PhaseInv, KernHolds, HoldersOf, MountsOf
    <2>2. CASE populated' = [populated EXCEPT ![gen] = TRUE]
        <3> DEFINE Held == [k \in Gens |-> HoldersOf(k)]
                   Alive == {k \in Gens : s_active[k] > 0}
                   Full == {k \in Gens : s_active[k] > 0 /\ populated[k]}
        <3>1. NoMount \in Held[gen] /\ Held' = Held
            BY <2>1 DEF HoldersOf
        <3>2. Alive' = Alive
            BY <2>1
        <3>3. s_active[gen] > 0
            BY <2>1, ActiveIffHeld DEF HeldInv, HoldersOf
        <3>4. \A k \in Gens : populated'[k] <=> k = gen \/ populated[k]
            <4>1. populated \in [Gens -> BOOLEAN]
                BY DEF ModuleInv, TypeOK
            <4> HIDE DEF Held, Alive, Full
            <4> QED
                BY <2>1, <2>2, <4>1, Zenon
        <3>5. Full' = Full \cup {gen}
            BY <2>1, <3>3, <3>4
        <3> HIDE DEF Held, Alive, Full
        <3>6. ASSUME NEW k \in Gens, k = gen
              PROVE  SB!Next
            <4>1. SB!Fill(k)
                BY <3>1, <3>2, <3>5, <3>6 DEF SB!Fill, Held, Alive, Full
            <4> QED
                BY <4>1 DEF SB!Next
        <3> QED
            BY <2>1, <3>6
    <2>3. CASE UNCHANGED populated
        BY <2>1, <2>3, StutterStep
    <2> QED
        BY <1>5, <2>2, <2>3 DEF aufs_init_populate
<1>6. CASE aufs_exit_kern_unmount
    <2>1. gen \in Gens
        BY <1>6 DEF aufs_exit_kern_unmount, ModuleInv, PhaseInv
    <2>2. CASE aufs_mount = "MNT" /\ deactivate_super(gen)
        <3>1. NoMount \in HoldersOf(gen)
            BY <1>6, <2>1, <2>2 DEF aufs_exit_kern_unmount, HoldersOf, KernHolds
        <3>2. \A k \in Gens : HoldersOf(k)' = IF k = gen THEN HoldersOf(k) \ {NoMount}
                                                          ELSE HoldersOf(k)
            BY <1>6, <2>1, <2>2 DEF aufs_exit_kern_unmount, HoldersOf, MountsOf, KernHolds
        <3> QED
            BY <2>1, <2>2, <3>1, <3>2, ReleaseStep
    <2>3. CASE aufs_mount # "MNT" /\ UNCHANGED <<sbVars, fault>>
        <3>1. \A g \in Gens : KernHolds(g)' <=> KernHolds(g)
            BY <1>6, <2>3 DEF aufs_exit_kern_unmount, KernHolds
        <3> QED
            BY <1>1, <1>6, <2>3, <3>1 DEF aufs_exit_kern_unmount
    <2> QED
        BY <1>6, <2>2, <2>3 DEF aufs_exit_kern_unmount
<1>7. ASSUME NEW m \in MountPoints, NEW ro \in BOOLEAN, MountFinish(m, ro)
      PROVE  [SB!Next]_(SB!vars)
    <2>1. /\ getting[m] \in Gens /\ mounted[m] = 0
          /\ mounted \in [MountPoints -> GenOrNo]
          /\ UNCHANGED <<gen, aufs_mount, pc>>
        BY <1>7 DEF MountFinish, ModuleInv, TypeOK, MountInv
    <2>2. CASE /\ get_sb_single(getting[m], ro)
               /\ mounted' = [mounted EXCEPT ![m] = getting[m]]
        <3>1. m \notin HoldersOf(getting[m])
            BY <2>1 DEF HoldersOf, MountsOf
        <3>2. \A k \in Gens : HoldersOf(k)' = IF k = getting[m] THEN HoldersOf(k) \cup {m}
                                                          ELSE HoldersOf(k)
            BY <2>1, <2>2 DEF HoldersOf, MountsOf, KernHolds
        <3> QED
            BY <2>1, <2>2, <3>1, <3>2, AcquireStep
    <2>3. CASE UNCHANGED <<s_active, populated, mounted>>
        BY <1>1, <2>1, <2>3 DEF KernHolds
    <2> QED
        BY <1>7, <2>2, <2>3 DEF MountFinish
<1>8. ASSUME NEW m \in MountPoints, Umount(m)
      PROVE  [SB!Next]_(SB!vars)
    <2>1. /\ mounted[m] \in Gens
          /\ mounted \in [MountPoints -> GenOrNo]
          /\ mounted' = [mounted EXCEPT ![m] = 0]
          /\ UNCHANGED <<gen, aufs_mount, pc>>
        BY <1>8 DEF Umount, ModuleInv, TypeOK
    <2>2. m \in HoldersOf(mounted[m])
        BY <2>1 DEF HoldersOf, MountsOf
    <2>3. \A k \in Gens : HoldersOf(k)' = IF k = mounted[m] THEN HoldersOf(k) \ {m}
                                                      ELSE HoldersOf(k)
        BY <2>1 DEF HoldersOf, MountsOf, KernHolds
    <2> QED
        BY <1>8, <2>1, <2>2, <2>3, ReleaseStep DEF Umount
<1>9. ASSUME UNCHANGED <<modVars, sbVars, mounted>>
      PROVE  UNCHANGED SB!vars
    BY <1>1, <1>9 DEF KernHolds
<1>10. CASE \/ \E m \in MountPoints : MountBegin(m)
            \/ \E f \in Files : OpenFails(f) \/ Access(f) \/ Close(f)
            \/ \E f \in Files, m \in MountPoints : may_open(f, m)
            \/ \E f \in Files, m \in MountPoints, w \in BOOLEAN : Open(f, m, w)
            \/ UNCHANGED vars
    <2>1. UNCHANGED <<modVars, sbVars, mounted>>
        BY <1>10 DEF MountBegin, may_open, OpenFails, Access, Close, Open, vars
    <2> QED
        BY <1>9, <2>1
<1> QED
    BY <1>2, <1>3, <1>4, <1>5, <1>6, <1>7, <1>8, <1>10 DEF Next, ModuleThread, UserStep

\* AufsModule implements SuperBlock for any number of mount points, descriptors
\* and loads: the active count maintained by mount_single, kern_unmount and
\* umount destroys a super block exactly when its last holder goes.
THEOREM ModuleImplementsSuperBlock == Spec => ImplementsSuperBlock
<1>1. ModuleInv /\ ModuleInv' /\ [Next]_vars => [SB!Next]_(SB!vars)
    BY HandleStep
<1> QED
    BY <1>1, HandleInit, ModuleInvariant, PTL DEF Spec, SB!Spec, ImplementsSuperBlock

-----------------------------------------------------------------------------
(***************************************************************************)
(* Writers and the flags of the shared super block.                        *)
(***************************************************************************)

\* Files are open on mounts, which umount leaves alone meanwhile; where writers
\* are counted, none of them is on a read-only file system.
WriterInv ==
    /\ \A f \in Files : file[f] # NoMount => mounted[file[f]] # 0
    /\ \A f \in writing : file[f] # NoMount
    /\ NoWriterOnReadOnly

\* Setting the flags never makes a super block with a writer read-only.
LEMMA RemountSparesWriters ==
    ASSUME TypeOK, WriterInv, NEW g \in Gens, NEW ro \in BOOLEAN, do_remount_sb(g, ro),
           NEW f \in writing
    PROVE  ~rdonly'[mounted[file[f]]]
<1>1. /\ f \in Files /\ file[f] \in MountPoints
      /\ mounted[file[f]] \in Gens /\ ~rdonly[mounted[file[f]]]
    BY MaxGenAssumption DEF TypeOK, WriterInv, NoWriterOnReadOnly, Gens, GenOrNo
<1>2. ASSUME NEW v, v = (ro /\ (rdonly[g] \/ ~HasWriter(g)))
      PROVE  ~rdonly'[mounted[file[f]]]
    <2>1. rdonly' = [rdonly EXCEPT ![g] = v] /\ rdonly \in [Gens -> BOOLEAN]
        BY <1>2, Zenon DEF do_remount_sb, TypeOK
    <2>2. mounted[file[f]] = g => ~v
        <3>1. mounted[file[f]] = g => HasWriter(g)
            BY Zenon DEF HasWriter
        <3> QED
            BY <1>1, <1>2, <3>1, Zenon
    <2> QED
        BY <1>1, <2>1, <2>2
<1> QED
    BY <1>2

LEMMA WriterStep ==
    ASSUME WritersCounted, ModuleInv, WriterInv, [Next]_vars
    PROVE  WriterInv'
<1> USE MaxGenAssumption, NoMountAssumption
    DEF Gens, GenOrNo, modVars, sbVars, userVars, fileVars
<1>1. TypeOK /\ MountInv
    BY DEF ModuleInv
<1>2. CASE UNCHANGED <<rdonly, userVars>>
    BY <1>2 DEF WriterInv, NoWriterOnReadOnly
\* Steps that may set the flags and mount something on a free mount point.
<1>3. ASSUME NEW g \in Gens, NEW ro \in BOOLEAN, NEW m \in MountPoints,
             UNCHANGED rdonly \/ do_remount_sb(g, ro), UNCHANGED fileVars,
             \/ UNCHANGED mounted
             \/ mounted[m] = 0 /\ mounted' = [mounted EXCEPT ![m] = g]
      PROVE  WriterInv'
    <2>1. \A f \in Files : file[f] # NoMount => mounted'[file[f]] = mounted[file[f]]
        BY <1>1, <1>3 DEF WriterInv, TypeOK
    <2>2. \A f \in writing : ~rdonly'[mounted[file[f]]]
        BY <1>1, <1>3, RemountSparesWriters DEF WriterInv, NoWriterOnReadOnly
    <2>3. writing \subseteq Files
        BY <1>1 DEF TypeOK
    <2> QED
        BY <1>3, <2>1, <2>2, <2>3 DEF WriterInv, NoWriterOnReadOnly
<1>4. CASE Insmod \/ Rmmod \/ aufs_init_register \/ aufs_init_unwind \/ aufs_init_populate
    BY <1>2, <1>4 DEF Insmod, Rmmod, aufs_init_register, aufs_init_unwind,
                      aufs_init_populate
<1>5. CASE aufs_exit_kern_unmount \/ aufs_exit_unregister \/ FreeModule
    BY <1>2, <1>5 DEF aufs_exit_kern_unmount, deactivate_super, aufs_exit_unregister,
                      FreeModule
<1>6. CASE aufs_init_kern_mount
    <2>1. UNCHANGED userVars
        BY <1>6 DEF aufs_init_kern_mount
    <2>2. CASE do_remount_sb(gen, FALSE)
        <3>1. gen \in Gens
            BY <1>6 DEF aufs_init_kern_mount, ModuleInv, PhaseInv
        <3>2. \A f \in writing : ~rdonly'[mounted[file[f]]]
            BY <1>1, <2>2, <3>1, RemountSparesWriters
        <3> QED
            BY <2>1, <3>2 DEF WriterInv, NoWriterOnReadOnly
    <2>3. CASE UNCHANGED rdonly
        BY <1>2, <2>1, <2>3
    <2> QED
        BY <1>6, <2>2, <2>3 DEF aufs_init_kern_mount, get_sb_single
<1>7. ASSUME NEW m \in MountPoints, NEW ro \in BOOLEAN, MountFinish(m, ro)
      PROVE  WriterInv'
    <2>1. getting[m] \in Gens /\ mounted[m] = 0 /\ UNCHANGED fileVars
        BY <1>1, <1>7 DEF MountFinish, TypeOK, MountInv
    <2>2. \/ UNCHANGED rdonly
          \/ do_remount_sb(getting[m], ro)
        BY <1>7 DEF MountFinish, get_sb_single
    <2>3. UNCHANGED mounted \/ mounted' = [mounted EXCEPT ![m] = getting[m]]
        BY <1>7 DEF MountFinish
    <2> QED
        BY <1>3, <2>1, <2>2, <2>3
<1>8. ASSUME NEW m \in MountPoints, Umount(m)
      PROVE  WriterInv'
    <2>1. \A f \in Files : file[f] # NoMount => mounted'[file[f]] = mounted[file[f]]
        BY <1>1, <1>8 DEF Umount, TypeOK
    <2> QED
        BY <1>1, <1>8, <2>1 DEF Umount, deactivate_super, WriterInv, NoWriterOnReadOnly, TypeOK
<1>9. ASSUME NEW m \in MountPoints, MountBegin(m)
      PROVE  WriterInv'
    BY <1>9 DEF MountBegin, WriterInv, NoWriterOnReadOnly
<1>10. ASSUME NEW f \in Files, Access(f) \/ Close(f)
       PROVE  WriterInv'
    <2>1. CASE Access(f)
        BY <2>1 DEF Access, WriterInv, NoWriterOnReadOnly
    <2>2. CASE Close(f)
        <3>1. /\ file' = [file EXCEPT ![f] = NoMount] /\ writing' = writing \ {f}
              /\ UNCHANGED <<mounted, rdonly>>
            BY <2>2 DEF Close
        <3>2. \A g \in writing' : g \in writing /\ file'[g] = file[g]
            BY <1>1, <3>1 DEF TypeOK
        <3>3. \A g \in Files : file'[g] # NoMount => file'[g] = file[g]
            BY <1>1, <3>1 DEF TypeOK
        <3> QED
            BY <1>1, <3>1, <3>2, <3>3 DEF WriterInv, NoWriterOnReadOnly
    <2> QED
        BY <1>10, <2>1, <2>2
<1>13. ASSUME NEW f \in Files, OpenFails(f) \/ \E m \in MountPoints : may_open(f, m)
       PROVE  WriterInv'
    BY <1>13 DEF OpenFails, may_open, WriterInv, NoWriterOnReadOnly
<1>11. ASSUME NEW f \in Files, NEW m \in MountPoints, NEW w \in BOOLEAN, Open(f, m, w)
       PROVE  WriterInv'
    BY <1>1, <1>11 DEF Open, WriterInv, NoWriterOnReadOnly, TypeOK
<1>12. CASE UNCHANGED vars
    BY <1>2, <1>12 DEF vars
<1> QED
    BY <1>4, <1>5, <1>6, <1>7, <1>8, <1>9, <1>10, <1>11, <1>12, <1>13
    DEF Next, ModuleThread, UserStep

\* Although every mount, even a failing one, sets the flags of the super block
\* all mounts share (supper.h:25), no file open for writing is on a read-only
\* file system, if the kernel counts writers when it opens the file.
THEOREM WritersKeepWriting ==
    ASSUME WritersCounted
    PROVE  Spec => []NoWriterOnReadOnly
<1>1. Init => WriterInv
    BY DEF Init, WriterInv, NoWriterOnReadOnly
<1>2. ModuleInv /\ WriterInv /\ [Next]_vars => WriterInv'
    BY WriterStep
<1>3. WriterInv => NoWriterOnReadOnly
    BY DEF WriterInv
<1> QED
    BY <1>1, <1>2, <1>3, ModuleInvariant, PTL DEF Spec
=============================================================================
