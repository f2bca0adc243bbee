--------------------------- MODULE AufsTreeProofs ---------------------------
(***************************************************************************)
(* AufsTree, for every script, any number of processes and both kinds of   *)
(* kernel: d_count is the number of references there are, and so nobody    *)
(* ever holds a dentry that has been freed.                                *)
(***************************************************************************)
EXTENDS AufsTree, FiniteSetTheorems, SequenceTheorems, TLAPS

-----------------------------------------------------------------------------
(***************************************************************************)
(* The inductive invariant.                                                *)
(***************************************************************************)

\* 1 for a reference to d, 0 for one to another dentry.
Is(a, d) == IF a = d THEN 1 ELSE 0

\* How many of the references in f, a function on S, are to d.
Refs(S, f, d) == Cardinality({x \in S : f[x] = d})

Children(dc, d) == Cardinality({c \in Dentries : dc[c].parent = d})

\* The references aufs_mknod takes on what it creates.
Pins(dc, d) == IF d # Root /\ dc[d].inode # "none" THEN 1 ELSE 0

\* The references on d from outside the cache: walks and open files, lookups
\* under way, calls of aufs_init; and s_root and the mounts on the root.
Held(uc, un, fo, mounts, d) ==
    Refs(Users, uc, d) + Refs(Users, un, d) + Refs(Steps, fo, d)
        + (IF d = Root THEN 1 + mounts ELSE 0)

\* The shape of a cache: what is free is blank; the root is a directory; every
\* other dentry in use is in a directory, and directories are in the root.
Shape(dc) ==
    /\ dc \in [Dentries -> Dentry]
    /\ dc[Root].state = "new" /\ dc[Root].inode = "dir"
    /\ dc[Root].parent = Null /\ dc[Root].name = NoName
    /\ \A d \in Dentries :
        /\ dc[d].state = "free" => dc[d] = FreeDentry
        /\ dc[d].state # "free" /\ d # Root =>
            /\ dc[d].parent \in Dentries
            /\ dc[dc[d].parent].inode = "dir"
            /\ dc[d].name \in Names
            /\ dc[d].inode = "dir" => dc[d].parent = Root
            /\ dc[d].state = "new" => dc[d].inode = "none"

\* ext says how many references there are on each dentry from outside.
Counted(dc, ext) ==
    \A d \in Dentries :
        /\ dc[d].state = "free" => ext[d] = 0
        /\ dc[d].state # "free" =>
            /\ dc[d].count = Children(dc, d) + ext[d] + Pins(dc, d)
            /\ dc[d].count >= 1

External(uc, un, fo, mounts) == [d \in Dentries |-> Held(uc, un, fo, mounts, d)]

Cached(dc, ext) ==
    Shape(dc) /\ ext \in [Dentries -> Nat] /\ Counted(dc, ext)

\* Where a process is.
WalkInv(u) ==
    /\ upc[u] = "idle" <=> ucur[u] = Null
    /\ upc[u] # "adding" => unew[u] = Null
    /\ upc[u] = "adding" =>
        /\ unew[u] \in Dentries \ {Root}
        /\ dcache[unew[u]].state = "new"
        /\ dcache[unew[u]].parent = ucur[u]
        /\ \A v \in Users \ {u} : unew[v] # unew[u]
        /\ tpc = "add" => unew[u] # lk
    /\ upc[u] # "open" => f_op[u] = "none"
    /\ upc[u] = "open" => f_op[u] \in {"default", "aufs"}

InCall == tpc \in {"wait", "add", "mknod", "finish"}

\* What the current call of aufs_init knows of the dentry it works on.
CallInv ==
    /\ tpc # "killed" => (tpc = "done" <=> step = Len(Script) + 1)
    /\ \A i \in Steps : i > step => found[i] = Null
    /\ \A i \in Steps : found[i] # Root
    /\ tpc \in {"lookup", "oops"} => lk = Null
    /\ InCall =>
        /\ lk \in Dentries \ {Root}
        /\ dcache[lk].parent = Parent
        /\ dcache[lk].name = Call.name
    /\ tpc = "add" => dcache[lk].state = "new"
    /\ tpc \in {"mknod", "finish"} => dcache[lk].state = "hashed"
    /\ tpc = "finish" => /\ dcache[lk].inode = Call.kind
                         /\ Call.kind = "reg" => dcache[lk].i_fop = "default"

\* What a call has returned is what it looked up, and stays what it was.
CreatedInv ==
    /\ \A i \in Steps :
        created[i] # Null =>
            /\ i < step
            /\ created[i] = found[i]
            /\ dcache[found[i]].state = "hashed"
            /\ dcache[found[i]].name = Script[i].name
            /\ dcache[found[i]].inode = Script[i].kind
            /\ Script[i].kind = "reg" => dcache[found[i]].i_fop = "aufs"
    /\ \A d \in Dentries \ {Root} :
        dcache[d].inode # "none" =>
            \/ \E i \in Steps : created[i] = d
            \/ tpc = "finish" /\ d = lk
    /\ \A d \in Dentries :
        dcache[d].inode = "reg" => dcache[d].i_fop \in {"default", "aufs"}

\* pslot is the result of the last aufs_create_dir call.
SlotInv ==
    /\ pslot = Null => \A j \in LastDir(step - 1) : created[j] = Null
    /\ pslot # Null => \E j \in LastDir(step - 1) : created[j] = pslot

\* Everything but the cache has its type.
FrameType ==
    /\ tpc \in {"lookup", "wait", "add", "mknod", "finish", "done", "oops"}
    /\ step \in 1..(Len(Script) + 1)
    /\ pslot \in Dentries \cup {Null}
    /\ found \in [Steps -> Dentries \cup {Null}]
    /\ created \in [Steps -> Dentries \cup {Null}]
    /\ upc \in [Users -> {"idle", "at", "adding", "open"}]
    /\ ucur \in [Users -> Dentries \cup {Null}]
    /\ unew \in [Users -> Dentries \cup {Null}]
    /\ f_op \in [Users -> {"none", "default", "aufs"}]

\* The tree while it exists, its root referred to by so many mounts.
TreeInv(mounts) ==
    /\ FrameType
    /\ Shape(dcache)
    /\ Counted(dcache, External(ucur, unew, found, mounts))
    /\ \A u \in Users : WalkInv(u)
    /\ CallInv
    /\ CreatedInv
    /\ SlotInv

-----------------------------------------------------------------------------
(***************************************************************************)
(* Constants and counting.                                                 *)
(***************************************************************************)

\* The sets the model is built from are finite, and there is a root.
LEMMA ConstantFacts ==
    /\ Len(Script) \in Nat
    /\ MaxDentry \in Nat
    /\ Root \in Dentries
    /\ Null \notin Dentries
    /\ IsFiniteSet(Dentries) /\ IsFiniteSet(Steps) /\ IsFiniteSet(Users)
    /\ \A i \in Steps : /\ Script[i] \in [name : STRING, kind : {"dir", "reg"}]
                       /\ Script[i].kind \in {"dir", "reg"}
                       /\ Script[i].name \in Names
<1>1. Len(Script) \in Nat
    BY ScriptAssumption, LenProperties
<1>2. MaxDentry \in Nat
    BY MaxDentryAssumption
<1>3. Cardinality(Users) \in Nat
    BY UsersAssumption, FS_CardinalityType
<1>4. Root \in Dentries /\ Null \notin Dentries
    BY <1>1, <1>2, <1>3, MaxDentryAssumption DEF Root, Null, Dentries
<1>5. IsFiniteSet(Dentries) /\ IsFiniteSet(Steps)
    BY <1>1, <1>2, FS_Interval DEF Dentries, Steps
<1>6. ASSUME NEW i \in Steps
      PROVE  Script[i] \in [name : STRING, kind : {"dir", "reg"}]
    BY ScriptAssumption, ElementOfSeq DEF Steps
<1>7. ASSUME NEW i \in Steps
      PROVE  Script[i].kind \in {"dir", "reg"} /\ Script[i].name \in Names
    BY <1>6 DEF Names
<1> QED
    BY <1>1, <1>2, <1>4, <1>5, <1>6, <1>7, UsersAssumption

\* References can be counted.
LEMMA RefsType ==
    ASSUME NEW S, NEW f, NEW d, IsFiniteSet(S)
    PROVE  Refs(S, f, d) \in Nat
<1>1. IsFiniteSet({x \in S : f[x] = d})
    BY FS_Subset
<1> QED
    BY <1>1, FS_CardinalityType DEF Refs

\* A reference counts.
LEMMA RefsPositive ==
    ASSUME NEW S, NEW f, NEW x \in S, IsFiniteSet(S)
    PROVE  Refs(S, f, f[x]) >= 1
<1> DEFINE A == {y \in S : f[y] = f[x]}
<1>1. IsFiniteSet(A)
    BY FS_Subset
<1>2. Cardinality(A) \in Nat /\ Cardinality(A) # 0
    BY <1>1, FS_CardinalityType, FS_EmptySet
<1> QED
    BY <1>2 DEF Refs

\* What is not referred to is counted as 0.
LEMMA RefsZero ==
    ASSUME NEW S, NEW f, NEW d, \A x \in S : f[x] # d
    PROVE  Refs(S, f, d) = 0
<1>1. {x \in S : f[x] = d} = {}
    OBVIOUS
<1> QED
    BY <1>1, FS_EmptySet DEF Refs

\* One reference is moved from one dentry to another.
LEMMA RefsMove ==
    ASSUME NEW S, NEW f, NEW g, NEW x \in S, NEW d, IsFiniteSet(S),
           \A y \in S : y # x => g[y] = f[y]
    PROVE  Refs(S, g, d) = Refs(S, f, d) - Is(f[x], d)
                                         + Is(g[x], d)
<1> DEFINE A == {y \in S : f[y] = d}
           B == {y \in S : g[y] = d}
<1>1. IsFiniteSet(A) /\ IsFiniteSet(B)
    BY FS_Subset
<1>2. A \ {x} = B \ {x}
    OBVIOUS
<1>3. (x \in A <=> f[x] = d) /\ (x \in B <=> g[x] = d)
    OBVIOUS
<1>4. Refs(S, f, d) = Cardinality(A) /\ Refs(S, g, d) = Cardinality(B)
    BY DEF Refs
<1> HIDE DEF A, B
<1>5. Cardinality(A) \in Nat /\ Cardinality(B) \in Nat
    BY <1>1, FS_CardinalityType
<1>6. Cardinality(A \ {x}) = IF x \in A THEN Cardinality(A) - 1 ELSE Cardinality(A)
    BY <1>1, FS_RemoveElement
<1>7. Cardinality(B \ {x}) = IF x \in B THEN Cardinality(B) - 1 ELSE Cardinality(B)
    BY <1>1, FS_RemoveElement
<1>8. Cardinality(B) = Cardinality(A) - (IF x \in A THEN 1 ELSE 0) + (IF x \in B THEN 1 ELSE 0)
    BY <1>2, <1>5, <1>6, <1>7
<1> QED
    BY <1>3, <1>4, <1>5, <1>8 DEF Is

-----------------------------------------------------------------------------
(***************************************************************************)
(* The operations of the cache.                                            *)
(***************************************************************************)

\* Only the count of e may be another.
Keeps(dc, dc2, e) ==
    /\ dc2[e].state = dc[e].state
    /\ dc2[e].name = dc[e].name
    /\ dc2[e].parent = dc[e].parent
    /\ dc2[e].inode = dc[e].inode
    /\ dc2[e].i_fop = dc[e].i_fop
    /\ dc2[e].nlink = dc[e].nlink

\* Nothing of e changes that says where it is in the tree, and what.
Fixed(dc, dc2, e) ==
    /\ dc2[e].state = dc[e].state
    /\ dc2[e].name = dc[e].name
    /\ dc2[e].parent = dc[e].parent
    /\ dc2[e].inode = dc[e].inode

LEMMA ChildrenAreRefs ==
    ASSUME NEW dc, NEW d
    PROVE  Children(dc, d) = Refs(Dentries, [e \in Dentries |-> dc[e].parent], d)
<1> DEFINE f == [e \in Dentries |-> dc[e].parent]
<1>1. {c \in Dentries : dc[c].parent = d} = {c \in Dentries : f[c] = d}
    OBVIOUS
<1> QED
    BY <1>1 DEF Children, Refs

LEMMA ChildrenType ==
    ASSUME NEW dc, NEW d
    PROVE  Children(dc, d) \in Nat
BY ConstantFacts, ChildrenAreRefs, RefsType

LEMMA ChildrenPositive ==
    ASSUME NEW dc, NEW c \in Dentries
    PROVE  Children(dc, dc[c].parent) >= 1
<1> DEFINE f == [e \in Dentries |-> dc[e].parent]
<1>1. f[c] = dc[c].parent
    OBVIOUS
<1>2. Refs(Dentries, f, f[c]) >= 1
    BY ConstantFacts, RefsPositive
<1>3. Children(dc, dc[c].parent) = Refs(Dentries, f, dc[c].parent)
    BY ChildrenAreRefs
<1> QED
    BY <1>1, <1>2, <1>3

LEMMA ChildrenSame ==
    ASSUME NEW dc, NEW dc2, NEW d, \A e \in Dentries : dc2[e].parent = dc[e].parent
    PROVE  Children(dc2, d) = Children(dc, d)
<1>1. {c \in Dentries : dc2[c].parent = d} = {c \in Dentries : dc[c].parent = d}
    OBVIOUS
<1> QED
    BY <1>1 DEF Children

\* One dentry is moved.
LEMMA ChildrenMove ==
    ASSUME NEW dc, NEW dc2, NEW d, NEW x \in Dentries,
           \A e \in Dentries \ {x} : dc2[e].parent = dc[e].parent
    PROVE  Children(dc2, d) = Children(dc, d) - Is(dc[x].parent, d)
                                              + Is(dc2[x].parent, d)
<1> DEFINE f == [e \in Dentries |-> dc[e].parent]
           g == [e \in Dentries |-> dc2[e].parent]
<1>1. f[x] = dc[x].parent /\ g[x] = dc2[x].parent /\ \A y \in Dentries \ {x} : g[y] = f[y]
    OBVIOUS
<1>2. Children(dc, d) = Refs(Dentries, f, d) /\ Children(dc2, d) = Refs(Dentries, g, d)
    BY ChildrenAreRefs
<1> HIDE DEF f, g
<1>3. IsFiniteSet(Dentries)
    BY ConstantFacts
<1>4. Refs(Dentries, g, d) = Refs(Dentries, f, d) - Is(f[x], d)
                                                  + Is(g[x], d)
  <2>1. \A y \in Dentries : y # x => g[y] = f[y]
    BY <1>1
  <2> QED
    BY ONLY <2>1, <1>3, RefsMove, x \in Dentries
<1> QED
    BY <1>1, <1>2, <1>4

\* Only directories have children.
LEMMA NoChildren ==
    ASSUME NEW dc, NEW d \in Dentries, Shape(dc), dc[d].inode # "dir"
    PROVE  Children(dc, d) = 0 /\ \A c \in Dentries : dc[c].parent # d
<1>1. ASSUME NEW c \in Dentries PROVE dc[c].parent # d
  <2>1. CASE c = Root \/ dc[c].state = "free"
    <3>1. dc[c].parent = Null
        BY <2>1 DEF Shape, FreeDentry
    <3> QED
        BY <3>1, ConstantFacts
  <2>2. CASE c # Root /\ dc[c].state # "free"
    BY <2>2 DEF Shape
  <2> QED
    BY <2>1, <2>2
<1>2. {c \in Dentries : dc[c].parent = d} = {}
    BY <1>1
<1> QED
    BY <1>1, <1>2, FS_EmptySet DEF Children

\* References come and go, and the counts with them.
LEMMA Recount ==
    ASSUME NEW dc, NEW ext,
           NEW dc2 \in [Dentries -> Dentry], NEW ext2 \in [Dentries -> Nat],
           Cached(dc, ext),
           \A e \in Dentries :
                /\ Fixed(dc, dc2, e)
                /\ dc[e].state = "free" => dc2[e] = dc[e] /\ ext2[e] = ext[e]
                /\ dc[e].state # "free" => /\ dc2[e].count >= 1
                                           /\ dc2[e].count = dc[e].count + ext2[e] - ext[e]
    PROVE  Cached(dc2, ext2)
<1>1. dc \in [Dentries -> Dentry] /\ ext \in [Dentries -> Nat]
    BY DEF Cached, Shape
<1>2. Shape(dc2)
  <2>1. /\ dc2[Root].state = "new" /\ dc2[Root].inode = "dir"
        /\ dc2[Root].parent = Null /\ dc2[Root].name = NoName
    BY ConstantFacts DEF Cached, Shape, Fixed
  <2>2. ASSUME NEW d \in Dentries, dc2[d].state = "free"
        PROVE  dc2[d] = FreeDentry
    BY <2>2 DEF Cached, Shape, Fixed
  <2>3. ASSUME NEW d \in Dentries, dc2[d].state # "free", d # Root
        PROVE  /\ dc2[d].parent \in Dentries
               /\ dc2[dc2[d].parent].inode = "dir"
               /\ dc2[d].name \in Names
               /\ dc2[d].inode = "dir" => dc2[d].parent = Root
               /\ dc2[d].state = "new" => dc2[d].inode = "none"
    BY <2>3 DEF Cached, Shape, Fixed
  <2> QED
    BY <2>1, <2>2, <2>3 DEF Shape
<1>3. ASSUME NEW e \in Dentries
      PROVE  /\ dc2[e].state = "free" => ext2[e] = 0
             /\ dc2[e].state # "free" =>
                    /\ dc2[e].count = Children(dc2, e) + ext2[e] + Pins(dc2, e)
                    /\ dc2[e].count >= 1
  <2>1. Children(dc2, e) = Children(dc, e) /\ Children(dc, e) \in Nat
    BY ChildrenSame, ChildrenType DEF Fixed
  <2>2. Pins(dc2, e) = Pins(dc, e) /\ Pins(dc, e) \in Nat
    BY DEF Pins, Fixed
  <2>3. ext[e] \in Nat /\ ext2[e] \in Nat
    BY <1>1
  <2>4. /\ dc[e].state = "free" => ext[e] = 0
        /\ dc[e].state # "free" => dc[e].count = Children(dc, e) + ext[e] + Pins(dc, e)
    BY DEF Cached, Counted
  <2>5. dc2[e].state = dc[e].state
    BY DEF Fixed
  <2> QED
    BY <2>1, <2>2, <2>3, <2>4, <2>5
<1> QED
    BY <1>2, <1>3 DEF Cached, Counted

\* ext2 has one reference to d more than ext.
OneMore(ext, ext2, d) == \A e \in Dentries : ext2[e] = ext[e] + Is(e, d)

LEMMA DgetEffect ==
    ASSUME NEW dc \in [Dentries -> Dentry], NEW d \in Dentries
    PROVE  /\ dget(dc, d) \in [Dentries -> Dentry]
           /\ \A e \in Dentries :
                /\ Keeps(dc, dget(dc, d), e)
                /\ e # d => dget(dc, d)[e] = dc[e]
           /\ dget(dc, d)[d].count = dc[d].count + 1
<1> DEFINE k == dc[d].count + 1
<1>1. dc[d] \in Dentry /\ k \in Nat
    BY DEF Dentry
<1>2. dget(dc, d) = [dc EXCEPT ![d].count = k]
    BY DEF dget
<1> HIDE DEF k
<1>3. [dc EXCEPT ![d].count = k] \in [Dentries -> Dentry]
    BY <1>1 DEF Dentry
<1>4. /\ \A e \in Dentries :
                /\ Keeps(dc, [dc EXCEPT ![d].count = k], e)
                /\ e # d => [dc EXCEPT ![d].count = k][e] = dc[e]
      /\ [dc EXCEPT ![d].count = k][d].count = k
    BY <1>1 DEF Dentry, Keeps
<1> QED
    BY <1>2, <1>3, <1>4 DEF k

\* dget by somebody who already has a reference, or has found d in the cache.
LEMMA DgetCached ==
    ASSUME NEW dc, NEW ext, NEW ext2 \in [Dentries -> Nat], NEW d \in Dentries,
           Cached(dc, ext), dc[d].state # "free", OneMore(ext, ext2, d)
    PROVE  Cached(dget(dc, d), ext2)
<1> DEFINE dc2 == dget(dc, d)
<1>1. dc \in [Dentries -> Dentry] /\ ext \in [Dentries -> Nat]
    BY DEF Cached, Shape
<1>2. dc2 \in [Dentries -> Dentry]
    BY <1>1, DgetEffect
<1>3. \A e \in Dentries : Keeps(dc, dc2, e) /\ (e # d => dc2[e] = dc[e])
    BY <1>1, DgetEffect
<1>4. dc2[d].count = dc[d].count + 1
    BY <1>1, DgetEffect
<1> HIDE DEF dc2
<1>5. ASSUME NEW e \in Dentries
      PROVE  /\ Fixed(dc, dc2, e)
             /\ dc[e].state = "free" => dc2[e] = dc[e] /\ ext2[e] = ext[e]
             /\ dc[e].state # "free" => /\ dc2[e].count >= 1
                                        /\ dc2[e].count = dc[e].count + ext2[e] - ext[e]
  <2>1. dc[e] \in Dentry /\ ext[e] \in Nat /\ ext2[e] = ext[e] + Is(e, d)
    BY <1>1 DEF OneMore
  <2>2. dc[e].count \in Nat
    BY <2>1 DEF Dentry
  <2>3. dc[e].state # "free" => dc[e].count >= 1
    BY DEF Cached, Counted
  <2>4. CASE e = d
    BY <2>1, <2>2, <2>3, <2>4, <1>3, <1>4 DEF Is, Keeps, Fixed
  <2>5. CASE e # d
    BY <2>1, <2>2, <2>3, <2>5, <1>3 DEF Is, Keeps, Fixed
  <2> QED
    BY <2>4, <2>5
<1>6. Cached(dc2, ext2)
    BY <1>2, <1>5, Recount
<1> QED
    BY <1>6 DEF dc2

\* dput that leaves references behind.
LEMMA DputEffect ==
    ASSUME NEW dc \in [Dentries -> Dentry], NEW d \in Dentries, dc[d].count > 1
    PROVE  /\ dput(dc, d) \in [Dentries -> Dentry]
           /\ \A e \in Dentries :
                /\ Keeps(dc, dput(dc, d), e)
                /\ e # d => dput(dc, d)[e] = dc[e]
           /\ dput(dc, d)[d].count = dc[d].count - 1
<1> DEFINE k == dc[d].count - 1
<1>1. dc[d] \in Dentry /\ k \in Nat
    BY DEF Dentry
<1>2. dput(dc, d) = [dc EXCEPT ![d].count = k]
    BY DEF dput
<1> HIDE DEF k
<1>3. [dc EXCEPT ![d].count = k] \in [Dentries -> Dentry]
    BY <1>1 DEF Dentry
<1>4. /\ \A e \in Dentries :
                /\ Keeps(dc, [dc EXCEPT ![d].count = k], e)
                /\ e # d => [dc EXCEPT ![d].count = k][e] = dc[e]
      /\ [dc EXCEPT ![d].count = k][d].count = k
    BY <1>1 DEF Dentry, Keeps
<1> QED
    BY <1>2, <1>3, <1>4 DEF k

\* The last dput.
LEMMA DputLastEffect ==
    ASSUME NEW dc \in [Dentries -> Dentry], NEW d \in Dentries,
           ~(dc[d].count > 1), dc[d].parent \in Dentries, dc[d].parent # d,
           dc[dc[d].parent].count >= 1
    PROVE  /\ dput(dc, d) \in [Dentries -> Dentry]
           /\ dput(dc, d)[d] = FreeDentry
           /\ \A e \in Dentries \ {d} :
                /\ Keeps(dc, dput(dc, d), e)
                /\ e # dc[d].parent => dput(dc, d)[e] = dc[e]
           /\ dput(dc, d)[dc[d].parent].count = dc[dc[d].parent].count - 1
<1> DEFINE p == dc[d].parent
           k == dc[p].count - 1
           freed == [dc EXCEPT ![d] = FreeDentry]
<1>1. dc[p] \in Dentry /\ k \in Nat /\ p \in Dentries /\ p # d
    BY DEF Dentry
<1>2. FreeDentry \in Dentry
    BY DEF FreeDentry, Dentry
<1>3. /\ freed \in [Dentries -> Dentry]
      /\ freed[d] = FreeDentry
      /\ \A e \in Dentries \ {d} : freed[e] = dc[e]
    BY <1>2
<1>4. dput(dc, d) = [freed EXCEPT ![p].count = freed[p].count - 1]
    BY DEF dput
<1>5. freed[p].count - 1 = k
    BY <1>1
<1>5a. k = dc[p].count - 1
    OBVIOUS
<1>5b. p = dc[d].parent
    OBVIOUS
<1> HIDE DEF freed, k, p
<1>6. [freed EXCEPT ![p].count = k] \in [Dentries -> Dentry]
    BY <1>1, <1>3 DEF Dentry
<1>7. /\ [freed EXCEPT ![p].count = k][d] = FreeDentry
      /\ \A e \in Dentries \ {d} :
            /\ Keeps(dc, [freed EXCEPT ![p].count = k], e)
            /\ e # p => [freed EXCEPT ![p].count = k][e] = dc[e]
      /\ [freed EXCEPT ![p].count = k][p].count = k
    BY <1>1, <1>3 DEF Dentry, Keeps
<1>8. dput(dc, d) = [freed EXCEPT ![p].count = k]
    BY <1>4, <1>5
<1>9. /\ dput(dc, d) \in [Dentries -> Dentry]
      /\ dput(dc, d)[d] = FreeDentry
      /\ \A e \in Dentries \ {d} :
            /\ Keeps(dc, dput(dc, d), e)
            /\ e # p => dput(dc, d)[e] = dc[e]
      /\ dput(dc, d)[p].count = k
    BY <1>6, <1>7, <1>8
<1> QED
    BY <1>5a, <1>5b, <1>9

\* The entry e is as it was; or it is d, which was a negative dentry that nobody
\* else referred to, and has been freed.
KeptOrFreed(dc, dc2, ext2, d, e) ==
    \/ Keeps(dc, dc2, e)
    \/ e = d /\ d # Root /\ ext2[d] = 0 /\ dc[d].inode = "none" /\ dc2[d] = FreeDentry

\* dput by somebody who has a reference; s_root's remains.
LEMMA DputCached ==
    ASSUME NEW dc, NEW ext, NEW ext2 \in [Dentries -> Nat], NEW d \in Dentries,
           Cached(dc, ext), OneMore(ext2, ext, d), ext2[Root] >= 1
    PROVE  /\ Cached(dput(dc, d), ext2)
           /\ \A e \in Dentries : KeptOrFreed(dc, dput(dc, d), ext2, d, e)
<1> DEFINE dc2 == dput(dc, d)
<1>1. /\ dc \in [Dentries -> Dentry] /\ ext \in [Dentries -> Nat]
      /\ Shape(dc) /\ Counted(dc, ext)
    BY DEF Cached, Shape
<1>2. \A e \in Dentries : /\ dc[e] \in Dentry /\ dc[e].count \in Nat
                          /\ ext[e] \in Nat /\ ext2[e] \in Nat
                          /\ ext[e] = ext2[e] + Is(e, d)
    BY <1>1 DEF Dentry, OneMore
<1>3. ext[d] = ext2[d] + 1 /\ \A e \in Dentries : e # d => ext[e] = ext2[e]
    BY <1>2 DEF Is
<1>4. dc[d].state # "free"
    BY <1>1, <1>2, <1>3 DEF Counted
<1>5. \A e \in Dentries : dc[e].state # "free" =>
            /\ dc[e].count = Children(dc, e) + ext[e] + Pins(dc, e)
            /\ dc[e].count >= 1
    BY <1>1 DEF Counted
<1>6. \A e \in Dentries : Children(dc, e) \in Nat /\ Pins(dc, e) \in {0, 1}
    BY ChildrenType DEF Pins
<1>7. CASE dc[d].count > 1
  <2>1. dc2 \in [Dentries -> Dentry]
    BY <1>1, <1>7, DputEffect
  <2>2. \A e \in Dentries : Keeps(dc, dc2, e) /\ (e # d => dc2[e] = dc[e])
    BY <1>1, <1>7, DputEffect
  <2>3. dc2[d].count = dc[d].count - 1
    BY <1>1, <1>7, DputEffect
  <2> HIDE DEF dc2
  <2>4. ASSUME NEW e \in Dentries
        PROVE  /\ Fixed(dc, dc2, e)
               /\ dc[e].state = "free" => dc2[e] = dc[e] /\ ext2[e] = ext[e]
               /\ dc[e].state # "free" => /\ dc2[e].count >= 1
                                          /\ dc2[e].count = dc[e].count + ext2[e] - ext[e]
    <3>1. CASE e = d
        BY <1>2, <1>3, <1>4, <1>7, <2>2, <2>3, <3>1 DEF Keeps, Fixed
    <3>2. CASE e # d
        BY <1>2, <1>3, <1>5, <2>2, <3>2 DEF Keeps, Fixed
    <3> QED
        BY <3>1, <3>2
  <2>5. Cached(dc2, ext2)
    BY <2>1, <2>4, Recount
  <2> QED
    BY <2>2, <2>5 DEF KeptOrFreed, dc2
<1>8. CASE ~(dc[d].count > 1)
  <2> DEFINE p == dc[d].parent
  <2>1. ext[d] = 1 /\ Children(dc, d) = 0 /\ Pins(dc, d) = 0 /\ ext2[d] = 0
    BY <1>2, <1>3, <1>4, <1>5, <1>6, <1>8
  <2>2. d # Root
    BY <2>1, ConstantFacts
  <2>3. dc[d].inode = "none"
    BY <2>1, <2>2 DEF Pins
  <2>4. p \in Dentries /\ dc[p].inode = "dir"
    BY <1>1, <1>4, <2>2 DEF Shape
  <2>5. p # d /\ dc[p].state # "free"
    BY <1>1, <2>3, <2>4 DEF Shape, FreeDentry
  <2>6. Children(dc, p) >= 1
    BY ChildrenPositive
  <2>7. Pins(dc, p) + ext2[p] >= 1
    BY <1>2, <1>6, <2>4 DEF Pins
  <2>8. dc[p].count >= 2
    BY <1>2, <1>3, <1>5, <1>6, <2>4, <2>5, <2>6, <2>7
  <2>9. dc2 \in [Dentries -> Dentry] /\ dc2[d] = FreeDentry
    BY <1>1, <1>2, <1>8, <2>4, <2>5, <2>8, DputLastEffect
  <2>10. \A e \in Dentries : e # d => Keeps(dc, dc2, e) /\ (e # p => dc2[e] = dc[e])
    BY <1>1, <1>2, <1>8, <2>4, <2>5, <2>8, DputLastEffect
  <2>11. dc2[p].count = dc[p].count - 1
    BY <1>1, <1>2, <1>8, <2>4, <2>5, <2>8, DputLastEffect
  <2> HIDE DEF dc2
  <2>12. \A e \in Dentries : dc[e].parent # d
    BY <1>1, <2>3, NoChildren
  <2>13. Shape(dc2)
    <3>1. /\ dc2[Root].state = "new" /\ dc2[Root].inode = "dir"
          /\ dc2[Root].parent = Null /\ dc2[Root].name = NoName
        BY <1>1, <2>2, <2>10, ConstantFacts DEF Shape, Keeps
    <3>2. ASSUME NEW e \in Dentries, dc2[e].state = "free"
          PROVE  dc2[e] = FreeDentry
      <4>1. CASE e = d
        BY <4>1, <2>9
      <4>2. CASE e # d
        BY <4>2, <3>2, <1>1, <2>4, <2>5, <2>10 DEF Keeps, Shape
      <4> QED
        BY <4>1, <4>2
    <3>3. ASSUME NEW e \in Dentries, dc2[e].state # "free", e # Root
          PROVE  /\ dc2[e].parent \in Dentries
                 /\ dc2[dc2[e].parent].inode = "dir"
                 /\ dc2[e].name \in Names
                 /\ dc2[e].inode = "dir" => dc2[e].parent = Root
                 /\ dc2[e].state = "new" => dc2[e].inode = "none"
      <4>1. e # d
        BY <3>3, <2>9 DEF FreeDentry
      <4>2. Keeps(dc, dc2, e)
        BY <4>1, <2>10
      <4>3. /\ dc[e].parent \in Dentries /\ dc[e].parent # d
            /\ dc[dc[e].parent].inode = "dir"
            /\ dc[e].name \in Names
            /\ dc[e].inode = "dir" => dc[e].parent = Root
            /\ dc[e].state = "new" => dc[e].inode = "none"
        BY <3>3, <4>2, <1>1, <2>12 DEF Shape, Keeps
      <4>4. Keeps(dc, dc2, dc[e].parent)
        BY <4>3, <2>10
      <4> QED
        BY <4>2, <4>3, <4>4 DEF Keeps
    <3> QED
        BY <2>9, <3>1, <3>2, <3>3 DEF Shape
  <2>14. ASSUME NEW e \in Dentries
         PROVE  /\ dc2[e].state = "free" => ext2[e] = 0
                /\ dc2[e].state # "free" =>
                       /\ dc2[e].count = Children(dc2, e) + ext2[e] + Pins(dc2, e)
                       /\ dc2[e].count >= 1
    <3>1. CASE e = d
        BY <3>1, <2>1, <2>9 DEF FreeDentry
    <3>2. CASE e # d
      <4>1. Keeps(dc, dc2, e)
        BY <3>2, <2>10
      <4>2. Pins(dc2, e) = Pins(dc, e)
        BY <4>1 DEF Pins, Keeps
      <4>3. dc2[d].parent = Null
        BY <2>9 DEF FreeDentry
      <4>4. Children(dc2, e) = Children(dc, e) - Is(p, e) + Is(Null, e)
        BY <2>10, <4>3, ChildrenMove DEF Keeps
      <4>5. Is(Null, e) = 0
        BY ConstantFacts DEF Is
      <4>6. dc2[e].state = dc[e].state
        BY <4>1 DEF Keeps
      <4>7. ext2[e] = ext[e] /\ (dc[e].state = "free" => ext[e] = 0)
        BY <3>2, <1>1, <1>3 DEF Counted
      <4>8. CASE e = p
        <5>1. Is(p, e) = 1
            BY <4>8 DEF Is
        <5> QED
            BY <5>1, <4>2, <4>4, <4>5, <4>6, <4>7, <4>8, <2>5, <2>8, <2>11, <1>2, <1>5, <1>6
      <4>9. CASE e # p
        <5>1. Is(p, e) = 0
            BY <4>9 DEF Is
        <5>2. dc2[e] = dc[e]
            BY <4>9, <3>2, <2>10
        <5> QED
            BY <5>1, <5>2, <4>2, <4>4, <4>5, <4>7, <1>2, <1>5, <1>6
      <4> QED
        BY <4>8, <4>9
    <3> QED
        BY <3>1, <3>2
  <2>15. Cached(dc2, ext2)
    BY <2>13, <2>14 DEF Cached, Counted
  <2> QED
    BY <2>1, <2>2, <2>3, <2>9, <2>10, <2>15 DEF KeptOrFreed, dc2
<1> QED
    BY <1>7, <1>8

LEMMA DallocEffect ==
    ASSUME NEW dc \in [Dentries -> Dentry], NEW d \in Dentries, NEW p \in Dentries,
           NEW n \in Names, p # d
    PROVE  /\ d_alloc(dc, d, p, n) \in [Dentries -> Dentry]
           /\ d_alloc(dc, d, p, n)[d] = NewDentry(p, n)
           /\ \A e \in Dentries \ {d} :
                /\ Keeps(dc, d_alloc(dc, d, p, n), e)
                /\ e # p => d_alloc(dc, d, p, n)[e] = dc[e]
           /\ d_alloc(dc, d, p, n)[p].count = dc[p].count + 1
<1> DEFINE k == dc[p].count + 1
           added == [dc EXCEPT ![d] = NewDentry(p, n)]
<1>1. dc[p] \in Dentry /\ k \in Nat
    BY DEF Dentry
<1>2. NewDentry(p, n) \in Dentry
    BY DEF NewDentry, Dentry
<1>3. /\ added \in [Dentries -> Dentry]
      /\ added[d] = NewDentry(p, n)
      /\ \A e \in Dentries \ {d} : added[e] = dc[e]
    BY <1>2
<1>4. d_alloc(dc, d, p, n) = [added EXCEPT ![p].count = added[p].count + 1]
    BY DEF d_alloc
<1>5. added[p].count + 1 = k
    BY <1>1
<1>6. k = dc[p].count + 1
    OBVIOUS
<1> HIDE DEF added, k
<1>7. [added EXCEPT ![p].count = k] \in [Dentries -> Dentry]
    BY <1>1, <1>3 DEF Dentry
<1>8. /\ [added EXCEPT ![p].count = k][d] = NewDentry(p, n)
      /\ \A e \in Dentries \ {d} :
            /\ Keeps(dc, [added EXCEPT ![p].count = k], e)
            /\ e # p => [added EXCEPT ![p].count = k][e] = dc[e]
      /\ [added EXCEPT ![p].count = k][p].count = k
    BY <1>1, <1>3 DEF Dentry, Keeps
<1>9. d_alloc(dc, d, p, n) = [added EXCEPT ![p].count = k]
    BY <1>4, <1>5
<1> QED
    BY <1>6, <1>7, <1>8, <1>9

\* d_alloc of a free dentry in a directory.
LEMMA DallocCached ==
    ASSUME NEW dc, NEW ext, NEW ext2 \in [Dentries -> Nat], NEW d \in Dentries,
           NEW p \in Dentries, NEW n \in Names,
           Cached(dc, ext), dc[d].state = "free", dc[p].inode = "dir", OneMore(ext, ext2, d)
    PROVE  /\ Cached(d_alloc(dc, d, p, n), ext2)
           /\ d_alloc(dc, d, p, n)[d] = NewDentry(p, n)
           /\ \A e \in Dentries \ {d} : Keeps(dc, d_alloc(dc, d, p, n), e)
<1> DEFINE dc2 == d_alloc(dc, d, p, n)
<1>1. /\ dc \in [Dentries -> Dentry] /\ ext \in [Dentries -> Nat]
      /\ Shape(dc) /\ Counted(dc, ext)
    BY DEF Cached, Shape
<1>2. \A e \in Dentries : /\ dc[e] \in Dentry /\ dc[e].count \in Nat
                          /\ ext[e] \in Nat /\ ext2[e] \in Nat
                          /\ ext2[e] = ext[e] + Is(e, d)
    BY <1>1 DEF Dentry, OneMore
<1>3. ext2[d] = ext[d] + 1 /\ \A e \in Dentries : e # d => ext2[e] = ext[e]
    BY <1>2 DEF Is
<1>4. dc[d] = FreeDentry /\ ext[d] = 0
    BY <1>1 DEF Counted, Shape
<1>5. \A e \in Dentries : dc[e].state # "free" =>
            /\ dc[e].count = Children(dc, e) + ext[e] + Pins(dc, e)
            /\ dc[e].count >= 1
    BY <1>1 DEF Counted
<1>6. \A e \in Dentries : Children(dc, e) \in Nat /\ Pins(dc, e) \in {0, 1}
    BY ChildrenType DEF Pins
<1>7. dc[d].inode = "none" /\ dc[d].parent = Null
    BY <1>4 DEF FreeDentry
<1>8. p # d /\ d # Root /\ dc[p].state # "free"
    BY <1>1, <1>7 DEF Shape, FreeDentry
<1>9. dc2 \in [Dentries -> Dentry] /\ dc2[d] = NewDentry(p, n)
    BY <1>1, <1>8, DallocEffect
<1>10. \A e \in Dentries : e # d => Keeps(dc, dc2, e) /\ (e # p => dc2[e] = dc[e])
    BY <1>1, <1>8, DallocEffect
<1>11. dc2[p].count = dc[p].count + 1
    BY <1>1, <1>8, DallocEffect
<1> HIDE DEF dc2
<1>12. \A e \in Dentries : dc[e].parent # d
    BY <1>1, <1>7, NoChildren
<1>13. Shape(dc2)
  <2>1. /\ dc2[Root].state = "new" /\ dc2[Root].inode = "dir"
        /\ dc2[Root].parent = Null /\ dc2[Root].name = NoName
    BY <1>1, <1>8, <1>10, ConstantFacts DEF Shape, Keeps
  <2>2. ASSUME NEW e \in Dentries, dc2[e].state = "free"
        PROVE  dc2[e] = FreeDentry
    <3>1. CASE e = d
        BY <3>1, <2>2, <1>9 DEF NewDentry
    <3>2. CASE e # d
        BY <3>2, <2>2, <1>1, <1>8, <1>10 DEF Keeps, Shape
    <3> QED
        BY <3>1, <3>2
  <2>3. ASSUME NEW e \in Dentries, dc2[e].state # "free", e # Root
        PROVE  /\ dc2[e].parent \in Dentries
               /\ dc2[dc2[e].parent].inode = "dir"
               /\ dc2[e].name \in Names
               /\ dc2[e].inode = "dir" => dc2[e].parent = Root
               /\ dc2[e].state = "new" => dc2[e].inode = "none"
    <3>1. CASE e = d
      <4>1. dc2[p].inode = "dir"
        BY <1>8, <1>10 DEF Keeps
      <4> QED
        BY <3>1, <4>1, <1>9 DEF NewDentry
    <3>2. CASE e # d
      <4>1. Keeps(dc, dc2, e)
        BY <3>2, <1>10
      <4>2. /\ dc[e].parent \in Dentries /\ dc[e].parent # d
            /\ dc[dc[e].parent].inode = "dir"
            /\ dc[e].name \in Names
            /\ dc[e].inode = "dir" => dc[e].parent = Root
            /\ dc[e].state = "new" => dc[e].inode = "none"
        BY <2>3, <4>1, <1>1, <1>12 DEF Shape, Keeps
      <4>3. Keeps(dc, dc2, dc[e].parent)
        BY <4>2, <1>10
      <4> QED
        BY <4>1, <4>2, <4>3 DEF Keeps
    <3> QED
        BY <3>1, <3>2
  <2> QED
    BY <1>9, <2>1, <2>2, <2>3 DEF Shape
<1>14. ASSUME NEW e \in Dentries
       PROVE  /\ dc2[e].state = "free" => ext2[e] = 0
              /\ dc2[e].state # "free" =>
                     /\ dc2[e].count = Children(dc2, e) + ext2[e] + Pins(dc2, e)
                     /\ dc2[e].count >= 1
  <2>1. dc2[d].parent = p
    BY <1>9 DEF NewDentry
  <2>2. Children(dc2, e) = Children(dc, e) - Is(Null, e) + Is(p, e)
    BY <1>7, <1>10, <2>1, ChildrenMove DEF Keeps
  <2>3. Is(Null, e) = 0
    BY ConstantFacts DEF Is
  <2>4. CASE e = d
    <3>1. Is(p, e) = 0
        BY <2>4, <1>8 DEF Is
    <3>2. Children(dc, e) = 0
        BY <2>4, <1>1, <1>7, NoChildren
    <3>3. dc2[e].state = "new" /\ dc2[e].count = 1 /\ Pins(dc2, e) = 0
        BY <2>4, <1>9 DEF NewDentry, Pins
    <3> QED
        BY <2>2, <2>3, <2>4, <3>1, <3>2, <3>3, <1>3, <1>4
  <2>5. CASE e # d
    <3>1. Keeps(dc, dc2, e)
        BY <2>5, <1>10
    <3>2. Pins(dc2, e) = Pins(dc, e) /\ dc2[e].state = dc[e].state
        BY <3>1 DEF Pins, Keeps
    <3>3. ext2[e] = ext[e] /\ (dc[e].state = "free" => ext[e] = 0)
        BY <2>5, <1>1, <1>3 DEF Counted
    <3>4. CASE e = p
      <4>1. Is(p, e) = 1
        BY <3>4 DEF Is
      <4> QED
        BY <2>2, <2>3, <3>2, <3>3, <3>4, <4>1, <1>2, <1>5, <1>6, <1>8, <1>11
    <3>5. CASE e # p
      <4>1. Is(p, e) = 0
        BY <3>5 DEF Is
      <4>2. dc2[e] = dc[e]
        BY <3>5, <2>5, <1>10
      <4> QED
        BY <2>2, <2>3, <3>2, <3>3, <4>1, <4>2, <1>2, <1>5, <1>6
    <3> QED
        BY <3>4, <3>5
  <2> QED
    BY <2>4, <2>5
<1>15. Cached(dc2, ext2)
    BY <1>13, <1>14 DEF Cached, Counted
<1> QED
    BY <1>9, <1>10, <1>15 DEF dc2

\* A dentry is hashed, gets its inode or its operations; aufs_mknod's reference
\* comes with the inode.
LEMMA RetagCached ==
    ASSUME NEW dc, NEW ext, NEW dc2 \in [Dentries -> Dentry], NEW d \in Dentries,
           Cached(dc, ext), d # Root, dc[d].state # "free",
           \A e \in Dentries \ {d} : dc2[e] = dc[e],
           dc2[d].state = "hashed",
           dc2[d].name = dc[d].name,
           dc2[d].parent = dc[d].parent,
           dc[d].inode \in {"none", dc2[d].inode},
           dc2[d].inode = "dir" => dc[d].parent = Root,
           dc2[d].count = dc[d].count + Pins(dc2, d) - Pins(dc, d)
    PROVE  Cached(dc2, ext)
<1>1. /\ dc \in [Dentries -> Dentry] /\ ext \in [Dentries -> Nat]
      /\ Shape(dc) /\ Counted(dc, ext)
    BY DEF Cached, Shape
<1>2. Shape(dc2)
  <2>1. /\ dc2[Root].state = "new" /\ dc2[Root].inode = "dir"
        /\ dc2[Root].parent = Null /\ dc2[Root].name = NoName
    BY <1>1, ConstantFacts DEF Shape
  <2>2. ASSUME NEW e \in Dentries, dc2[e].state = "free"
        PROVE  dc2[e] = FreeDentry
    BY <2>2, <1>1 DEF Shape
  <2>3. ASSUME NEW e \in Dentries, dc2[e].state # "free", e # Root
        PROVE  /\ dc2[e].parent \in Dentries
               /\ dc2[dc2[e].parent].inode = "dir"
               /\ dc2[e].name \in Names
               /\ dc2[e].inode = "dir" => dc2[e].parent = Root
               /\ dc2[e].state = "new" => dc2[e].inode = "none"
    <3>1. dc[e].state # "free" /\ dc2[e].parent = dc[e].parent /\ dc2[e].name = dc[e].name
        BY <2>3
    <3>2. /\ dc[e].parent \in Dentries
          /\ dc[dc[e].parent].inode = "dir"
          /\ dc[e].name \in Names
        BY <2>3, <3>1, <1>1 DEF Shape
    <3>3. dc2[dc[e].parent].inode = "dir"
        BY <3>2
    <3>4. /\ dc2[e].inode = "dir" => dc2[e].parent = Root
          /\ dc2[e].state = "new" => dc2[e].inode = "none"
        BY <2>3, <1>1 DEF Shape
    <3> QED
        BY <3>1, <3>2, <3>3, <3>4
  <2> QED
    BY <2>1, <2>2, <2>3 DEF Shape
<1>3. ASSUME NEW e \in Dentries
      PROVE  /\ dc2[e].state = "free" => ext[e] = 0
             /\ dc2[e].state # "free" =>
                    /\ dc2[e].count = Children(dc2, e) + ext[e] + Pins(dc2, e)
                    /\ dc2[e].count >= 1
  <2>1. Children(dc2, e) = Children(dc, e) /\ Children(dc, e) \in Nat
    BY ChildrenSame, ChildrenType
  <2>2. /\ dc[e].state = "free" => ext[e] = 0
        /\ dc[e].state # "free" => /\ dc[e].count = Children(dc, e) + ext[e] + Pins(dc, e)
                                   /\ dc[e].count >= 1
    BY <1>1 DEF Counted
  <2>3. CASE e # d
    <3>1. Pins(dc2, e) = Pins(dc, e)
        BY <2>3 DEF Pins
    <3> QED
        BY <2>1, <2>2, <2>3, <3>1
  <2>4. CASE e = d
    <3>1. Pins(dc, d) \in {0, 1} /\ Pins(dc2, d) \in {0, 1} /\ Pins(dc2, d) >= Pins(dc, d)
        BY DEF Pins
    <3>2. dc[d].count \in Nat /\ ext[d] \in Nat
        BY <1>1 DEF Dentry
    <3> QED
        BY <2>1, <2>2, <2>4, <3>1, <3>2
  <2> QED
    BY <2>3, <2>4
<1> QED
    BY <1>1, <1>2, <1>3 DEF Cached, Counted

LEMMA DaddEffect ==
    ASSUME NEW dc \in [Dentries -> Dentry], NEW d \in Dentries
    PROVE  /\ d_add(dc, d) \in [Dentries -> Dentry]
           /\ \A e \in Dentries \ {d} : d_add(dc, d)[e] = dc[e]
           /\ d_add(dc, d)[d].state = "hashed"
           /\ d_add(dc, d)[d].name = dc[d].name
           /\ d_add(dc, d)[d].parent = dc[d].parent
           /\ d_add(dc, d)[d].count = dc[d].count
           /\ d_add(dc, d)[d].inode = dc[d].inode
           /\ d_add(dc, d)[d].i_fop = dc[d].i_fop
           /\ d_add(dc, d)[d].nlink = dc[d].nlink
BY DEF d_add, Dentry

LEMMA DaddCached ==
    ASSUME NEW dc, NEW ext, NEW d \in Dentries,
           Cached(dc, ext), d # Root, dc[d].state = "new"
    PROVE  Cached(d_add(dc, d), ext)
<1> DEFINE dc2 == d_add(dc, d)
<1>1. dc \in [Dentries -> Dentry] /\ Shape(dc) /\ dc[d].inode = "none"
    BY DEF Cached, Shape
<1>2. /\ dc2 \in [Dentries -> Dentry]
      /\ \A e \in Dentries \ {d} : dc2[e] = dc[e]
      /\ dc2[d].state = "hashed"
      /\ dc2[d].name = dc[d].name
      /\ dc2[d].parent = dc[d].parent
      /\ dc2[d].count = dc[d].count
      /\ dc2[d].inode = dc[d].inode
    BY <1>1, DaddEffect
<1>3. dc[d].count \in Nat
    BY <1>1 DEF Dentry
<1> HIDE DEF dc2
<1>4. dc2[d].count = dc[d].count + Pins(dc2, d) - Pins(dc, d)
    BY <1>1, <1>2, <1>3 DEF Pins
<1>5. Cached(dc2, ext)
    BY <1>1, <1>2, <1>4, RetagCached
<1> QED
    BY <1>5 DEF dc2

\* aufs_mknod on the cache.
Made(dc, d, kind) == dget(d_instantiate(dc, d, kind), d)

LEMMA MadeEffect ==
    ASSUME NEW dc \in [Dentries -> Dentry], NEW d \in Dentries, NEW kind \in {"dir", "reg"}
    PROVE  /\ Made(dc, d, kind) \in [Dentries -> Dentry]
           /\ \A e \in Dentries \ {d} : Made(dc, d, kind)[e] = dc[e]
           /\ Made(dc, d, kind)[d].state = dc[d].state
           /\ Made(dc, d, kind)[d].name = dc[d].name
           /\ Made(dc, d, kind)[d].parent = dc[d].parent
           /\ Made(dc, d, kind)[d].count = dc[d].count + 1
           /\ Made(dc, d, kind)[d].inode = kind
           /\ Made(dc, d, kind)[d].i_fop = IF kind = "dir" THEN "dir" ELSE "default"
           /\ Made(dc, d, kind)[d].nlink = IF kind = "dir" THEN 2 ELSE 1
<1> DEFINE fop == IF kind = "dir" THEN "dir" ELSE "default"
           nl == IF kind = "dir" THEN 2 ELSE 1
           one == [dc EXCEPT ![d].inode = kind]
           two == [one EXCEPT ![d].i_fop = fop]
           three == [two EXCEPT ![d].nlink = nl]
<1>1. fop \in {"dir", "default"} /\ nl \in Nat /\ dc[d] \in Dentry
    OBVIOUS
<1>2. d_instantiate(dc, d, kind) = [dc EXCEPT ![d].inode = kind, ![d].i_fop = fop, ![d].nlink = nl]
    BY DEF d_instantiate
<1>3. fop = (IF kind = "dir" THEN "dir" ELSE "default") /\ nl = (IF kind = "dir" THEN 2 ELSE 1)
    OBVIOUS
<1> HIDE DEF fop, nl
<1>4. d_instantiate(dc, d, kind) = three
    BY <1>2
<1>5. /\ one \in [Dentries -> Dentry]
      /\ \A e \in Dentries \ {d} : one[e] = dc[e]
      /\ one[d].state = dc[d].state /\ one[d].name = dc[d].name
      /\ one[d].parent = dc[d].parent /\ one[d].count = dc[d].count
      /\ one[d].inode = kind
    BY <1>1 DEF Dentry
<1> HIDE DEF one
<1>6. /\ two \in [Dentries -> Dentry]
      /\ \A e \in Dentries \ {d} : two[e] = one[e]
      /\ two[d].state = one[d].state /\ two[d].name = one[d].name
      /\ two[d].parent = one[d].parent /\ two[d].count = one[d].count
      /\ two[d].inode = one[d].inode /\ two[d].i_fop = fop
    BY <1>1, <1>5 DEF Dentry
<1> HIDE DEF two
<1>7. /\ three \in [Dentries -> Dentry]
      /\ \A e \in Dentries \ {d} : three[e] = two[e]
      /\ three[d].state = two[d].state /\ three[d].name = two[d].name
      /\ three[d].parent = two[d].parent /\ three[d].count = two[d].count
      /\ three[d].inode = two[d].inode /\ three[d].i_fop = two[d].i_fop
      /\ three[d].nlink = nl
    BY <1>1, <1>6 DEF Dentry
<1> HIDE DEF three
<1>8. Made(dc, d, kind) = dget(three, d)
    BY <1>4 DEF Made
<1>9. /\ dget(three, d) \in [Dentries -> Dentry]
      /\ \A e \in Dentries : Keeps(three, dget(three, d), e) /\ (e # d => dget(three, d)[e] = three[e])
      /\ dget(three, d)[d].count = three[d].count + 1
    BY <1>7, DgetEffect
<1>10. Keeps(three, dget(three, d), d)
    BY <1>9
<1> QED
    BY <1>3, <1>5, <1>6, <1>7, <1>8, <1>9, <1>10 DEF Keeps

LEMMA MadeCached ==
    ASSUME NEW dc, NEW ext, NEW d \in Dentries, NEW kind \in {"dir", "reg"},
           Cached(dc, ext), d # Root, dc[d].state = "hashed", dc[d].inode = "none",
           kind = "dir" => dc[d].parent = Root
    PROVE  Cached(Made(dc, d, kind), ext)
<1> DEFINE dc2 == Made(dc, d, kind)
<1>1. dc \in [Dentries -> Dentry]
    BY DEF Cached, Shape
<1>2. /\ dc2 \in [Dentries -> Dentry]
      /\ \A e \in Dentries \ {d} : dc2[e] = dc[e]
      /\ dc2[d].state = "hashed"
      /\ dc2[d].name = dc[d].name
      /\ dc2[d].parent = dc[d].parent
      /\ dc2[d].count = dc[d].count + 1
      /\ dc2[d].inode = kind
    BY <1>1, MadeEffect
<1>3. dc[d].count \in Nat
    BY <1>1 DEF Dentry
<1> HIDE DEF dc2
<1>4. dc2[d].count = dc[d].count + Pins(dc2, d) - Pins(dc, d)
    BY <1>1, <1>2, <1>3 DEF Pins
<1>5. Cached(dc2, ext)
    BY <1>1, <1>2, <1>4, RetagCached
<1> QED
    BY <1>5 DEF dc2

\* The last step of a call: operations of a file, or the link of a directory.
LEMMA SetFopsCached ==
    ASSUME NEW dc, NEW ext, NEW d \in Dentries,
           Cached(dc, ext), d # Root, dc[d].state = "hashed"
    PROVE  /\ Cached([dc EXCEPT ![d].i_fop = "aufs"], ext)
           /\ \A e \in Dentries :
                /\ Fixed(dc, [dc EXCEPT ![d].i_fop = "aufs"], e)
                /\ [dc EXCEPT ![d].i_fop = "aufs"][e].nlink = dc[e].nlink
                /\ [dc EXCEPT ![d].i_fop = "aufs"][e].i_fop
                        = IF e = d THEN "aufs" ELSE dc[e].i_fop
<1> DEFINE dc2 == [dc EXCEPT ![d].i_fop = "aufs"]
<1>1. dc \in [Dentries -> Dentry] /\ Shape(dc)
    BY DEF Cached, Shape
<1>2. /\ dc2 \in [Dentries -> Dentry]
      /\ \A e \in Dentries \ {d} : dc2[e] = dc[e]
      /\ Fixed(dc, dc2, d)
      /\ dc2[d].count = dc[d].count
      /\ dc2[d].nlink = dc[d].nlink
      /\ dc2[d].i_fop = "aufs"
    BY <1>1 DEF Dentry, Fixed
<1>3. dc[d].count \in Nat
    BY <1>1 DEF Dentry
<1> HIDE DEF dc2
<1>4. dc2[d].count = dc[d].count + Pins(dc2, d) - Pins(dc, d)
    BY <1>2, <1>3 DEF Pins, Fixed
<1>5. dc2[d].inode = "dir" => dc[d].parent = Root
    BY <1>1, <1>2 DEF Fixed, Shape
<1>6. Cached(dc2, ext)
    BY <1>1, <1>2, <1>4, <1>5, RetagCached DEF Fixed
<1>7. \A e \in Dentries : /\ Fixed(dc, dc2, e)
                          /\ dc2[e].nlink = dc[e].nlink
                          /\ dc2[e].i_fop = IF e = d THEN "aufs" ELSE dc[e].i_fop
    BY <1>2 DEF Fixed
<1> QED
    BY <1>6, <1>7 DEF dc2

LEMMA SetLinkCached ==
    ASSUME NEW dc, NEW ext, NEW d \in Dentries,
           Cached(dc, ext), dc[d].state # "free"
    PROVE  /\ Cached([dc EXCEPT ![d].nlink = @ + 1], ext)
           /\ \A e \in Dentries :
                /\ Fixed(dc, [dc EXCEPT ![d].nlink = @ + 1], e)
                /\ [dc EXCEPT ![d].nlink = @ + 1][e].nlink = dc[e].nlink + Is(e, d)
                /\ [dc EXCEPT ![d].nlink = @ + 1][e].i_fop = dc[e].i_fop
<1> DEFINE k == dc[d].nlink + 1
           dc2 == [dc EXCEPT ![d].nlink = k]
<1>1. dc \in [Dentries -> Dentry] /\ ext \in [Dentries -> Nat]
    BY DEF Cached, Shape
<1>2. dc[d] \in Dentry /\ k \in Nat /\ [dc EXCEPT ![d].nlink = @ + 1] = dc2
    BY <1>1 DEF Dentry
<1>3. k = dc[d].nlink + 1
    OBVIOUS
<1> HIDE DEF k
<1>4. /\ dc2 \in [Dentries -> Dentry]
      /\ \A e \in Dentries \ {d} : dc2[e] = dc[e]
      /\ Fixed(dc, dc2, d)
      /\ dc2[d].count = dc[d].count
      /\ dc2[d].nlink = k
      /\ dc2[d].i_fop = dc[d].i_fop
    BY <1>1, <1>2 DEF Dentry, Fixed
<1> HIDE DEF dc2
<1>5. ASSUME NEW e \in Dentries
      PROVE  /\ Fixed(dc, dc2, e)
             /\ dc2[e].nlink = dc[e].nlink + Is(e, d)
             /\ dc2[e].i_fop = dc[e].i_fop
             /\ dc[e].state = "free" => dc2[e] = dc[e] /\ ext[e] = ext[e]
             /\ dc[e].state # "free" => /\ dc2[e].count >= 1
                                        /\ dc2[e].count = dc[e].count + ext[e] - ext[e]
  <2>1. dc[e].count \in Nat /\ dc[e].nlink \in Nat /\ ext[e] \in Nat
    BY <1>1 DEF Dentry
  <2>2. dc[e].state # "free" => dc[e].count >= 1
    BY DEF Cached, Counted
  <2>3. CASE e = d
    BY <1>3, <1>4, <2>1, <2>2, <2>3 DEF Is
  <2>4. CASE e # d
    <3>1. dc2[e] = dc[e]
        BY <1>4, <2>4
    <3> QED
        BY <2>1, <2>2, <2>4, <3>1 DEF Is, Fixed
  <2> QED
    BY <2>3, <2>4
<1>6. Cached(dc2, ext)
    BY <1>1, <1>4, <1>5, Recount
<1> QED
    BY <1>2, <1>5, <1>6

-----------------------------------------------------------------------------
(***************************************************************************)
(* What a step may do to the rest of the cache: the dentries that exist    *)
(* for good, and those somebody still refers to, stay what they are.       *)
(***************************************************************************)

\* e is what it was, but that x may have been hashed.
Stays(dc, dc2, x, e) ==
    /\ dc2[e].name = dc[e].name
    /\ dc2[e].parent = dc[e].parent
    /\ dc2[e].inode = dc[e].inode
    /\ dc2[e].i_fop = dc[e].i_fop
    /\ dc2[e].nlink = dc[e].nlink
    /\ \/ dc2[e].state = dc[e].state
       \/ e = x /\ dc[e].state = "new" /\ dc2[e].state = "hashed"

\* Only a may have been allocated.
Frame(dc, dc2, ext2, x, a) ==
    \A e \in Dentries :
        /\ \/ dc[e].state # "free" /\ ext2[e] >= 1
           \/ dc[e].inode # "none"
           \/ dc2[e].inode # "none"
           => Stays(dc, dc2, x, e)
        /\ dc2[e].state # "free" /\ e # a =>
            /\ dc[e].state # "free"
            /\ dc2[e].name = dc[e].name
            /\ dc2[e].parent = dc[e].parent

LEMMA GetStep ==
    ASSUME NEW dc, NEW ext, NEW ext2 \in [Dentries -> Nat], NEW d \in Dentries,
           Cached(dc, ext), dc[d].state # "free", OneMore(ext, ext2, d)
    PROVE  Cached(dget(dc, d), ext2) /\ Frame(dc, dget(dc, d), ext2, Null, Null)
<1> DEFINE dc2 == dget(dc, d)
<1>1. Cached(dc2, ext2)
    BY DgetCached
<1>2. \A e \in Dentries : Keeps(dc, dc2, e)
    BY DgetEffect DEF Cached, Shape
<1> HIDE DEF dc2
<1>3. Frame(dc, dc2, ext2, Null, Null)
    BY <1>2 DEF Frame, Stays, Keeps
<1> QED
    BY <1>1, <1>3 DEF dc2

LEMMA FrameOfPut ==
    ASSUME NEW dc, NEW dc1, NEW dc2, NEW ext2, NEW x, NEW c \in Dentries,
           \A e \in Dentries : Stays(dc, dc1, x, e),
           \A e \in Dentries : KeptOrFreed(dc1, dc2, ext2, c, e)
    PROVE  Frame(dc, dc2, ext2, x, Null)
<1>1. SUFFICES ASSUME NEW e \in Dentries
               PROVE  /\ \/ dc[e].state # "free" /\ ext2[e] >= 1
                         \/ dc[e].inode # "none"
                         \/ dc2[e].inode # "none"
                         => Stays(dc, dc2, x, e)
                      /\ dc2[e].state # "free" /\ e # Null =>
                          /\ dc[e].state # "free"
                          /\ dc2[e].name = dc[e].name
                          /\ dc2[e].parent = dc[e].parent
    BY DEF Frame
<1>2. Stays(dc, dc1, x, e) /\ KeptOrFreed(dc1, dc2, ext2, c, e)
    OBVIOUS
<1>3. CASE Keeps(dc1, dc2, e)
    BY <1>2, <1>3 DEF Stays, Keeps
<1>4. CASE e = c /\ ext2[c] = 0 /\ dc1[c].inode = "none" /\ dc2[c] = FreeDentry
  <2>1. dc[e].inode = "none" /\ dc2[e].inode = "none" /\ dc2[e].state = "free"
    BY <1>2, <1>4 DEF Stays, FreeDentry
  <2>2. ~(ext2[e] >= 1)
    BY <1>4
  <2> QED
    BY <2>1, <2>2
<1> QED
    BY <1>2, <1>3, <1>4 DEF KeptOrFreed

LEMMA PutStep ==
    ASSUME NEW dc, NEW ext, NEW ext2 \in [Dentries -> Nat], NEW d \in Dentries,
           Cached(dc, ext), OneMore(ext2, ext, d), ext2[Root] >= 1
    PROVE  Cached(dput(dc, d), ext2) /\ Frame(dc, dput(dc, d), ext2, Null, Null)
<1>1. Cached(dput(dc, d), ext2) /\ \A e \in Dentries : KeptOrFreed(dc, dput(dc, d), ext2, d, e)
    BY DputCached
<1>2. \A e \in Dentries : Stays(dc, dc, Null, e)
    BY DEF Stays
<1> QED
    BY <1>1, <1>2, FrameOfPut

\* A walk goes on from c to d.
LEMMA MoveStep ==
    ASSUME NEW dc, NEW ext, NEW ext2 \in [Dentries -> Nat],
           NEW c \in Dentries, NEW d \in Dentries,
           Cached(dc, ext), dc[d].state # "free", ext2[Root] >= 1,
           \A e \in Dentries : ext2[e] = ext[e] - Is(e, c) + Is(e, d)
    PROVE  /\ Cached(dput(dget(dc, d), c), ext2)
           /\ Frame(dc, dput(dget(dc, d), c), ext2, Null, Null)
<1> DEFINE ext1 == [e \in Dentries |-> ext[e] + Is(e, d)]
           dc1 == dget(dc, d)
           dc2 == dput(dc1, c)
<1>1. ext \in [Dentries -> Nat] /\ \A e \in Dentries : ext[e] \in Nat
    BY DEF Cached
<1>2. \A e \in Dentries : Is(e, c) \in {0, 1} /\ Is(e, d) \in {0, 1}
    BY DEF Is
<1>3. ext1 \in [Dentries -> Nat] /\ \A e \in Dentries : ext1[e] = ext[e] + Is(e, d)
    BY <1>1, <1>2
<1> HIDE DEF ext1
<1>4. OneMore(ext, ext1, d)
    BY <1>3 DEF OneMore
<1>5. Cached(dc1, ext1)
    BY <1>3, <1>4, DgetCached
<1>6. \A e \in Dentries : Keeps(dc, dc1, e)
    BY DgetEffect DEF Cached, Shape
<1> HIDE DEF dc1
<1>7. OneMore(ext2, ext1, c)
  <2>1. SUFFICES ASSUME NEW e \in Dentries PROVE ext1[e] = ext2[e] + Is(e, c)
    BY DEF OneMore
  <2> QED
    BY <1>1, <1>2, <1>3
<1>8. Cached(dc2, ext2) /\ \A e \in Dentries : KeptOrFreed(dc1, dc2, ext2, c, e)
    BY <1>5, <1>7, DputCached
<1> HIDE DEF dc2
<1>9. \A e \in Dentries : Stays(dc, dc1, Null, e)
    BY <1>6 DEF Keeps, Stays
<1>10. Frame(dc, dc2, ext2, Null, Null)
    BY <1>8, <1>9, FrameOfPut
<1> QED
    BY <1>8, <1>10 DEF dc1, dc2

LEMMA AddStep ==
    ASSUME NEW dc, NEW ext, NEW x \in Dentries,
           Cached(dc, ext), x # Root, dc[x].state = "new"
    PROVE  /\ Cached(d_add(dc, x), ext)
           /\ Frame(dc, d_add(dc, x), ext, x, Null)
           /\ d_add(dc, x)[x].state = "hashed"
           /\ \A e \in Dentries : Stays(dc, d_add(dc, x), x, e)
<1> DEFINE dc2 == d_add(dc, x)
<1>1. Cached(dc2, ext)
    BY DaddCached
<1>2. /\ \A e \in Dentries \ {x} : dc2[e] = dc[e]
      /\ dc2[x].state = "hashed"
      /\ dc2[x].name = dc[x].name
      /\ dc2[x].parent = dc[x].parent
      /\ dc2[x].inode = dc[x].inode
      /\ dc2[x].i_fop = dc[x].i_fop
      /\ dc2[x].nlink = dc[x].nlink
    BY DaddEffect DEF Cached, Shape
<1> HIDE DEF dc2
<1>3. \A e \in Dentries : Stays(dc, dc2, x, e)
    BY <1>2 DEF Stays
<1>4. Frame(dc, dc2, ext, x, Null)
    BY <1>3 DEF Stays, Frame
<1> QED
    BY <1>1, <1>2, <1>3, <1>4 DEF dc2

\* A walk adds x and goes on to it from c.
LEMMA AddPutStep ==
    ASSUME NEW dc, NEW ext, NEW ext2 \in [Dentries -> Nat],
           NEW x \in Dentries, NEW c \in Dentries,
           Cached(dc, ext), x # Root, dc[x].state = "new",
           OneMore(ext2, ext, c), ext2[Root] >= 1
    PROVE  /\ Cached(dput(d_add(dc, x), c), ext2)
           /\ Frame(dc, dput(d_add(dc, x), c), ext2, x, Null)
<1> DEFINE dc1 == d_add(dc, x)
           dc2 == dput(dc1, c)
<1>1. Cached(dc1, ext) /\ \A e \in Dentries : Stays(dc, dc1, x, e)
    BY AddStep
<1> HIDE DEF dc1
<1>2. Cached(dc2, ext2) /\ \A e \in Dentries : KeptOrFreed(dc1, dc2, ext2, c, e)
    BY <1>1, DputCached
<1> HIDE DEF dc2
<1>3. Frame(dc, dc2, ext2, x, Null)
    BY <1>1, <1>2, FrameOfPut
<1> QED
    BY <1>2, <1>3 DEF dc1, dc2

LEMMA AllocStep ==
    ASSUME NEW dc, NEW ext, NEW ext2 \in [Dentries -> Nat], NEW d \in Dentries,
           NEW p \in Dentries, NEW n \in Names,
           Cached(dc, ext), dc[d].state = "free", dc[p].inode = "dir", OneMore(ext, ext2, d)
    PROVE  /\ Cached(d_alloc(dc, d, p, n), ext2)
           /\ Frame(dc, d_alloc(dc, d, p, n), ext2, Null, d)
           /\ d_alloc(dc, d, p, n)[d] = NewDentry(p, n)
           /\ d # Root
<1> DEFINE dc2 == d_alloc(dc, d, p, n)
<1>1. Cached(dc2, ext2)
    BY DallocCached
<1>2. dc2[d] = NewDentry(p, n)
    BY DallocCached
<1>3. \A e \in Dentries \ {d} : Keeps(dc, dc2, e)
    BY DallocCached
<1> HIDE DEF dc2
<1>4. dc[d].inode = "none" /\ d # Root
    BY DEF Cached, Shape, FreeDentry
<1>5. dc2[d].inode = "none"
    BY <1>2 DEF NewDentry
<1>6. Frame(dc, dc2, ext2, Null, d)
  <2>1. ASSUME NEW e \in Dentries, e # d
        PROVE  /\ Stays(dc, dc2, Null, e)
               /\ dc2[e].state = dc[e].state
               /\ dc2[e].name = dc[e].name
               /\ dc2[e].parent = dc[e].parent
    BY <1>3, <2>1 DEF Keeps, Stays
  <2> QED
    BY <1>4, <1>5, <2>1 DEF Frame
<1> QED
    BY <1>1, <1>2, <1>4, <1>6 DEF dc2

-----------------------------------------------------------------------------
(***************************************************************************)
(* References from outside the cache.                                      *)
(***************************************************************************)

LEMMA ExternalFacts ==
    ASSUME NEW uc, NEW un, NEW fo, NEW mounts \in Nat
    PROVE  /\ External(uc, un, fo, mounts) \in [Dentries -> Nat]
           /\ External(uc, un, fo, mounts)[Root] >= 1
           /\ \A u \in Users : uc[u] \in Dentries => External(uc, un, fo, mounts)[uc[u]] >= 1
           /\ \A u \in Users : un[u] \in Dentries => External(uc, un, fo, mounts)[un[u]] >= 1
           /\ \A i \in Steps : fo[i] \in Dentries => External(uc, un, fo, mounts)[fo[i]] >= 1
<1> DEFINE ext == External(uc, un, fo, mounts)
<1>1. \A d \in Dentries :
        ext[d] = Refs(Users, uc, d) + Refs(Users, un, d) + Refs(Steps, fo, d)
                    + (IF d = Root THEN 1 + mounts ELSE 0)
    BY DEF External, Held
<1>2. \A d : /\ Refs(Users, uc, d) \in Nat
             /\ Refs(Users, un, d) \in Nat
             /\ Refs(Steps, fo, d) \in Nat
    BY ConstantFacts, RefsType
<1>3. \A u \in Users : Refs(Users, uc, uc[u]) >= 1 /\ Refs(Users, un, un[u]) >= 1
    BY ConstantFacts, RefsPositive
<1>4. \A i \in Steps : Refs(Steps, fo, fo[i]) >= 1
    BY ConstantFacts, RefsPositive
<1>5. ext = [d \in Dentries |-> Held(uc, un, fo, mounts, d)]
    BY DEF External
<1>6. \A d \in Dentries : ext[d] \in Nat
    BY <1>1, <1>2
<1>7. ext \in [Dentries -> Nat]
    BY <1>5, <1>6
<1> HIDE DEF ext
<1>8. ext[Root] >= 1
    BY <1>1, <1>2, ConstantFacts
<1>9. ASSUME NEW u \in Users, uc[u] \in Dentries PROVE ext[uc[u]] >= 1
  <2> DEFINE d == uc[u]
  <2>1. d \in Dentries /\ Refs(Users, uc, d) >= 1
    BY <1>3, <1>9
  <2> HIDE DEF d
  <2>2. ext[d] >= 1
    BY <1>1, <1>2, <2>1
  <2> QED
    BY <2>2 DEF d
<1>10. ASSUME NEW u \in Users, un[u] \in Dentries PROVE ext[un[u]] >= 1
  <2> DEFINE d == un[u]
  <2>1. d \in Dentries /\ Refs(Users, un, d) >= 1
    BY <1>3, <1>10
  <2> HIDE DEF d
  <2>2. ext[d] >= 1
    BY <1>1, <1>2, <2>1
  <2> QED
    BY <2>2 DEF d
<1>11. ASSUME NEW i \in Steps, fo[i] \in Dentries PROVE ext[fo[i]] >= 1
  <2> DEFINE d == fo[i]
  <2>1. d \in Dentries /\ Refs(Steps, fo, d) >= 1
    BY <1>4, <1>11
  <2> HIDE DEF d
  <2>2. ext[d] >= 1
    BY <1>1, <1>2, <2>1
  <2> QED
    BY <2>2 DEF d
<1> QED
    BY <1>7, <1>8, <1>9, <1>10, <1>11 DEF ext

\* One process lets go what it holds and takes something else.
LEMMA ExternalMove ==
    ASSUME NEW uc, NEW uc2, NEW un, NEW un2, NEW fo, NEW mounts \in Nat,
           NEW u \in Users, NEW d \in Dentries,
           \A v \in Users : v # u => uc2[v] = uc[v],
           \A v \in Users : v # u => un2[v] = un[v]
    PROVE  External(uc2, un2, fo, mounts)[d] =
                External(uc, un, fo, mounts)[d]
                    - Is(uc[u], d) + Is(uc2[u], d) - Is(un[u], d) + Is(un2[u], d)
<1>1. IsFiniteSet(Users) /\ IsFiniteSet(Steps)
    BY ConstantFacts
<1>2. Refs(Users, uc2, d) = Refs(Users, uc, d) - Is(uc[u], d) + Is(uc2[u], d)
  <2>1. \A v \in Users : v # u => uc2[v] = uc[v]
    OBVIOUS
  <2> QED
    BY ONLY <1>1, <2>1, u \in Users, RefsMove
<1>3. Refs(Users, un2, d) = Refs(Users, un, d) - Is(un[u], d) + Is(un2[u], d)
  <2>1. \A v \in Users : v # u => un2[v] = un[v]
    OBVIOUS
  <2> QED
    BY ONLY <1>1, <2>1, u \in Users, RefsMove
<1>4. /\ Refs(Users, uc, d) \in Nat /\ Refs(Users, un, d) \in Nat
      /\ Refs(Users, uc2, d) \in Nat /\ Refs(Users, un2, d) \in Nat
      /\ Refs(Steps, fo, d) \in Nat
    BY <1>1, RefsType
<1>5. Is(uc[u], d) \in Nat /\ Is(uc2[u], d) \in Nat /\ Is(un[u], d) \in Nat /\ Is(un2[u], d) \in Nat
    BY DEF Is
<1> DEFINE r == IF d = Root THEN 1 + mounts ELSE 0
<1>6. /\ External(uc2, un2, fo, mounts)[d]
            = Refs(Users, uc2, d) + Refs(Users, un2, d) + Refs(Steps, fo, d) + r
      /\ External(uc, un, fo, mounts)[d]
            = Refs(Users, uc, d) + Refs(Users, un, d) + Refs(Steps, fo, d) + r
      /\ r \in Nat
    BY DEF External, Held
<1> HIDE DEF r
<1> QED
    BY <1>2, <1>3, <1>4, <1>5, <1>6

\* A call of aufs_init keeps what it has found.
LEMMA ExternalFound ==
    ASSUME NEW uc, NEW un, NEW fo, NEW fo2, NEW mounts \in Nat,
           NEW i \in Steps, NEW x \in Dentries,
           \A j \in Steps : j # i => fo2[j] = fo[j],
           fo[i] = Null, fo2[i] = x
    PROVE  OneMore(External(uc, un, fo, mounts), External(uc, un, fo2, mounts), x)
<1>1. SUFFICES ASSUME NEW d \in Dentries
               PROVE  External(uc, un, fo2, mounts)[d]
                        = External(uc, un, fo, mounts)[d] + Is(d, x)
    BY DEF OneMore
<1>2. IsFiniteSet(Users) /\ IsFiniteSet(Steps)
    BY ConstantFacts
<1>3. Refs(Steps, fo2, d) = Refs(Steps, fo, d) - Is(fo[i], d) + Is(fo2[i], d)
  <2>1. \A j \in Steps : j # i => fo2[j] = fo[j]
    OBVIOUS
  <2> QED
    BY ONLY <1>2, <2>1, i \in Steps, RefsMove
<1>4. Is(fo[i], d) = 0 /\ Is(fo2[i], d) = Is(d, x) /\ Is(d, x) \in Nat
    BY ConstantFacts DEF Is
<1>5. /\ Refs(Users, uc, d) \in Nat /\ Refs(Users, un, d) \in Nat
      /\ Refs(Steps, fo, d) \in Nat /\ Refs(Steps, fo2, d) \in Nat
    BY <1>2, RefsType
<1> DEFINE r == IF d = Root THEN 1 + mounts ELSE 0
<1>6. /\ External(uc, un, fo2, mounts)[d]
            = Refs(Users, uc, d) + Refs(Users, un, d) + Refs(Steps, fo2, d) + r
      /\ External(uc, un, fo, mounts)[d]
            = Refs(Users, uc, d) + Refs(Users, un, d) + Refs(Steps, fo, d) + r
      /\ r \in Nat
    BY DEF External, Held
<1> HIDE DEF r
<1> QED
    BY <1>3, <1>4, <1>5, <1>6

-----------------------------------------------------------------------------
(***************************************************************************)
(* Steps of processes.                                                     *)
(***************************************************************************)

Ext(mounts) == External(ucur, unew, found, mounts)

\* Nobody holds a dentry that is free.
LEMMA HeldFacts ==
    ASSUME NEW m \in Nat, TreeInv(m)
    PROVE  /\ Cached(dcache, Ext(m))
           /\ \A d \in Dentries : Ext(m)[d] >= 1 => dcache[d].state # "free"
           /\ \A u \in Users : ucur[u] \in Dentries => dcache[ucur[u]].state # "free"
           /\ \A u \in Users : unew[u] \in Dentries => dcache[unew[u]].state # "free"
           /\ \A i \in Steps : found[i] \in Dentries => dcache[found[i]].state # "free"
           /\ dcache[Root].state # "free"
<1>1. Cached(dcache, Ext(m))
    BY ExternalFacts DEF TreeInv, Cached, Ext
<1>2. /\ Ext(m) \in [Dentries -> Nat]
      /\ \A u \in Users : ucur[u] \in Dentries => Ext(m)[ucur[u]] >= 1
      /\ \A u \in Users : unew[u] \in Dentries => Ext(m)[unew[u]] >= 1
      /\ \A i \in Steps : found[i] \in Dentries => Ext(m)[found[i]] >= 1
    BY ExternalFacts DEF Ext
<1>3. \A d \in Dentries : Ext(m)[d] >= 1 => dcache[d].state # "free"
    BY <1>1, <1>2 DEF Cached, Counted
<1>4. dcache[Root].state # "free"
    BY DEF TreeInv, Shape
<1> QED
    BY <1>1, <1>2, <1>3, <1>4

\* The current call.
LEMMA CallFacts ==
    ASSUME NEW m \in Nat, TreeInv(m), tpc \notin {"done", "killed"}
    PROVE  /\ step \in Steps
           /\ Call.kind \in {"dir", "reg"} /\ Call.name \in Names
           /\ lk \in Dentries \cup {Null}
           /\ InCall => lk \in Dentries \ {Root} /\ dcache[lk].state # "free"
<1>1. step \in Steps
    BY ConstantFacts DEF TreeInv, FrameType, CallInv, Steps
<1>2. Call.kind \in {"dir", "reg"} /\ Call.name \in Names
    BY <1>1, ConstantFacts DEF Call
<1>3. lk \in Dentries \cup {Null}
    BY <1>1 DEF TreeInv, FrameType, lk
<1>4. ASSUME InCall PROVE lk \in Dentries \ {Root} /\ dcache[lk].state # "free"
  <2>1. lk \in Dentries \ {Root}
    BY <1>4 DEF TreeInv, CallInv
  <2> QED
    BY <1>1, <2>1, HeldFacts DEF lk
<1> QED
    BY <1>1, <1>2, <1>3, <1>4

\* Whoever else does something leaves the current call of aufs_init, and what
\* the earlier ones have created, alone.
LEMMA CallsStay ==
    ASSUME NEW m \in Nat, NEW k \in Nat, NEW x, NEW a, TreeInv(m), UNCHANGED initVars,
           Cached(dcache', Ext(k)'), Frame(dcache, dcache', Ext(k)', x, a),
           tpc = "add" => x # lk
    PROVE  CallInv' /\ CreatedInv' /\ SlotInv'
<1> USE DEF initVars
<1>1. lk' = lk /\ Parent' = Parent /\ Call' = Call /\ (InCall' <=> InCall)
    BY DEF lk, Parent, Call, InCall
<1>2. \A i \in Steps : found[i] \in Dentries => Ext(k)'[found[i]] >= 1
    BY ExternalFacts DEF Ext
<1>3. ASSUME NEW i \in Steps, found[i] \in Dentries
      PROVE  Stays(dcache, dcache', x, found[i])
  <2>1. dcache[found[i]].state # "free"
    BY <1>3, HeldFacts
  <2> QED
    BY <1>2, <1>3, <2>1 DEF Frame
<1>4. ASSUME InCall
      PROVE  lk \in Dentries \ {Root} /\ Stays(dcache, dcache', x, lk)
  <2>1. step \in Steps /\ lk \in Dentries \ {Root}
    BY <1>4, CallFacts DEF InCall
  <2> QED
    BY <2>1, <1>3 DEF lk
<1>5. CallInv'
  <2>1. InCall' =>
            /\ lk' \in Dentries \ {Root}
            /\ dcache'[lk'].parent = Parent'
            /\ dcache'[lk'].name = Call'.name
    BY <1>1, <1>4 DEF TreeInv, CallInv, Stays
  <2>2. tpc' = "add" => dcache'[lk'].state = "new"
    BY <1>1, <1>4 DEF TreeInv, CallInv, Stays, InCall
  <2>3. tpc' \in {"mknod", "finish"} => dcache'[lk'].state = "hashed"
    BY <1>1, <1>4 DEF TreeInv, CallInv, Stays, InCall
  <2>4. tpc' = "finish" => /\ dcache'[lk'].inode = Call'.kind
                           /\ Call'.kind = "reg" => dcache'[lk'].i_fop = "default"
    BY <1>1, <1>4 DEF TreeInv, CallInv, Stays, InCall
  <2>5. /\ tpc' # "killed" => (tpc' = "done" <=> step' = Len(Script) + 1)
        /\ \A i \in Steps : i > step' => found'[i] = Null
        /\ \A i \in Steps : found'[i] # Root
        /\ tpc' \in {"lookup", "oops"} => lk' = Null
    BY <1>1 DEF TreeInv, CallInv
  <2> QED
    BY <2>1, <2>2, <2>3, <2>4, <2>5 DEF CallInv
<1>6. CreatedInv'
  <2>1. ASSUME NEW i \in Steps, created[i] # Null
        PROVE  /\ i < step
               /\ created[i] = found[i]
               /\ dcache'[found[i]].state = "hashed"
               /\ dcache'[found[i]].name = Script[i].name
               /\ dcache'[found[i]].inode = Script[i].kind
               /\ Script[i].kind = "reg" => dcache'[found[i]].i_fop = "aufs"
    <3>1. created[i] \in Dentries \cup {Null}
        BY DEF TreeInv, FrameType
    <3>2. /\ i < step
          /\ created[i] = found[i]
          /\ dcache[found[i]].state = "hashed"
          /\ dcache[found[i]].name = Script[i].name
          /\ dcache[found[i]].inode = Script[i].kind
          /\ Script[i].kind = "reg" => dcache[found[i]].i_fop = "aufs"
        BY <2>1 DEF TreeInv, CreatedInv
    <3>3. Stays(dcache, dcache', x, found[i])
        BY <2>1, <3>1, <3>2, <1>3
    <3> QED
        BY <3>2, <3>3 DEF Stays
  <2>2. ASSUME NEW d \in Dentries, dcache'[d].inode # "none"
        PROVE  Stays(dcache, dcache', x, d)
    BY <2>2 DEF Frame
  <2>3. \A d \in Dentries \ {Root} :
            dcache'[d].inode # "none" =>
                \/ \E i \in Steps : created[i] = d
                \/ tpc = "finish" /\ d = lk
    BY <2>2 DEF TreeInv, CreatedInv, Stays
  <2>4. \A d \in Dentries :
            dcache'[d].inode = "reg" => dcache'[d].i_fop \in {"default", "aufs"}
    BY <2>2 DEF TreeInv, CreatedInv, Stays
  <2> QED
    BY <1>1, <2>1, <2>3, <2>4 DEF CreatedInv
<1>7. SlotInv'
    BY DEF TreeInv, SlotInv
<1> QED
    BY <1>5, <1>6, <1>7

\* The process u takes a step; a dentry it hashes is its own.
LEMMA WalkerFrame ==
    ASSUME NEW m \in Nat, NEW u \in Users, NEW x, NEW a, TreeInv(m), UNCHANGED initVars,
           Cached(dcache', Ext(m)'), Frame(dcache, dcache', Ext(m)', x, a),
           tpc = "add" => x # lk,
           upc' \in [Users -> {"idle", "at", "adding", "open"}],
           ucur' \in [Users -> Dentries \cup {Null}],
           unew' \in [Users -> Dentries \cup {Null}],
           f_op' \in [Users -> {"none", "default", "aufs"}],
           \A v \in Users \ {u} :
                /\ upc'[v] = upc[v] /\ ucur'[v] = ucur[v]
                /\ unew'[v] = unew[v] /\ f_op'[v] = f_op[v]
                /\ upc[v] = "adding" => unew[v] # x /\ unew[v] # unew'[u],
           WalkInv(u)'
    PROVE  TreeInv(m)'
<1>1. CallInv' /\ CreatedInv' /\ SlotInv'
    BY CallsStay
<1>2. FrameType'
    BY DEF initVars, TreeInv, FrameType
<1>3. Shape(dcache') /\ Counted(dcache', Ext(m)')
    BY DEF Cached
<1>4. ASSUME NEW v \in Users \ {u} PROVE WalkInv(v)'
  <2>1. WalkInv(v)
    BY DEF TreeInv
  <2>2. ASSUME upc[v] = "adding"
        PROVE  /\ unew[v] \in Dentries \ {Root}
               /\ dcache'[unew[v]].state = "new"
               /\ dcache'[unew[v]].parent = ucur[v]
               /\ \A w \in Users \ {v} : unew'[w] # unew[v]
               /\ tpc = "add" => unew[v] # lk
    <3>1. /\ unew[v] \in Dentries \ {Root}
          /\ dcache[unew[v]].state = "new"
          /\ dcache[unew[v]].parent = ucur[v]
          /\ \A w \in Users \ {v} : unew[w] # unew[v]
          /\ tpc = "add" => unew[v] # lk
        BY <2>1, <2>2 DEF WalkInv
    <3>2. Ext(m)'[unew'[v]] >= 1
        BY <3>1, ExternalFacts DEF Ext
    <3>3. unew'[v] = unew[v] /\ unew[v] # x
        BY <2>2
    <3>4. Stays(dcache, dcache', x, unew[v])
        BY <3>1, <3>2, <3>3 DEF Frame
    <3>5. \A w \in Users \ {v} : unew'[w] # unew[v]
        BY <2>2, <3>1
    <3> QED
        BY <3>1, <3>3, <3>4, <3>5 DEF Stays
  <2>3. tpc' = tpc /\ lk' = lk
    BY DEF initVars, lk
  <2> QED
    BY <2>1, <2>2, <2>3 DEF WalkInv
<1> QED
    BY <1>1, <1>2, <1>3, <1>4 DEF TreeInv, Ext

LEMMA IsFacts ==
    /\ \A b, d : Is(b, d) = Is(d, b) /\ Is(b, d) \in {0, 1}
    /\ \A d \in Dentries : Is(Null, d) = 0 /\ Is(d, d) = 1
BY ConstantFacts DEF Is

\* References when the process u takes a step.
LEMMA ExtStep ==
    ASSUME NEW m \in Nat, NEW u \in Users, UNCHANGED found,
           \A v \in Users : v # u => ucur'[v] = ucur[v],
           \A v \in Users : v # u => unew'[v] = unew[v]
    PROVE  /\ Ext(m) \in [Dentries -> Nat] /\ Ext(m)' \in [Dentries -> Nat]
           /\ Ext(m)'[Root] >= 1
           /\ \A e \in Dentries :
                /\ Ext(m)[e] \in Nat /\ Ext(m)'[e] \in Nat
                /\ Ext(m)'[e] = Ext(m)[e] - Is(ucur[u], e) + Is(ucur'[u], e)
                                          - Is(unew[u], e) + Is(unew'[u], e)
<1>1. Ext(m) \in [Dentries -> Nat] /\ Ext(m)' \in [Dentries -> Nat] /\ Ext(m)'[Root] >= 1
    BY ExternalFacts DEF Ext
<1>2. ASSUME NEW e \in Dentries
      PROVE  Ext(m)'[e] = Ext(m)[e] - Is(ucur[u], e) + Is(ucur'[u], e)
                                    - Is(unew[u], e) + Is(unew'[u], e)
    BY ExternalMove DEF Ext
<1> QED
    BY <1>1, <1>2

LEMMA WalkStartInv ==
    ASSUME NEW m \in Nat, NEW u \in Users, TreeInv(m), WalkStart(u)
    PROVE  TreeInv(m)' /\ Frame(dcache, dcache', Ext(m)', Null, Null)
<1>1. FrameType /\ WalkInv(u)
    BY DEF TreeInv
<1>2. /\ upc[u] = "idle" /\ ucur[u] = Null /\ unew[u] = Null /\ f_op[u] = "none"
      /\ upc' = [upc EXCEPT ![u] = "at"] /\ ucur' = [ucur EXCEPT ![u] = Root]
      /\ UNCHANGED initVars /\ unew' = unew /\ f_op' = f_op
      /\ dcache' = dget(dcache, Root)
    BY <1>1 DEF WalkStart, WalkInv
<1>3. /\ upc' \in [Users -> {"idle", "at", "adding", "open"}]
      /\ ucur' \in [Users -> Dentries \cup {Null}]
      /\ upc'[u] = "at" /\ ucur'[u] = Root
      /\ \A v \in Users \ {u} : upc'[v] = upc[v] /\ ucur'[v] = ucur[v]
    BY <1>1, <1>2, ConstantFacts DEF FrameType
<1>4. /\ Ext(m)' \in [Dentries -> Nat]
      /\ \A e \in Dentries : Ext(m)'[e] = Ext(m)[e] - 0 + Is(Root, e) - 0 + 0
    BY <1>2, <1>3, ExtStep, IsFacts DEF initVars
<1>5. OneMore(Ext(m), Ext(m)', Root)
  <2>1. Ext(m) \in [Dentries -> Nat]
    BY HeldFacts DEF Cached
  <2> QED
    BY <1>4, <2>1, IsFacts DEF OneMore
<1>6. Cached(dcache', Ext(m)') /\ Frame(dcache, dcache', Ext(m)', Null, Null)
    BY <1>2, <1>4, <1>5, ConstantFacts, HeldFacts, GetStep
<1>7. WalkInv(u)'
    BY <1>2, <1>3, ConstantFacts DEF WalkInv
<1>8. tpc = "add" => Null # lk
    BY ConstantFacts, CallFacts DEF InCall
<1>9. ASSUME NEW v \in Users \ {u}, upc[v] = "adding"
      PROVE  unew[v] # Null /\ unew[v] # unew'[u]
    BY <1>2, <1>9, ConstantFacts DEF TreeInv, WalkInv
<1> QED
    BY <1>1, <1>2, <1>3, <1>6, <1>7, <1>8, <1>9, WalkerFrame DEF FrameType

LEMMA LookupHitInv ==
    ASSUME NEW m \in Nat, NEW u \in Users, NEW n \in Names, TreeInv(m), LookupHit(u, n)
    PROVE  TreeInv(m)' /\ Frame(dcache, dcache', Ext(m)', Null, Null)
<1>1. FrameType /\ WalkInv(u) /\ upc[u] = "at"
    BY DEF TreeInv, LookupHit
<1>2. PICK d \in d_lookup(dcache, ucur[u], n) :
            /\ dcache' = dput(dget(dcache, d), ucur[u])
            /\ ucur' = [ucur EXCEPT ![u] = d]
    BY DEF LookupHit
<1>3. /\ unew[u] = Null /\ f_op[u] = "none" /\ ucur[u] \in Dentries
      /\ UNCHANGED initVars /\ upc' = upc /\ unew' = unew /\ f_op' = f_op
    BY <1>1 DEF WalkInv, LookupHit, FrameType
<1>4. d \in Dentries /\ dcache[d].state # "free"
    BY DEF d_lookup
<1>5. /\ ucur' \in [Users -> Dentries \cup {Null}] /\ ucur'[u] = d
      /\ \A v \in Users \ {u} : ucur'[v] = ucur[v]
    BY <1>1, <1>2, <1>4 DEF FrameType
<1>6. /\ Ext(m)' \in [Dentries -> Nat] /\ Ext(m)'[Root] >= 1
      /\ \A e \in Dentries : /\ Ext(m)[e] \in Nat
                             /\ Ext(m)'[e] = Ext(m)[e] - Is(ucur[u], e) + Is(d, e) - 0 + 0
    BY <1>3, <1>5, ExtStep, IsFacts DEF initVars
<1>7. \A e \in Dentries : Ext(m)'[e] = Ext(m)[e] - Is(e, ucur[u]) + Is(e, d)
    BY <1>6, IsFacts
<1>8. Cached(dcache', Ext(m)') /\ Frame(dcache, dcache', Ext(m)', Null, Null)
    BY <1>2, <1>3, <1>4, <1>6, <1>7, HeldFacts, MoveStep
<1>9. WalkInv(u)'
    BY <1>1, <1>3, <1>4, <1>5, ConstantFacts DEF WalkInv
<1>10. tpc = "add" => Null # lk
    BY ConstantFacts, CallFacts DEF InCall
<1>11. ASSUME NEW v \in Users \ {u}, upc[v] = "adding"
       PROVE  unew[v] # Null /\ unew[v] # unew'[u]
    BY <1>3, <1>11, ConstantFacts DEF TreeInv, WalkInv
<1> QED
    BY <1>1, <1>3, <1>5, <1>8, <1>9, <1>10, <1>11, WalkerFrame DEF FrameType

\* The bound MaxDentry leaves room.
LEMMA FreshFacts ==
    ASSUME NEW dc, Room(dc)
    PROVE  Fresh(dc) \in Dentries /\ dc[Fresh(dc)].state = "free"
BY DEF Room, Fresh

LEMMA LookupMissInv ==
    ASSUME NEW m \in Nat, NEW u \in Users, NEW n \in Names, TreeInv(m), LookupMiss(u, n)
    PROVE  TreeInv(m)' /\ Frame(dcache, dcache', Ext(m)', Null, Fresh(dcache))
<1> DEFINE d == Fresh(dcache)
<1>1. FrameType /\ WalkInv(u) /\ upc[u] = "at" /\ dcache[ucur[u]].inode = "dir"
    BY DEF TreeInv, LookupMiss
<1>2. d \in Dentries /\ dcache[d].state = "free"
    BY FreshFacts DEF LookupMiss
<1>3. /\ unew[u] = Null /\ f_op[u] = "none" /\ ucur[u] \in Dentries
      /\ UNCHANGED initVars /\ ucur' = ucur /\ f_op' = f_op
      /\ upc' = [upc EXCEPT ![u] = "adding"] /\ unew' = [unew EXCEPT ![u] = d]
      /\ dcache' = d_alloc(dcache, d, ucur[u], n)
    BY <1>1 DEF WalkInv, LookupMiss, FrameType
<1> HIDE DEF d
<1>4. /\ upc' \in [Users -> {"idle", "at", "adding", "open"}] /\ upc'[u] = "adding"
      /\ unew' \in [Users -> Dentries \cup {Null}] /\ unew'[u] = d
      /\ \A v \in Users \ {u} : unew'[v] = unew[v] /\ upc'[v] = upc[v]
    BY <1>1, <1>2, <1>3 DEF FrameType
<1>5. /\ Ext(m)' \in [Dentries -> Nat]
      /\ \A e \in Dentries :
            /\ Ext(m)[e] \in Nat
            /\ Ext(m)'[e] = Ext(m)[e] - Is(ucur[u], e) + Is(ucur[u], e) - 0 + Is(d, e)
    BY <1>3, <1>4, ExtStep, IsFacts DEF initVars
<1>6. OneMore(Ext(m), Ext(m)', d)
    BY <1>5, IsFacts DEF OneMore
<1>7. /\ Cached(dcache', Ext(m)') /\ Frame(dcache, dcache', Ext(m)', Null, d)
      /\ dcache'[d] = NewDentry(ucur[u], n) /\ d # Root
    BY <1>1, <1>2, <1>3, <1>5, <1>6, HeldFacts, AllocStep
<1>8. ASSUME NEW v \in Users \ {u}, upc[v] = "adding"
      PROVE  unew[v] # Null /\ unew[v] # unew'[u]
    BY <1>2, <1>4, <1>8, ConstantFacts DEF TreeInv, WalkInv
<1>9. \A v \in Users \ {u} : unew'[v] # d
  <2>1. SUFFICES ASSUME NEW v \in Users \ {u} PROVE unew[v] # d
    BY <1>4
  <2> QED
    BY <1>2, HeldFacts
<1>10. tpc = "add" => Null # lk /\ d # lk
    BY <1>2, ConstantFacts, CallFacts DEF InCall
<1>11. WalkInv(u)'
  <2>1. dcache'[d].state = "new" /\ dcache'[d].parent = ucur[u]
    BY <1>7 DEF NewDentry
  <2>2. lk' = lk /\ tpc' = tpc
    BY <1>3 DEF lk, initVars
  <2> QED
    BY <1>1, <1>2, <1>3, <1>4, <1>7, <1>9, <1>10, <2>1, <2>2, ConstantFacts DEF WalkInv
<1> QED
    BY <1>1, <1>3, <1>4, <1>7, <1>8, <1>10, <1>11, WalkerFrame DEF FrameType, d

LEMMA LookupAddInv ==
    ASSUME NEW m \in Nat, NEW u \in Users, TreeInv(m), LookupAdd(u)
    PROVE  TreeInv(m)' /\ Frame(dcache, dcache', Ext(m)', unew[u], Null)
<1> DEFINE x == unew[u]
<1>1. FrameType /\ WalkInv(u) /\ upc[u] = "adding"
    BY DEF TreeInv, LookupAdd
<1>2. /\ x \in Dentries \ {Root} /\ dcache[x].state = "new"
      /\ \A v \in Users \ {u} : unew[v] # x
      /\ tpc = "add" => x # lk
      /\ f_op[u] = "none" /\ ucur[u] \in Dentries
    BY <1>1 DEF WalkInv, FrameType
<1>3. /\ UNCHANGED initVars /\ f_op' = f_op
      /\ upc' = [upc EXCEPT ![u] = "at"] /\ unew' = [unew EXCEPT ![u] = Null]
      /\ ucur' = [ucur EXCEPT ![u] = x]
      /\ dcache' = dput(d_add(dcache, x), ucur[u])
    BY DEF LookupAdd
<1>4. unew[u] = x
    OBVIOUS
<1> HIDE DEF x
<1>5. /\ upc' \in [Users -> {"idle", "at", "adding", "open"}] /\ upc'[u] = "at"
      /\ unew' \in [Users -> Dentries \cup {Null}] /\ unew'[u] = Null
      /\ ucur' \in [Users -> Dentries \cup {Null}] /\ ucur'[u] = x
      /\ \A v \in Users \ {u} : unew'[v] = unew[v] /\ upc'[v] = upc[v] /\ ucur'[v] = ucur[v]
    BY <1>1, <1>2, <1>3 DEF FrameType
<1>6. /\ Ext(m)' \in [Dentries -> Nat] /\ Ext(m)'[Root] >= 1
      /\ \A e \in Dentries :
            /\ Ext(m)[e] \in Nat
            /\ Ext(m)'[e] = Ext(m)[e] - Is(ucur[u], e) + Is(x, e) - Is(x, e) + 0
    BY <1>3, <1>4, <1>5, ExtStep, IsFacts DEF initVars
<1>7. OneMore(Ext(m)', Ext(m), ucur[u])
    BY <1>6, IsFacts DEF OneMore
<1>8. Cached(dcache', Ext(m)') /\ Frame(dcache, dcache', Ext(m)', x, Null)
    BY <1>2, <1>3, <1>6, <1>7, HeldFacts, AddPutStep
<1>9. WalkInv(u)'
    BY <1>2, <1>3, <1>5, ConstantFacts DEF WalkInv
<1>10. ASSUME NEW v \in Users \ {u}, upc[v] = "adding"
       PROVE  unew[v] # x /\ unew[v] # unew'[u]
    BY <1>2, <1>5, <1>10, ConstantFacts DEF TreeInv, WalkInv
<1> QED
    BY <1>1, <1>2, <1>3, <1>4, <1>5, <1>8, <1>9, <1>10, WalkerFrame DEF FrameType

LEMMA OpenFileInv ==
    ASSUME NEW m \in Nat, NEW u \in Users, TreeInv(m), OpenFile(u)
    PROVE  TreeInv(m)' /\ Frame(dcache, dcache', Ext(m)', Null, Null)
<1>1. FrameType /\ WalkInv(u) /\ upc[u] = "at" /\ dcache[ucur[u]].inode = "reg"
    BY DEF TreeInv, OpenFile
<1>2. /\ UNCHANGED initVars /\ dcache' = dcache /\ ucur' = ucur /\ unew' = unew
      /\ upc' = [upc EXCEPT ![u] = "open"]
      /\ f_op' = [f_op EXCEPT ![u] = dcache[ucur[u]].i_fop]
    BY DEF OpenFile
<1>3. ucur[u] \in Dentries /\ unew[u] = Null
    BY <1>1 DEF WalkInv, FrameType
<1>4. dcache[ucur[u]].i_fop \in {"default", "aufs"}
    BY <1>1, <1>3 DEF TreeInv, CreatedInv
<1>5. /\ upc' \in [Users -> {"idle", "at", "adding", "open"}] /\ upc'[u] = "open"
      /\ f_op' \in [Users -> {"none", "default", "aufs"}] /\ f_op'[u] \in {"default", "aufs"}
      /\ \A v \in Users \ {u} : f_op'[v] = f_op[v] /\ upc'[v] = upc[v]
    BY <1>1, <1>2, <1>4 DEF FrameType
<1>6. Ext(m)' = Ext(m)
    BY <1>2 DEF Ext, initVars
<1>7. Cached(dcache', Ext(m)') /\ Frame(dcache, dcache', Ext(m)', Null, Null)
    BY <1>2, <1>6, HeldFacts DEF Frame, Stays
<1>8. WalkInv(u)'
    BY <1>2, <1>3, <1>5, ConstantFacts DEF WalkInv
<1>9. tpc = "add" => Null # lk
    BY ConstantFacts, CallFacts DEF InCall
<1>10. ASSUME NEW v \in Users \ {u}, upc[v] = "adding"
       PROVE  unew[v] # Null /\ unew[v] # unew'[u]
    BY <1>2, <1>3, <1>10, ConstantFacts DEF TreeInv, WalkInv
<1> QED
    BY <1>1, <1>2, <1>5, <1>7, <1>8, <1>9, <1>10, WalkerFrame DEF FrameType

LEMMA ReleaseInv ==
    ASSUME NEW m \in Nat, NEW u \in Users, TreeInv(m), Release(u)
    PROVE  TreeInv(m)' /\ Frame(dcache, dcache', Ext(m)', Null, Null)
<1>1. FrameType /\ WalkInv(u) /\ upc[u] \in {"at", "open"}
    BY DEF TreeInv, Release
<1>2. /\ UNCHANGED initVars /\ unew' = unew
      /\ upc' = [upc EXCEPT ![u] = "idle"] /\ ucur' = [ucur EXCEPT ![u] = Null]
      /\ f_op' = [f_op EXCEPT ![u] = "none"]
      /\ dcache' = dput(dcache, ucur[u])
    BY DEF Release
<1>3. ucur[u] \in Dentries /\ unew[u] = Null
    BY <1>1 DEF WalkInv, FrameType
<1>4. /\ upc' \in [Users -> {"idle", "at", "adding", "open"}] /\ upc'[u] = "idle"
      /\ ucur' \in [Users -> Dentries \cup {Null}] /\ ucur'[u] = Null
      /\ f_op' \in [Users -> {"none", "default", "aufs"}] /\ f_op'[u] = "none"
      /\ \A v \in Users \ {u} : ucur'[v] = ucur[v] /\ upc'[v] = upc[v] /\ f_op'[v] = f_op[v]
    BY <1>1, <1>2 DEF FrameType
<1>5. /\ Ext(m)' \in [Dentries -> Nat] /\ Ext(m)'[Root] >= 1
      /\ \A e \in Dentries :
            /\ Ext(m)[e] \in Nat
            /\ Ext(m)'[e] = Ext(m)[e] - Is(ucur[u], e) + 0 - 0 + 0
    BY <1>2, <1>3, <1>4, ExtStep, IsFacts DEF initVars
<1>6. OneMore(Ext(m)', Ext(m), ucur[u])
    BY <1>5, IsFacts DEF OneMore
<1>7. Cached(dcache', Ext(m)') /\ Frame(dcache, dcache', Ext(m)', Null, Null)
    BY <1>2, <1>3, <1>5, <1>6, HeldFacts, PutStep
<1>8. WalkInv(u)'
    BY <1>2, <1>3, <1>4, ConstantFacts DEF WalkInv
<1>9. tpc = "add" => Null # lk
    BY ConstantFacts, CallFacts DEF InCall
<1>10. ASSUME NEW v \in Users \ {u}, upc[v] = "adding"
       PROVE  unew[v] # Null /\ unew[v] # unew'[u]
    BY <1>2, <1>3, <1>10, ConstantFacts DEF TreeInv, WalkInv
<1> QED
    BY <1>1, <1>2, <1>4, <1>7, <1>8, <1>9, <1>10, WalkerFrame DEF FrameType

-----------------------------------------------------------------------------
(***************************************************************************)
(* Steps of aufs_init.                                                     *)
(***************************************************************************)

\* The last directory after one more call.
LEMMA LastDirStep ==
    ASSUME NEW i \in Steps
    PROVE  /\ Script[i].kind = "dir" => LastDir(i) = {i}
           /\ Script[i].kind # "dir" => LastDir(i) = LastDir(i - 1)
           /\ LastDir(i) \subseteq Steps /\ LastDir(i - 1) \subseteq Steps
           /\ \A j \in LastDir(i - 1) : j < i
           /\ \A j \in LastDir(i - 1) : Script[j].kind = "dir"
<1>1. i \in Nat /\ i >= 1 /\ Len(Script) \in Nat /\ i <= Len(Script)
    BY ConstantFacts DEF Steps
<1>2. ASSUME Script[i].kind = "dir" PROVE LastDir(i) = {i}
  <2>1. i \in LastDir(i)
    BY <1>1, <1>2 DEF LastDir
  <2>2. ASSUME NEW j \in LastDir(i) PROVE j = i
    <3>1. j \in 1..i /\ \A k \in (j + 1)..i : Script[k].kind # "dir"
        BY DEF LastDir
    <3>2. i \notin (j + 1)..i
        BY <3>1, <1>2
    <3> QED
        BY <1>1, <3>1, <3>2
  <2> QED
    BY <2>1, <2>2
<1>3. ASSUME Script[i].kind # "dir" PROVE LastDir(i) = LastDir(i - 1)
  <2>1. ASSUME NEW j \in LastDir(i) PROVE j \in LastDir(i - 1)
    <3>1. j \in 1..i /\ Script[j].kind = "dir" /\ \A k \in (j + 1)..i : Script[k].kind # "dir"
        BY DEF LastDir
    <3>2. j \in 1..(i - 1)
        BY <1>1, <1>3, <3>1
    <3>3. \A k \in (j + 1)..(i - 1) : k \in (j + 1)..i
        BY <1>1, <3>2
    <3> QED
        BY <3>1, <3>2, <3>3 DEF LastDir
  <2>2. ASSUME NEW j \in LastDir(i - 1) PROVE j \in LastDir(i)
    <3>1. j \in 1..(i - 1) /\ Script[j].kind = "dir"
                /\ \A k \in (j + 1)..(i - 1) : Script[k].kind # "dir"
        BY DEF LastDir
    <3>2. j \in 1..i
        BY <1>1, <3>1
    <3>3. ASSUME NEW k \in (j + 1)..i PROVE Script[k].kind # "dir"
      <4>1. k = i \/ k \in (j + 1)..(i - 1)
        BY <1>1, <3>1
      <4> QED
        BY <4>1, <3>1, <1>3
    <3> QED
        BY <3>1, <3>2, <3>3 DEF LastDir
  <2> QED
    BY <2>1, <2>2
<1>4. LastDir(i) \subseteq Steps /\ LastDir(i - 1) \subseteq Steps
  <2>1. 1..i \subseteq Steps /\ 1..(i - 1) \subseteq Steps
    BY <1>1 DEF Steps
  <2> QED
    BY <2>1 DEF LastDir
<1>5. ASSUME NEW j \in LastDir(i - 1) PROVE j < i /\ Script[j].kind = "dir"
    BY <1>1 DEF LastDir
<1> QED
    BY <1>2, <1>3, <1>4, <1>5

\* The directory the current call creates its entry in exists.
LEMMA ParentFacts ==
    ASSUME NEW m \in Nat, TreeInv(m), step \in Steps
    PROVE  /\ Parent \in Dentries /\ dcache[Parent].inode = "dir"
           /\ Call.kind = "dir" => Parent = Root
<1>1. CASE Call.kind = "dir" \/ pslot = Null
  <2>1. Parent = Root
    BY <1>1 DEF Parent
  <2> QED
    BY <2>1, ConstantFacts DEF TreeInv, Shape
<1>2. CASE ~(Call.kind = "dir" \/ pslot = Null)
  <2>1. Parent = pslot /\ pslot # Null
    BY <1>2 DEF Parent
  <2>2. PICK j \in LastDir(step - 1) : created[j] = pslot
    BY <2>1 DEF TreeInv, SlotInv
  <2>3. j \in Steps /\ Script[j].kind = "dir"
    BY <2>2, LastDirStep
  <2>4. created[j] = found[j] /\ dcache[found[j]].inode = "dir"
    BY <2>1, <2>2, <2>3 DEF TreeInv, CreatedInv
  <2>5. pslot \in Dentries
    BY <2>1 DEF TreeInv, FrameType
  <2> QED
    BY <1>2, <2>1, <2>2, <2>4, <2>5
<1> QED
    BY <1>1, <1>2

\* Processes stay where they are.
LEMMA InitFrame ==
    ASSUME NEW m \in Nat, TreeInv(m), UNCHANGED walkVars,
           Cached(dcache', Ext(m)'), FrameType',
           CallInv', CreatedInv', SlotInv',
           \A v \in Users :
                upc[v] = "adding" => /\ dcache'[unew[v]].state = "new"
                                     /\ dcache'[unew[v]].parent = dcache[unew[v]].parent
                                     /\ tpc' = "add" => unew[v] # lk'
    PROVE  TreeInv(m)'
<1>1. ASSUME NEW v \in Users PROVE WalkInv(v)'
    BY DEF TreeInv, WalkInv, walkVars
<1>2. Shape(dcache') /\ Counted(dcache', Ext(m)')
    BY DEF Cached
<1> QED
    BY <1>1, <1>2 DEF TreeInv, Ext

\* Dentries users are adding stay new and in their directory.
LEMMA AddingStays ==
    ASSUME NEW m \in Nat, NEW x, NEW a, NEW v \in Users,
           TreeInv(m), UNCHANGED walkVars, Frame(dcache, dcache', Ext(m)', x, a),
           upc[v] = "adding", unew[v] # x
    PROVE  /\ dcache'[unew[v]].state = "new"
           /\ dcache'[unew[v]].parent = dcache[unew[v]].parent
<1>1. unew[v] \in Dentries /\ dcache[unew[v]].state = "new"
    BY DEF TreeInv, WalkInv
<1>2. Ext(m)'[unew[v]] >= 1
    BY <1>1, ExternalFacts DEF Ext, walkVars
<1>3. Stays(dcache, dcache', x, unew[v])
    BY <1>1, <1>2 DEF Frame
<1> QED
    BY <1>1, <1>3 DEF Stays

\* What earlier calls have created stays, whatever this one looks up.
LEMMA CreatedKept ==
    ASSUME NEW m \in Nat, NEW x, NEW a, TreeInv(m),
           Cached(dcache', Ext(m)'), Frame(dcache, dcache', Ext(m)', x, a),
           tpc # "finish", step' \in Nat, step' >= step,
           \A i \in Steps : created'[i] = created[i],
           \A i \in Steps : i < step => found'[i] = found[i]
    PROVE  CreatedInv'
<1>0. step \in Nat
    BY ConstantFacts DEF TreeInv, FrameType
<1>1. ASSUME NEW i \in Steps, created'[i] # Null
      PROVE  /\ i < step'
             /\ created'[i] = found'[i]
             /\ dcache'[found'[i]].state = "hashed"
             /\ dcache'[found'[i]].name = Script[i].name
             /\ dcache'[found'[i]].inode = Script[i].kind
             /\ Script[i].kind = "reg" => dcache'[found'[i]].i_fop = "aufs"
  <2>1. /\ i < step
        /\ created[i] = found[i]
        /\ dcache[found[i]].state = "hashed"
        /\ dcache[found[i]].name = Script[i].name
        /\ dcache[found[i]].inode = Script[i].kind
        /\ Script[i].kind = "reg" => dcache[found[i]].i_fop = "aufs"
    BY <1>1 DEF TreeInv, CreatedInv
  <2>2. created[i] \in Dentries
    BY <1>1 DEF TreeInv, FrameType
  <2>3. dcache[found[i]].inode # "none"
    BY <2>1, ConstantFacts
  <2>4. Stays(dcache, dcache', x, found[i])
    BY <2>1, <2>2, <2>3 DEF Frame
  <2>5. i \in Nat /\ i < step'
    BY <1>0, <2>1, ConstantFacts DEF Steps
  <2> QED
    BY <2>1, <2>4, <2>5 DEF Stays
<1>2. ASSUME NEW d \in Dentries, dcache'[d].inode # "none"
      PROVE  Stays(dcache, dcache', x, d)
    BY <1>2 DEF Frame
<1>3. \A d \in Dentries \ {Root} :
            dcache'[d].inode # "none" => \E i \in Steps : created'[i] = d
    BY <1>2 DEF TreeInv, CreatedInv, Stays
<1>4. \A d \in Dentries :
            dcache'[d].inode = "reg" => dcache'[d].i_fop \in {"default", "aufs"}
    BY <1>2 DEF TreeInv, CreatedInv, Stays
<1> QED
    BY <1>1, <1>3, <1>4 DEF CreatedInv

\* The lookup of a call has found d, or allocated it.
LEMMA FoundFacts ==
    ASSUME NEW m \in Nat, NEW d \in Dentries \ {Root}, TreeInv(m), tpc = "lookup",
           found' = [found EXCEPT ![step] = d], UNCHANGED <<step, pslot, created, walkVars>>
    PROVE  /\ step \in Steps
           /\ found' \in [Steps -> Dentries \cup {Null}]
           /\ \A i \in Steps : i # step => found'[i] = found[i]
           /\ lk' = d /\ Parent' = Parent /\ Call' = Call
           /\ Ext(m)' \in [Dentries -> Nat]
           /\ OneMore(Ext(m), Ext(m)', d)
           /\ \A i \in Steps : i > step' => found'[i] = Null
           /\ \A i \in Steps : found'[i] # Root
<1>1. step \in Steps /\ step \in Nat
    BY CallFacts, ConstantFacts DEF Steps
<1>2. found[step] = Null
    BY DEF TreeInv, CallInv, lk
<1>3. /\ found' \in [Steps -> Dentries \cup {Null}] /\ found'[step] = d
      /\ \A i \in Steps : i # step => found'[i] = found[i]
    BY <1>1 DEF TreeInv, FrameType
<1>4. lk' = d /\ Parent' = Parent /\ Call' = Call
    BY <1>3 DEF lk, Parent, Call
<1>5. OneMore(Ext(m), Ext(m)', d)
    BY <1>1, <1>2, <1>3, ExternalFound DEF Ext, walkVars
<1>6. Ext(m)' \in [Dentries -> Nat]
    BY ExternalFacts DEF Ext
<1>7. \A i \in Steps : i > step' => found'[i] = Null
    BY <1>1, <1>3, ConstantFacts DEF TreeInv, CallInv, Steps
<1>8. \A i \in Steps : found'[i] # Root
    BY <1>3 DEF TreeInv, CallInv
<1> QED
    BY <1>1, <1>3, <1>4, <1>5, <1>6, <1>7, <1>8

LEMMA LookupOneHitInv ==
    ASSUME NEW m \in Nat, TreeInv(m), lookup_one_len_hit
    PROVE  TreeInv(m)' /\ Frame(dcache, dcache', Ext(m)', Null, Null)
<1>1. PICK d \in d_lookup(dcache, Parent, Call.name) :
            dcache' = dget(dcache, d) /\ found' = [found EXCEPT ![step] = d]
    BY DEF lookup_one_len_hit
<1>2. tpc = "lookup" /\ tpc' = "mknod" /\ UNCHANGED <<step, pslot, created, walkVars>>
    BY DEF lookup_one_len_hit
<1>3. /\ d \in Dentries \ {Root}
      /\ dcache[d].state = "hashed" /\ dcache[d].parent = Parent /\ dcache[d].name = Call.name
    BY DEF d_lookup, TreeInv, Shape
<1>4. /\ step \in Steps
      /\ found' \in [Steps -> Dentries \cup {Null}]
      /\ \A i \in Steps : i # step => found'[i] = found[i]
      /\ lk' = d /\ Parent' = Parent /\ Call' = Call
      /\ Ext(m)' \in [Dentries -> Nat]
      /\ OneMore(Ext(m), Ext(m)', d)
      /\ \A i \in Steps : i > step' => found'[i] = Null
      /\ \A i \in Steps : found'[i] # Root
    BY <1>1, <1>2, <1>3, FoundFacts
<1>5. Cached(dcache', Ext(m)') /\ Frame(dcache, dcache', Ext(m)', Null, Null)
    BY <1>1, <1>3, <1>4, HeldFacts, GetStep
<1>6. FrameType'
    BY <1>2, <1>4 DEF TreeInv, FrameType, walkVars
<1>7. Keeps(dcache, dcache', d)
    BY <1>1, <1>3, DgetEffect DEF TreeInv, Shape
<1>8. CallInv'
    BY <1>2, <1>3, <1>4, <1>7 DEF CallInv, TreeInv, Keeps, InCall
<1>9. CreatedInv'
  <2>1. step' \in Nat /\ step' >= step /\ \A i \in Steps : i < step => found'[i] = found[i]
    BY <1>2, <1>4, ConstantFacts DEF Steps
  <2> QED
    BY <1>2, <1>5, <2>1, CreatedKept
<1>10. SlotInv'
    BY <1>2 DEF SlotInv, TreeInv
<1>11. ASSUME NEW v \in Users, upc[v] = "adding"
       PROVE  /\ dcache'[unew[v]].state = "new"
              /\ dcache'[unew[v]].parent = dcache[unew[v]].parent
  <2>1. unew[v] # Null
    BY <1>11, ConstantFacts DEF TreeInv, WalkInv
  <2> QED
    BY <1>2, <1>5, <1>11, <2>1, AddingStays
<1> QED
    BY <1>2, <1>5, <1>6, <1>8, <1>9, <1>10, <1>11, InitFrame

LEMMA LookupJoinInv ==
    ASSUME NEW m \in Nat, TreeInv(m), d_alloc_parallel_join
    PROVE  TreeInv(m)' /\ Frame(dcache, dcache', Ext(m)', Null, Null)
<1>1. PICK d \in InLookup(dcache, Parent, Call.name) :
            dcache' = dget(dcache, d) /\ found' = [found EXCEPT ![step] = d]
    BY DEF d_alloc_parallel_join
<1>2. tpc = "lookup" /\ tpc' = "wait" /\ UNCHANGED <<step, pslot, created, walkVars>>
    BY DEF d_alloc_parallel_join
<1>3. /\ d \in Dentries
      /\ dcache[d].state = "new" /\ dcache[d].parent = Parent /\ dcache[d].name = Call.name
    BY DEF InLookup
<1>3a. d # Root
  <2>1. dcache[Root].parent = Null
    BY DEF TreeInv, Shape
  <2>2. Parent \in Dentries
    BY <1>2, CallFacts, ParentFacts
  <2> QED
    BY <1>3, <2>1, <2>2, ConstantFacts
<1>4. /\ step \in Steps
      /\ found' \in [Steps -> Dentries \cup {Null}]
      /\ \A i \in Steps : i # step => found'[i] = found[i]
      /\ lk' = d /\ Parent' = Parent /\ Call' = Call
      /\ Ext(m)' \in [Dentries -> Nat]
      /\ OneMore(Ext(m), Ext(m)', d)
      /\ \A i \in Steps : i > step' => found'[i] = Null
      /\ \A i \in Steps : found'[i] # Root
    BY <1>1, <1>2, <1>3, <1>3a, FoundFacts
<1>5. Cached(dcache', Ext(m)') /\ Frame(dcache, dcache', Ext(m)', Null, Null)
    BY <1>1, <1>3, <1>4, HeldFacts, GetStep
<1>6. FrameType'
    BY <1>2, <1>4 DEF TreeInv, FrameType, walkVars
<1>7. Keeps(dcache, dcache', d)
    BY <1>1, <1>3, DgetEffect DEF TreeInv, Shape
<1>8. CallInv'
    BY <1>2, <1>3, <1>3a, <1>4, <1>7 DEF CallInv, TreeInv, Keeps, InCall
<1>9. CreatedInv'
  <2>1. step' \in Nat /\ step' >= step /\ \A i \in Steps : i < step => found'[i] = found[i]
    BY <1>2, <1>4, ConstantFacts DEF Steps
  <2> QED
    BY <1>2, <1>5, <2>1, CreatedKept
<1>10. SlotInv'
    BY <1>2 DEF SlotInv, TreeInv
<1>11. ASSUME NEW v \in Users, upc[v] = "adding"
       PROVE  /\ dcache'[unew[v]].state = "new"
              /\ dcache'[unew[v]].parent = dcache[unew[v]].parent
  <2>1. unew[v] # Null
    BY <1>11, ConstantFacts DEF TreeInv, WalkInv
  <2> QED
    BY <1>2, <1>5, <1>11, <2>1, AddingStays
<1> QED
    BY <1>2, <1>5, <1>6, <1>8, <1>9, <1>10, <1>11, InitFrame

\* Nothing but the program counter of aufs_init changes.
LEMMA OnlyPcInv ==
    ASSUME NEW m \in Nat, TreeInv(m),
           UNCHANGED <<dcache, step, pslot, found, created, walkVars>>,
           \/ tpc = "lookup" /\ tpc' = "oops"
           \/ tpc = "wait" /\ dcache[lk].state = "hashed" /\ tpc' = "mknod"
    PROVE  TreeInv(m)' /\ Frame(dcache, dcache', Ext(m)', Null, Null)
<1>1. Ext(m)' = Ext(m) /\ lk' = lk /\ Parent' = Parent /\ Call' = Call
    BY DEF Ext, lk, Parent, Call, walkVars
<1>2. Cached(dcache', Ext(m)') /\ Frame(dcache, dcache', Ext(m)', Null, Null)
    BY <1>1, HeldFacts DEF Frame, Stays
<1>3. FrameType'
    BY DEF TreeInv, FrameType, walkVars
<1>4. CallInv'
    BY <1>1 DEF TreeInv, CallInv, InCall
<1>5. CreatedInv'
    BY <1>1 DEF TreeInv, CreatedInv
<1>6. SlotInv'
    BY DEF TreeInv, SlotInv
<1>7. \A v \in Users : upc[v] = "adding" => dcache'[unew[v]].state = "new"
    BY DEF TreeInv, WalkInv
<1> QED
    BY <1>2, <1>3, <1>4, <1>5, <1>6, <1>7, InitFrame

LEMMA LookupOneMissInv ==
    ASSUME NEW m \in Nat, TreeInv(m), lookup_one_len_miss
    PROVE  TreeInv(m)' /\ Frame(dcache, dcache', Ext(m)', Null, Fresh(dcache))
<1>1. tpc = "lookup" /\ UNCHANGED <<step, pslot, created, walkVars>>
    BY DEF lookup_one_len_miss
<1>2. CASE tpc' = "oops" /\ UNCHANGED <<dcache, found>>
  <2>1. TreeInv(m)'
    BY <1>1, <1>2, OnlyPcInv
  <2>2. Frame(dcache, dcache', Ext(m)', Null, Fresh(dcache))
    BY <1>2 DEF Frame, Stays
  <2> QED
    BY <2>1, <2>2
<1>3. CASE /\ Room(dcache)
           /\ found' = [found EXCEPT ![step] = Fresh(dcache)]
           /\ dcache' = d_alloc(dcache, Fresh(dcache), Parent, Call.name)
           /\ tpc' = "add"
  <2> DEFINE d == Fresh(dcache)
  <2>1. d \in Dentries /\ dcache[d].state = "free"
    BY <1>3, FreshFacts
  <2>2. /\ found' = [found EXCEPT ![step] = d]
        /\ dcache' = d_alloc(dcache, d, Parent, Call.name)
    BY <1>3
  <2> HIDE DEF d
  <2>3. d # Root
    BY <2>1, HeldFacts
  <2>4. /\ step \in Steps
        /\ found' \in [Steps -> Dentries \cup {Null}]
        /\ \A i \in Steps : i # step => found'[i] = found[i]
        /\ lk' = d /\ Parent' = Parent /\ Call' = Call
        /\ Ext(m)' \in [Dentries -> Nat]
        /\ OneMore(Ext(m), Ext(m)', d)
        /\ \A i \in Steps : i > step' => found'[i] = Null
        /\ \A i \in Steps : found'[i] # Root
    BY <1>1, <2>1, <2>2, <2>3, FoundFacts
  <2>5. /\ Parent \in Dentries /\ dcache[Parent].inode = "dir" /\ Call.name \in Names
    BY <1>1, <2>4, ParentFacts, CallFacts
  <2>6. /\ Cached(dcache', Ext(m)') /\ Frame(dcache, dcache', Ext(m)', Null, d)
        /\ dcache'[d] = NewDentry(Parent, Call.name)
    BY <2>1, <2>2, <2>4, <2>5, HeldFacts, AllocStep
  <2>7. /\ dcache'[d].state = "new" /\ dcache'[d].parent = Parent
        /\ dcache'[d].name = Call.name
    BY <2>6 DEF NewDentry
  <2>8. FrameType'
    BY <1>1, <1>3, <2>4 DEF TreeInv, FrameType, walkVars
  <2>9. CallInv'
    BY <1>1, <1>3, <2>1, <2>3, <2>4, <2>7 DEF CallInv, TreeInv, InCall
  <2>10. CreatedInv'
    <3>1. step' \in Nat /\ step' >= step /\ \A i \in Steps : i < step => found'[i] = found[i]
        BY <1>1, <2>4, ConstantFacts DEF Steps
    <3> QED
        BY <1>1, <2>6, <3>1, CreatedKept
  <2>11. SlotInv'
    BY <1>1 DEF SlotInv, TreeInv
  <2>12. ASSUME NEW v \in Users, upc[v] = "adding"
         PROVE  /\ dcache'[unew[v]].state = "new"
                /\ dcache'[unew[v]].parent = dcache[unew[v]].parent
                /\ unew[v] # lk'
    <3>1. unew[v] # Null /\ dcache[unew[v]].state = "new"
        BY <2>12, ConstantFacts DEF TreeInv, WalkInv
    <3>2. unew[v] # lk'
        BY <2>1, <2>4, <3>1
    <3> QED
        BY <1>1, <2>6, <2>12, <3>1, <3>2, AddingStays
  <2> QED
    BY <1>1, <2>6, <2>8, <2>9, <2>10, <2>11, <2>12, InitFrame DEF d
<1> QED
    BY <1>2, <1>3 DEF lookup_one_len_miss

LEMMA LookupOneAddInv ==
    ASSUME NEW m \in Nat, TreeInv(m), lookup_one_len_add
    PROVE  TreeInv(m)' /\ Frame(dcache, dcache', Ext(m)', lk, Null)
<1>1. /\ tpc = "add" /\ tpc' = "mknod" /\ dcache' = d_add(dcache, lk)
      /\ UNCHANGED <<step, pslot, found, created, walkVars>>
    BY DEF lookup_one_len_add
<1>2. Ext(m)' = Ext(m) /\ lk' = lk /\ Parent' = Parent /\ Call' = Call
    BY <1>1 DEF Ext, lk, Parent, Call, walkVars
<1>3. lk \in Dentries /\ lk # Root /\ dcache[lk].state = "new" /\ step \in Steps
    BY <1>1, CallFacts DEF InCall, TreeInv, CallInv
<1>4. /\ Cached(dcache', Ext(m)') /\ Frame(dcache, dcache', Ext(m)', lk, Null)
      /\ dcache'[lk].state = "hashed" /\ Stays(dcache, dcache', lk, lk)
    BY <1>1, <1>2, <1>3, HeldFacts, AddStep
<1>5. FrameType'
    BY <1>1 DEF TreeInv, FrameType, walkVars
<1>6. CallInv'
    BY <1>1, <1>2, <1>3, <1>4 DEF TreeInv, CallInv, InCall, Stays
<1>7. CreatedInv'
  <2>1. step' \in Nat /\ step' >= step
    BY <1>1, <1>3, ConstantFacts DEF Steps
  <2> QED
    BY <1>1, <1>4, <2>1, CreatedKept
<1>8. SlotInv'
    BY <1>1 DEF SlotInv, TreeInv
<1>9. ASSUME NEW v \in Users, upc[v] = "adding"
      PROVE  /\ dcache'[unew[v]].state = "new"
             /\ dcache'[unew[v]].parent = dcache[unew[v]].parent
  <2>1. unew[v] # lk
    BY <1>1, <1>9 DEF TreeInv, WalkInv
  <2> QED
    BY <1>1, <1>4, <1>9, <2>1, AddingStays
<1> QED
    BY <1>1, <1>4, <1>5, <1>6, <1>7, <1>8, <1>9, InitFrame

\* A call returns d: the next one begins, with nothing looked up.
LEMMA ReturnFacts ==
    ASSUME NEW m \in Nat, NEW d \in Dentries \cup {Null}, TreeInv(m), step \in Steps,
           Return(d), UNCHANGED walkVars
    PROVE  /\ created'[step] = d
           /\ \A i \in Steps : i # step => created'[i] = created[i]
           /\ step' = step + 1 /\ step \in Nat
           /\ FrameType' /\ CallInv' /\ SlotInv'
           /\ tpc' \in {"lookup", "done"}
<1>1. /\ step \in Nat /\ step >= 1 /\ step <= Len(Script) /\ Len(Script) \in Nat
      /\ created' = [created EXCEPT ![step] = d]
      /\ pslot' = (IF Call.kind = "dir" THEN d ELSE pslot)
      /\ step' = step + 1
      /\ tpc' = (IF step = Len(Script) THEN "done" ELSE "lookup")
      /\ found' = found
    BY ConstantFacts DEF Return, Steps
<1>2. /\ created' \in [Steps -> Dentries \cup {Null}] /\ created'[step] = d
      /\ \A i \in Steps : i # step => created'[i] = created[i]
    BY <1>1 DEF TreeInv, FrameType
<1>3. /\ step' \in 1..(Len(Script) + 1) /\ tpc' \in {"lookup", "done"}
      /\ tpc' = "done" <=> step' = Len(Script) + 1
    BY <1>1
<1>4. pslot' \in Dentries \cup {Null}
    BY <1>1 DEF TreeInv, FrameType
<1>5. FrameType'
    BY <1>1, <1>2, <1>3, <1>4 DEF TreeInv, FrameType, walkVars
<1>6. CallInv'
  <2>1. ~InCall'
    BY <1>3 DEF InCall
  <2>2. \A i \in Steps : i > step' => found'[i] = Null
    BY <1>1, ConstantFacts DEF TreeInv, CallInv, Steps
  <2>3. tpc' = "lookup" => lk' = Null
    <3>1. ASSUME tpc' = "lookup" PROVE step + 1 \in Steps /\ step + 1 > step
        BY <1>1, <3>1 DEF Steps
    <3> QED
        BY <1>1, <3>1 DEF TreeInv, CallInv, lk
  <2> QED
    BY <1>1, <1>3, <2>1, <2>2, <2>3 DEF TreeInv, CallInv
<1>7. SlotInv'
  <2>1. LastDir(step' - 1) = LastDir(step)
    <3>1. step' - 1 = step
        BY <1>1
    <3> QED
        BY <3>1
  <2>2. CASE Call.kind = "dir"
    <3>1. LastDir(step) = {step} /\ pslot' = d
        BY <2>2, <1>1, LastDirStep DEF Call
    <3> QED
        BY <1>2, <2>1, <3>1 DEF SlotInv
  <2>3. CASE Call.kind # "dir"
    <3>1. LastDir(step) = LastDir(step - 1) /\ pslot' = pslot
        BY <2>3, <1>1, LastDirStep DEF Call
    <3>2. \A j \in LastDir(step - 1) : created'[j] = created[j]
      <4>1. \A j \in LastDir(step - 1) : j \in Steps /\ j < step
        BY LastDirStep
      <4> QED
        BY <1>1, <1>2, <4>1
    <3> QED
        BY <2>1, <3>1, <3>2 DEF SlotInv, TreeInv
  <2> QED
    BY <2>2, <2>3
<1> QED
    BY <1>1, <1>2, <1>3, <1>5, <1>6, <1>7

LEMMA MknodFailInv ==
    ASSUME NEW m \in Nat, TreeInv(m), aufs_mknod_fail
    PROVE  TreeInv(m)' /\ Frame(dcache, dcache', Ext(m)', Null, Null)
<1>1. tpc = "mknod" /\ Return(Null) /\ UNCHANGED <<dcache, found, walkVars>>
    BY DEF aufs_mknod_fail, Return
<1>2. Ext(m)' = Ext(m)
    BY <1>1 DEF Ext, walkVars
<1>3. step \in Steps
    BY <1>1, CallFacts
<1>4. /\ created'[step] = Null
      /\ \A i \in Steps : i # step => created'[i] = created[i]
      /\ step' = step + 1 /\ step \in Nat
      /\ FrameType' /\ CallInv' /\ SlotInv'
      /\ tpc' \in {"lookup", "done"}
    BY <1>1, <1>3, ReturnFacts
<1>5. Cached(dcache', Ext(m)') /\ Frame(dcache, dcache', Ext(m)', Null, Null)
    BY <1>1, <1>2, HeldFacts DEF Frame, Stays
<1>6. created[step] = Null
    BY <1>3, <1>4 DEF TreeInv, CreatedInv
<1>7. CreatedInv'
  <2>1. step' \in Nat /\ step' >= step /\ \A i \in Steps : created'[i] = created[i]
    BY <1>4, <1>6
  <2> QED
    BY <1>1, <1>5, <2>1, CreatedKept
<1>8. \A v \in Users : upc[v] = "adding" => dcache'[unew[v]].state = "new"
    BY <1>1 DEF TreeInv, WalkInv
<1> QED
    BY <1>1, <1>4, <1>5, <1>7, <1>8, InitFrame

\* What aufs_mknod does to the cache.
LEMMA MknodFacts ==
    ASSUME NEW m \in Nat, TreeInv(m), aufs_mknod
    PROVE  /\ step \in Steps /\ lk \in Dentries /\ lk # Root
           /\ dcache[lk].state = "hashed" /\ dcache[lk].inode = "none"
           /\ Cached(dcache', Ext(m))
           /\ \A e \in Dentries \ {lk} : dcache'[e] = dcache[e]
           /\ dcache'[lk].state = "hashed"
           /\ dcache'[lk].name = dcache[lk].name
           /\ dcache'[lk].parent = dcache[lk].parent
           /\ dcache'[lk].inode = Call.kind
           /\ dcache'[lk].i_fop = IF Call.kind = "dir" THEN "dir" ELSE "default"
           /\ dcache'[lk].nlink = IF Call.kind = "dir" THEN 2 ELSE 1
           /\ Call.kind \in {"dir", "reg"}
           /\ Call.kind = "dir" => dcache[lk].parent = Root
<1>1. tpc = "mknod" /\ dcache[lk].inode = "none" /\ dcache' = Made(dcache, lk, Call.kind)
    BY DEF aufs_mknod, Made
<1>2. step \in Steps /\ lk \in Dentries /\ lk # Root /\ Call.kind \in {"dir", "reg"}
    BY <1>1, CallFacts DEF InCall
<1>3. dcache[lk].state = "hashed" /\ dcache[lk].parent = Parent
    BY <1>1 DEF TreeInv, CallInv, InCall
<1>4. Call.kind = "dir" => dcache[lk].parent = Root
    BY <1>2, <1>3, ParentFacts
<1>5. dcache \in [Dentries -> Dentry]
    BY DEF TreeInv, Shape
<1>6. Cached(dcache', Ext(m))
    BY <1>1, <1>2, <1>3, <1>4, HeldFacts, MadeCached
<1> QED
    BY <1>1, <1>2, <1>3, <1>4, <1>5, <1>6, MadeEffect

LEMMA MknodInv ==
    ASSUME NEW m \in Nat, TreeInv(m), aufs_mknod
    PROVE  TreeInv(m)'
<1>1. /\ tpc = "mknod" /\ tpc' = "finish"
      /\ UNCHANGED <<step, pslot, found, created, walkVars>>
    BY DEF aufs_mknod
<1>2. Ext(m)' = Ext(m) /\ lk' = lk /\ Parent' = Parent /\ Call' = Call
    BY <1>1 DEF Ext, lk, Parent, Call, walkVars
<1>3. /\ step \in Steps /\ lk \in Dentries /\ lk # Root
      /\ dcache[lk].state = "hashed" /\ dcache[lk].inode = "none"
      /\ Cached(dcache', Ext(m))
      /\ \A e \in Dentries \ {lk} : dcache'[e] = dcache[e]
      /\ dcache'[lk].state = "hashed"
      /\ dcache'[lk].name = dcache[lk].name
      /\ dcache'[lk].parent = dcache[lk].parent
      /\ dcache'[lk].inode = Call.kind
      /\ dcache'[lk].i_fop = IF Call.kind = "dir" THEN "dir" ELSE "default"
      /\ Call.kind \in {"dir", "reg"}
    BY MknodFacts
<1>4. FrameType'
    BY <1>1 DEF TreeInv, FrameType, walkVars
<1>5. CallInv'
  <2>1. dcache[lk].parent = Parent /\ dcache[lk].name = Call.name
    BY <1>1 DEF TreeInv, CallInv, InCall
  <2>2. tpc' = "finish" => /\ dcache'[lk'].inode = Call'.kind
                           /\ Call'.kind = "reg" => dcache'[lk'].i_fop = "default"
    BY <1>2, <1>3
  <2> QED
    BY <1>1, <1>2, <1>3, <2>1, <2>2 DEF TreeInv, CallInv
<1>6. CreatedInv'
  <2>1. ASSUME NEW i \in Steps, created[i] # Null
        PROVE  /\ i < step
               /\ created[i] = found[i]
               /\ dcache'[found[i]].state = "hashed"
               /\ dcache'[found[i]].name = Script[i].name
               /\ dcache'[found[i]].inode = Script[i].kind
               /\ Script[i].kind = "reg" => dcache'[found[i]].i_fop = "aufs"
    <3>1. /\ i < step
          /\ created[i] = found[i]
          /\ dcache[found[i]].state = "hashed"
          /\ dcache[found[i]].name = Script[i].name
          /\ dcache[found[i]].inode = Script[i].kind
          /\ Script[i].kind = "reg" => dcache[found[i]].i_fop = "aufs"
        BY <2>1 DEF TreeInv, CreatedInv
    <3>2. found[i] \in Dentries /\ found[i] # lk
        BY <2>1, <3>1, <1>3, ConstantFacts DEF TreeInv, FrameType
    <3> QED
        BY <3>1, <3>2, <1>3
  <2>2. ASSUME NEW d \in Dentries \ {Root}, dcache'[d].inode # "none"
        PROVE  (\E i \in Steps : created[i] = d) \/ d = lk
    BY <1>1, <1>3, <2>2 DEF TreeInv, CreatedInv
  <2>3. ASSUME NEW d \in Dentries, dcache'[d].inode = "reg"
        PROVE  dcache'[d].i_fop \in {"default", "aufs"}
    BY <1>3, <2>3 DEF TreeInv, CreatedInv
  <2> QED
    BY <1>1, <1>2, <2>1, <2>2, <2>3 DEF CreatedInv
<1>7. SlotInv'
    BY <1>1 DEF SlotInv, TreeInv
<1>8. ASSUME NEW v \in Users, upc[v] = "adding"
      PROVE  dcache'[unew[v]] = dcache[unew[v]] /\ dcache[unew[v]].state = "new"
    BY <1>3, <1>8 DEF TreeInv, WalkInv
<1> QED
    BY <1>1, <1>2, <1>3, <1>4, <1>5, <1>6, <1>7, <1>8, InitFrame

\* What the last step of a call does to the cache.
LEMMA FinishFacts ==
    ASSUME NEW m \in Nat, TreeInv(m), aufs_create_file_finish
    PROVE  /\ step \in Steps /\ lk \in Dentries /\ lk # Root
           /\ dcache[lk].state = "hashed" /\ dcache[lk].inode = Call.kind
           /\ dcache[lk].name = Call.name /\ dcache[lk].parent = Parent
           /\ Cached(dcache', Ext(m))
           /\ Call.kind \in {"dir", "reg"}
           /\ \A e \in Dentries :
                /\ Fixed(dcache, dcache', e)
                /\ dcache'[e].i_fop = IF e = lk /\ Call.kind = "reg" THEN "aufs"
                                      ELSE dcache[e].i_fop
                /\ dcache'[e].nlink = dcache[e].nlink
                        + (IF Call.kind = "dir" /\ e = Root THEN 1 ELSE 0)
<1>1. tpc = "finish"
    BY DEF aufs_create_file_finish
<1>2. step \in Steps /\ lk \in Dentries /\ lk # Root /\ Call.kind \in {"dir", "reg"}
    BY <1>1, CallFacts DEF InCall
<1>3. /\ dcache[lk].state = "hashed" /\ dcache[lk].inode = Call.kind
      /\ dcache[lk].name = Call.name /\ dcache[lk].parent = Parent
    BY <1>1 DEF TreeInv, CallInv, InCall
<1>4. Call.kind = "dir" => dcache[lk].parent = Root
    BY <1>2, <1>3, ParentFacts
<1>5. \A e \in Dentries : dcache[e].nlink \in Nat
    BY DEF TreeInv, Shape, Dentry
<1>6. CASE Call.kind = "dir"
  <2>1. dcache' = [dcache EXCEPT ![Root].nlink = @ + 1]
    BY <1>4, <1>6 DEF aufs_create_file_finish
  <2>2. /\ Cached(dcache', Ext(m))
        /\ \A e \in Dentries : /\ Fixed(dcache, dcache', e)
                               /\ dcache'[e].nlink = dcache[e].nlink + Is(e, Root)
                               /\ dcache'[e].i_fop = dcache[e].i_fop
    <3>1. Root \in Dentries /\ Cached(dcache, Ext(m)) /\ dcache[Root].state # "free"
        BY ConstantFacts, HeldFacts
    <3>2. /\ Cached([dcache EXCEPT ![Root].nlink = @ + 1], Ext(m))
          /\ \A e \in Dentries :
                /\ Fixed(dcache, [dcache EXCEPT ![Root].nlink = @ + 1], e)
                /\ [dcache EXCEPT ![Root].nlink = @ + 1][e].nlink = dcache[e].nlink + Is(e, Root)
                /\ [dcache EXCEPT ![Root].nlink = @ + 1][e].i_fop = dcache[e].i_fop
        BY <3>1, SetLinkCached
    <3> QED
        BY <2>1, <3>2
  <2> QED
    BY <1>2, <1>3, <1>6, <2>2 DEF Is
<1>7. CASE Call.kind = "reg"
  <2>1. dcache' = [dcache EXCEPT ![lk].i_fop = "aufs"]
    BY <1>7 DEF aufs_create_file_finish
  <2>2. /\ Cached(dcache', Ext(m))
        /\ \A e \in Dentries : /\ Fixed(dcache, dcache', e)
                               /\ dcache'[e].nlink = dcache[e].nlink
                               /\ dcache'[e].i_fop = IF e = lk THEN "aufs" ELSE dcache[e].i_fop
    BY <1>2, <1>3, <2>1, HeldFacts, SetFopsCached
  <2> QED
    BY <1>2, <1>3, <1>5, <1>7, <2>2
<1> QED
    BY <1>2, <1>6, <1>7

LEMMA FinishInv ==
    ASSUME NEW m \in Nat, TreeInv(m), aufs_create_file_finish
    PROVE  TreeInv(m)'
<1>1. tpc = "finish" /\ Return(lk) /\ found' = found /\ UNCHANGED walkVars
    BY DEF aufs_create_file_finish, Return
<1>2. Ext(m)' = Ext(m)
    BY <1>1 DEF Ext, walkVars
<1>3. /\ step \in Steps /\ lk \in Dentries /\ lk # Root
      /\ dcache[lk].state = "hashed" /\ dcache[lk].inode = Call.kind
      /\ dcache[lk].name = Call.name
      /\ Cached(dcache', Ext(m))
      /\ Call.kind \in {"dir", "reg"}
      /\ \A e \in Dentries :
            /\ Fixed(dcache, dcache', e)
            /\ dcache'[e].i_fop = IF e = lk /\ Call.kind = "reg" THEN "aufs"
                                  ELSE dcache[e].i_fop
    BY FinishFacts
<1>4. /\ created'[step] = lk
      /\ \A i \in Steps : i # step => created'[i] = created[i]
      /\ step' = step + 1 /\ step \in Nat
      /\ FrameType' /\ CallInv' /\ SlotInv'
      /\ tpc' \in {"lookup", "done"}
    BY <1>1, <1>3, ReturnFacts
<1>5. CreatedInv'
  <2>1. ASSUME NEW i \in Steps, created'[i] # Null
        PROVE  /\ i < step'
               /\ created'[i] = found'[i]
               /\ dcache'[found'[i]].state = "hashed"
               /\ dcache'[found'[i]].name = Script[i].name
               /\ dcache'[found'[i]].inode = Script[i].kind
               /\ Script[i].kind = "reg" => dcache'[found'[i]].i_fop = "aufs"
    <3>1. CASE i = step
      <4>1. found'[i] = lk /\ created'[i] = lk /\ Call = Script[i]
        BY <1>1, <1>4, <3>1 DEF lk, Call
      <4>2. Fixed(dcache, dcache', lk) /\ (Call.kind = "reg" => dcache'[lk].i_fop = "aufs")
        BY <1>3
      <4> QED
        BY <1>3, <1>4, <3>1, <4>1, <4>2 DEF Fixed
    <3>2. CASE i # step
      <4>1. created[i] # Null /\ created'[i] = created[i]
        BY <1>4, <2>1, <3>2
      <4>2. /\ i < step
            /\ created[i] = found[i]
            /\ dcache[found[i]].state = "hashed"
            /\ dcache[found[i]].name = Script[i].name
            /\ dcache[found[i]].inode = Script[i].kind
            /\ Script[i].kind = "reg" => dcache[found[i]].i_fop = "aufs"
        BY <4>1 DEF TreeInv, CreatedInv
      <4>3. found[i] \in Dentries
        BY <4>1, <4>2 DEF TreeInv, FrameType
      <4>4. /\ Fixed(dcache, dcache', found[i])
            /\ dcache'[found[i]].i_fop \in {"aufs", dcache[found[i]].i_fop}
        BY <1>3, <4>3
      <4>5. i < step'
        BY <1>4, <4>2, ConstantFacts DEF Steps
      <4> QED
        BY <1>1, <4>1, <4>2, <4>4, <4>5 DEF Fixed
    <3> QED
        BY <3>1, <3>2
  <2>2. ASSUME NEW d \in Dentries \ {Root}, dcache'[d].inode # "none"
        PROVE  \E i \in Steps : created'[i] = d
    <3>1. dcache[d].inode # "none"
        BY <1>3, <2>2 DEF Fixed
    <3>2. (\E i \in Steps : created[i] = d) \/ d = lk
        BY <3>1 DEF TreeInv, CreatedInv
    <3>3. created[step] = Null
        BY <1>3, <1>4 DEF TreeInv, CreatedInv
    <3> QED
        BY <1>3, <1>4, <3>2, <3>3, ConstantFacts
  <2>3. ASSUME NEW d \in Dentries, dcache'[d].inode = "reg"
        PROVE  dcache'[d].i_fop \in {"default", "aufs"}
    BY <1>3, <2>3 DEF TreeInv, CreatedInv, Fixed
  <2> QED
    BY <2>1, <2>2, <2>3 DEF CreatedInv
<1>6. ASSUME NEW v \in Users, upc[v] = "adding"
      PROVE  /\ dcache'[unew[v]].state = "new"
             /\ dcache'[unew[v]].parent = dcache[unew[v]].parent
  <2>1. unew[v] \in Dentries /\ dcache[unew[v]].state = "new"
    BY <1>6 DEF TreeInv, WalkInv
  <2> QED
    BY <2>1, <1>3 DEF Fixed
<1> QED
    BY <1>1, <1>2, <1>3, <1>4, <1>5, <1>6, InitFrame

-----------------------------------------------------------------------------
(***************************************************************************)
(* The tree is made, grows, is mounted once more and unmounted.            *)
(***************************************************************************)

LEMMA InitThreadInv ==
    ASSUME NEW m \in Nat, TreeInv(m), InitThread
    PROVE  TreeInv(m)'
<1>1. CASE d_wait_lookup
    BY <1>1, OnlyPcInv DEF d_wait_lookup
<1> QED
    BY <1>1, LookupOneHitInv, LookupOneMissInv, LookupOneAddInv, LookupJoinInv,
       MknodFailInv, MknodInv, FinishInv DEF InitThread

LEMMA WalkerInv ==
    ASSUME NEW m \in Nat, NEW u \in Users, TreeInv(m), WalkerStep(u)
    PROVE  TreeInv(m)'
BY WalkStartInv, LookupHitInv, LookupMissInv, LookupAddInv, OpenFileInv, ReleaseInv
   DEF WalkerStep

\* Nothing but the number of mounts changes.
LEMMA RootFrame ==
    ASSUME NEW m \in Nat, NEW k \in Nat, TreeInv(m), UNCHANGED <<initVars, walkVars>>,
           Cached(dcache', Ext(k)'), \A e \in Dentries : Keeps(dcache, dcache', e)
    PROVE  TreeInv(k)'
<1>1. Frame(dcache, dcache', Ext(k)', Null, Null)
    BY DEF Frame, Stays, Keeps
<1>2. tpc = "add" => Null # lk
    BY ConstantFacts, CallFacts DEF InCall
<1>3. CallInv' /\ CreatedInv' /\ SlotInv'
    BY <1>1, <1>2, CallsStay
<1>4. FrameType'
    BY DEF TreeInv, FrameType, initVars, walkVars
<1>5. ASSUME NEW v \in Users PROVE WalkInv(v)'
  <2>1. WalkInv(v) /\ lk' = lk /\ (upc[v] = "adding" => Keeps(dcache, dcache', unew[v]))
    BY DEF TreeInv, WalkInv, lk, initVars
  <2> QED
    BY <2>1 DEF WalkInv, Keeps, initVars, walkVars
<1>6. Shape(dcache') /\ Counted(dcache', Ext(k)')
    BY DEF Cached
<1> QED
    BY <1>3, <1>4, <1>5, <1>6 DEF TreeInv, Ext

\* A mount is one more reference on the root, and only on the root.
LEMMA ExtMount ==
    ASSUME NEW m \in Nat
    PROVE  OneMore(Ext(m), Ext(m + 1), Root)
<1>1. SUFFICES ASSUME NEW e \in Dentries PROVE Ext(m + 1)[e] = Ext(m)[e] + Is(e, Root)
    BY DEF OneMore
<1> DEFINE r == Refs(Users, ucur, e) + Refs(Users, unew, e) + Refs(Steps, found, e)
<1>2. r \in Nat
    BY ConstantFacts, RefsType
<1>3. /\ Ext(m)[e] = r + (IF e = Root THEN 1 + m ELSE 0)
      /\ Ext(m + 1)[e] = r + (IF e = Root THEN 1 + (m + 1) ELSE 0)
    BY DEF Ext, External, Held
<1> HIDE DEF r
<1> QED
    BY <1>2, <1>3 DEF Is

LEMMA RootGetInv ==
    ASSUME NEW m \in Nat, TreeInv(m), dcache' = dget(dcache, Root),
           UNCHANGED <<initVars, walkVars>>
    PROVE  TreeInv(m + 1)'
<1>1. Ext(m + 1)' = Ext(m + 1) /\ m + 1 \in Nat
    BY DEF Ext, initVars, walkVars
<1>2. Ext(m + 1) \in [Dentries -> Nat]
    BY <1>1, ExternalFacts DEF Ext
<1>3. Cached(dcache', Ext(m + 1)')
    BY <1>1, <1>2, ConstantFacts, HeldFacts, ExtMount, DgetCached
<1>4. \A e \in Dentries : Keeps(dcache, dcache', e)
    BY ConstantFacts, DgetEffect DEF TreeInv, Shape
<1> QED
    BY <1>1, <1>3, <1>4, RootFrame

\* While a mount remains, the root is not freed.
LEMMA RootPutInv ==
    ASSUME NEW m \in Nat, TreeInv(m + 1), dcache' = [dcache EXCEPT ![Root].count = @ - 1],
           UNCHANGED <<initVars, walkVars>>
    PROVE  TreeInv(m)'
<1>1. m + 1 \in Nat /\ Root \in Dentries
    BY ConstantFacts
<1>2. Ext(m)' = Ext(m) /\ Ext(m) \in [Dentries -> Nat] /\ Ext(m)[Root] >= 1
    BY ExternalFacts DEF Ext, initVars, walkVars
<1>3. Cached(dcache, Ext(m + 1)) /\ dcache[Root].state # "free"
    BY <1>1, HeldFacts
<1>4. OneMore(Ext(m), Ext(m + 1), Root)
    BY ExtMount
<1>5. dcache[Root].count > 1
  <2>1. Ext(m + 1)[Root] = Ext(m)[Root] + 1 /\ Ext(m)[Root] \in Nat
    BY <1>1, <1>2, <1>4 DEF OneMore, Is
  <2>2. Children(dcache, Root) \in Nat /\ Pins(dcache, Root) = 0
    BY ChildrenType DEF Pins
  <2>3. dcache[Root].count = Children(dcache, Root) + Ext(m + 1)[Root] + Pins(dcache, Root)
    BY <1>1, <1>3 DEF Cached, Counted
  <2> QED
    BY <1>2, <2>1, <2>2, <2>3
<1>6. dcache' = dput(dcache, Root)
    BY <1>5 DEF dput
<1>7. Cached(dcache', Ext(m)')
  <2>1. Cached(dput(dcache, Root), Ext(m))
    BY ONLY <1>1, <1>2, <1>3, <1>4, DputCached
  <2> QED
    BY ONLY <1>2, <1>6, <2>1
<1>8. \A e \in Dentries : Keeps(dcache, dcache', e)
  <2>1. dcache \in [Dentries -> Dentry]
    BY <1>3 DEF Cached, Shape
  <2>2. \A e \in Dentries : Keeps(dcache, dput(dcache, Root), e)
    BY ONLY <1>1, <1>5, <2>1, DputEffect
  <2> QED
    BY ONLY <1>6, <2>2
<1> QED
    BY <1>1, <1>7, <1>8, RootFrame

LEMMA InitInv == TreeInit => TreeInv(1)
<1> SUFFICES ASSUME TreeInit PROVE TreeInv(1)
    OBVIOUS
<1>1. /\ dcache = simple_fill_super /\ tpc = "lookup" /\ step = 1 /\ pslot = Null
      /\ found = [i \in Steps |-> Null] /\ created = [i \in Steps |-> Null]
      /\ upc = [u \in Users |-> "idle"] /\ ucur = [u \in Users |-> Null]
      /\ unew = [u \in Users |-> Null] /\ f_op = [u \in Users |-> "none"]
    BY DEF TreeInit
<1>2. Len(Script) \in Nat /\ Len(Script) # 0 /\ 1 \in Steps /\ 1 \in 1..(Len(Script) + 1)
    BY ScriptAssumption, EmptySeq, LenProperties, ConstantFacts DEF Steps
<1>3. FrameType
    BY <1>1, <1>2 DEF FrameType
<1>4. /\ dcache[Root] = [state |-> "new", name |-> NoName, parent |-> Null, count |-> 2,
                         inode |-> "dir", i_fop |-> "dir", nlink |-> RootNlink]
      /\ \A d \in Dentries \ {Root} : dcache[d] = FreeDentry
    BY <1>1, ConstantFacts DEF simple_fill_super
<1>5. dcache \in [Dentries -> Dentry]
  <2>1. [state |-> "new", name |-> NoName, parent |-> Null, count |-> 2,
         inode |-> "dir", i_fop |-> "dir", nlink |-> RootNlink] \in Dentry
    BY DEF Dentry, RootNlink
  <2>2. FreeDentry \in Dentry
    BY DEF Dentry, FreeDentry
  <2> QED
    BY <1>1, <2>1, <2>2 DEF simple_fill_super
<1>6. Shape(dcache)
    BY <1>4, <1>5 DEF Shape, FreeDentry
<1>7. Counted(dcache, External(ucur, unew, found, 1))
  <2>1. SUFFICES ASSUME NEW d \in Dentries
                 PROVE  /\ dcache[d].state = "free" => External(ucur, unew, found, 1)[d] = 0
                        /\ dcache[d].state # "free" =>
                            /\ dcache[d].count = Children(dcache, d)
                                    + External(ucur, unew, found, 1)[d] + Pins(dcache, d)
                            /\ dcache[d].count >= 1
    BY DEF Counted
  <2>2. Refs(Users, ucur, d) = 0 /\ Refs(Users, unew, d) = 0 /\ Refs(Steps, found, d) = 0
    BY <1>1, ConstantFacts, RefsZero
  <2>3. External(ucur, unew, found, 1)[d] = IF d = Root THEN 2 ELSE 0
    BY <2>2 DEF External, Held
  <2>4. Children(dcache, d) = 0
    <3>1. \A c \in Dentries : dcache[c].parent = Null
        BY <1>4 DEF FreeDentry
    <3>2. {c \in Dentries : dcache[c].parent = d} = {}
        BY <3>1, ConstantFacts
    <3> QED
        BY <3>2, FS_EmptySet DEF Children
  <2>5. Pins(dcache, d) = 0
    BY <1>4 DEF Pins, FreeDentry
  <2> QED
    BY <1>4, <2>3, <2>4, <2>5 DEF FreeDentry
<1>8. \A u \in Users : WalkInv(u)
    BY <1>1 DEF WalkInv
<1>9. CallInv
  <2>1. lk = Null /\ ~InCall /\ \A i \in Steps : found[i] # Root
    BY <1>1, <1>2, ConstantFacts DEF lk, InCall
  <2> QED
    BY <1>1, <1>2, <2>1 DEF CallInv
<1>10. CreatedInv
    BY <1>1, <1>4 DEF CreatedInv, FreeDentry
<1>11. SlotInv
  <2>1. \A j \in LastDir(step - 1) : created[j] = Null
    BY <1>1, <1>2, LastDirStep
  <2> QED
    BY <1>1, <2>1 DEF SlotInv
<1> QED
    BY <1>3, <1>6, <1>7, <1>8, <1>9, <1>10, <1>11 DEF TreeInv

-----------------------------------------------------------------------------
(***************************************************************************)
(* kill_litter_super: the reference each call of aufs_init has left behind *)
(* keeps the sweep from finding anything to free.                          *)
(***************************************************************************)

LEMMA PruneNothing ==
    ASSUME NEW dc \in [Dentries -> Dentry],
           \A d \in Dentries \ {Root} : dc[d].state # "free" => dc[d].count # 0
    PROVE  prune_dcache(dc) = dc
<1> DEFINE unused == {d \in Dentries \ {Root} : dc[d].state # "free" /\ dc[d].count = 0}
<1>1. unused = {}
    OBVIOUS
<1>2. prune_dcache(dc) = [d \in Dentries |->
            IF d \in unused THEN FreeDentry
            ELSE [dc[d] EXCEPT !.count = @ - Cardinality({c \in unused : dc[c].parent = d})]]
    BY DEF prune_dcache
<1> HIDE DEF unused
<1>3. \A d : Cardinality({c \in unused : dc[c].parent = d}) = 0
  <2>1. \A d : {c \in unused : dc[c].parent = d} = {}
    BY <1>1
  <2> QED
    BY <2>1, FS_EmptySet
<1>4. ASSUME NEW d \in Dentries
      PROVE  [dc[d] EXCEPT !.count = @ - Cardinality({c \in unused : dc[c].parent = d})] = dc[d]
  <2> DEFINE k == Cardinality({c \in unused : dc[c].parent = d})
  <2>1. dc[d] \in Dentry /\ dc[d].count \in Nat /\ k = 0
    BY <1>3 DEF Dentry
  <2> HIDE DEF k
  <2>2. [dc[d] EXCEPT !.count = dc[d].count - k] = dc[d]
    BY <2>1 DEF Dentry
  <2> QED
    BY <2>2 DEF k
<1> QED
    BY <1>1, <1>2, <1>4

\* The last unmount leaves every dentry but the root where it is.
LEMMA KillFacts ==
    ASSUME NEW dc, NEW ext, Cached(dc, ext), ext[Root] >= 2,
           \A d \in Dentries \ {Root} : dc[d].state # "free" => ext[d] >= 1
    PROVE  /\ kill_litter_super(dc) \in [Dentries -> Dentry]
           /\ \A d \in Dentries \ {Root} : Fixed(dc, kill_litter_super(dc), d)
           /\ \/ kill_litter_super(dc)[Root] = FreeDentry
              \/ Fixed(dc, kill_litter_super(dc), Root)
<1> DEFINE k == dc[Root].count - 1
           one == [dc EXCEPT ![Root].count = k]
           two == d_genocide(one)
           three == shrink_dcache_parent(two)
<1>1. /\ dc \in [Dentries -> Dentry] /\ ext \in [Dentries -> Nat] /\ Root \in Dentries
      /\ Shape(dc) /\ dc[Root].state # "free"
    BY ConstantFacts DEF Cached, Shape
<1>2. \A d \in Dentries : /\ dc[d] \in Dentry /\ dc[d].count \in Nat /\ ext[d] \in Nat
                          /\ Children(dc, d) \in Nat /\ Pins(dc, d) \in {0, 1}
    BY <1>1, ChildrenType DEF Dentry, Pins
<1>3. \A d \in Dentries :
        dc[d].state # "free" => dc[d].count = Children(dc, d) + ext[d] + Pins(dc, d)
    BY DEF Cached, Counted
<1>4. k \in Nat /\ k >= 1
    BY <1>1, <1>2, <1>3
<1>5. kill_litter_super(dc) = IF three[Root].count > 1 THEN [three EXCEPT ![Root].count = @ - 1]
                              ELSE [three EXCEPT ![Root] = FreeDentry]
    BY DEF kill_litter_super
<1> HIDE DEF k
<1>6. /\ one \in [Dentries -> Dentry] /\ Keeps(dc, one, Root) /\ one[Root].count = k
      /\ \A d \in Dentries \ {Root} : one[d] = dc[d]
    BY <1>1, <1>2, <1>4 DEF Dentry, Keeps
<1> HIDE DEF one
<1>7. two = [d \in Dentries |->
                IF d # Root /\ one[d].state = "hashed" /\ one[d].inode # "none"
                THEN [one[d] EXCEPT !.count = @ - 1] ELSE one[d]]
    BY DEF d_genocide
<1> HIDE DEF two
<1>8. two[Root] = one[Root]
    BY <1>1, <1>7
<1>9. ASSUME NEW d \in Dentries \ {Root}
      PROVE  /\ two[d] \in Dentry /\ Fixed(dc, two, d)
             /\ dc[d].state # "free" => two[d].count # 0
  <2>1. one[d] = dc[d] /\ one[d] \in Dentry /\ dc[d].count \in Nat
    BY <1>2, <1>6
  <2>2. CASE dc[d].state = "hashed" /\ dc[d].inode # "none"
    <3> DEFINE j == dc[d].count - 1
    <3>1. Pins(dc, d) = 1
        BY <2>2 DEF Pins
    <3>2. j \in Nat /\ j # 0
        BY <1>2, <1>3, <2>2, <3>1
    <3>3. two[d] = [dc[d] EXCEPT !.count = j]
        BY <1>7, <2>1, <2>2
    <3> HIDE DEF j
    <3> QED
        BY <2>1, <3>2, <3>3 DEF Dentry, Fixed
  <2>3. CASE ~(dc[d].state = "hashed" /\ dc[d].inode # "none")
    <3>1. two[d] = dc[d]
        BY <1>7, <2>1, <2>3
    <3>2. dc[d].state # "free" => dc[d].count # 0
        BY <1>2, <1>3
    <3> QED
        BY <2>1, <3>1, <3>2 DEF Fixed
  <2> QED
    BY <2>2, <2>3
<1>10. two \in [Dentries -> Dentry]
    BY <1>6, <1>7, <1>8, <1>9
<1>11. \A d \in Dentries \ {Root} : two[d].state # "free" => two[d].count # 0
    BY <1>9 DEF Fixed
<1>12. three = two
    BY <1>10, <1>11, PruneNothing DEF shrink_dcache_parent
<1> HIDE DEF three
<1>13. CASE two[Root].count > 1
  <2> DEFINE j == two[Root].count - 1
  <2>1. two[Root] \in Dentry /\ two[Root].count \in Nat /\ j \in Nat
    BY <1>1, <1>10, <1>13 DEF Dentry
  <2>2. kill_litter_super(dc) = [two EXCEPT ![Root].count = j]
    BY <1>5, <1>12, <1>13
  <2> HIDE DEF j
  <2>3. /\ [two EXCEPT ![Root].count = j] \in [Dentries -> Dentry]
        /\ \A d \in Dentries \ {Root} : [two EXCEPT ![Root].count = j][d] = two[d]
        /\ Fixed(two, [two EXCEPT ![Root].count = j], Root)
    BY <1>1, <1>10, <2>1 DEF Dentry, Fixed
  <2>4. /\ kill_litter_super(dc) \in [Dentries -> Dentry]
        /\ \A d \in Dentries \ {Root} : kill_litter_super(dc)[d] = two[d]
        /\ Fixed(two, kill_litter_super(dc), Root)
    BY <2>2, <2>3
  <2>5. Fixed(dc, two, Root)
    BY <1>6, <1>8 DEF Fixed, Keeps
  <2> QED
    BY <1>9, <2>4, <2>5 DEF Fixed
<1>14. CASE ~(two[Root].count > 1)
  <2>1. kill_litter_super(dc) = [two EXCEPT ![Root] = FreeDentry]
    BY <1>5, <1>12, <1>14
  <2>2. FreeDentry \in Dentry
    BY DEF FreeDentry, Dentry
  <2>3. /\ kill_litter_super(dc) \in [Dentries -> Dentry]
        /\ \A d \in Dentries \ {Root} : kill_litter_super(dc)[d] = two[d]
        /\ kill_litter_super(dc)[Root] = FreeDentry
    BY <1>1, <1>10, <2>1, <2>2
  <2> QED
    BY <1>9, <2>3 DEF Fixed
<1> QED
    BY <1>13, <1>14

\* Every dentry in use is one that a call has looked up, or a process holds.
LEMMA UsedAreHeld ==
    ASSUME NEW m \in Nat, TreeInv(m + 1)
    PROVE  /\ Cached(dcache, Ext(m + 1))
           /\ Ext(m + 1)[Root] >= 2
           /\ \A d \in Dentries \ {Root} : dcache[d].state # "free" => Ext(m + 1)[d] >= 1
<1>1. m + 1 \in Nat /\ Root \in Dentries
    BY ConstantFacts
<1>2. Cached(dcache, Ext(m + 1)) /\ Shape(dcache)
    BY <1>1, HeldFacts DEF Cached
<1>3. Ext(m + 1)[Root] >= 2
  <2>1. OneMore(Ext(m), Ext(m + 1), Root) /\ Ext(m)[Root] \in Nat /\ Ext(m)[Root] >= 1
    BY <1>1, ExtMount, ExternalFacts DEF Ext
  <2> QED
    BY <1>1, <2>1 DEF OneMore, Is
<1>4. ASSUME NEW d \in Dentries \ {Root}, dcache[d].state # "free"
      PROVE  Ext(m + 1)[d] >= 1
  <2>1. CASE dcache[d].inode # "none"
    <3>1. \E i \in Steps : found[i] = d
      <4>1. CASE \E i \in Steps : created[i] = d
        BY <4>1, ConstantFacts DEF TreeInv, CreatedInv
      <4>2. CASE tpc = "finish" /\ d = lk
        BY <1>1, <4>2, CallFacts DEF lk
      <4> QED
        BY <2>1, <4>1, <4>2 DEF TreeInv, CreatedInv
    <3> QED
        BY <1>1, <3>1, ExternalFacts DEF Ext
  <2>2. CASE dcache[d].inode = "none"
    <3>1. Children(dcache, d) = 0
        BY <1>2, <2>2, NoChildren
    <3>2. Pins(dcache, d) = 0
        BY <2>2 DEF Pins
    <3>3. /\ dcache[d].count = Children(dcache, d) + Ext(m + 1)[d] + Pins(dcache, d)
          /\ dcache[d].count >= 1
        BY <1>2, <1>4 DEF Cached, Counted
    <3>4. Ext(m + 1)[d] \in Nat
        BY <1>1, ExternalFacts DEF Ext
    <3> QED
        BY <3>1, <3>2, <3>3, <3>4
  <2> QED
    BY <2>1, <2>2
<1> QED
    BY <1>2, <1>3, <1>4

-----------------------------------------------------------------------------
(***************************************************************************)
(* Theorems: types and references.                                         *)
(***************************************************************************)

TreeSafe ==
    /\ TreeTypeOK
    /\ tpc = "killed" => \A u \in Users : upc[u] = "idle"
    /\ tpc # "killed" => TreeInv(1)

LEMMA TreeInvTypes ==
    ASSUME NEW m \in Nat, TreeInv(m)
    PROVE  TreeTypeOK /\ tpc # "killed"
BY DEF TreeInv, FrameType, Shape, TreeTypeOK

\* A step is one of aufs_init or of a process, or the last unmount.
LEMMA StepCases ==
    ASSUME TreeSafe, TreeNext
    PROVE  /\ tpc # "killed" /\ TreeInv(1)
           /\ \/ InitThread
              \/ \E u \in Users : WalkerStep(u)
              \/ aufs_exit_kill
<1>1. tpc # "killed"
  <2>1. CASE InitThread
    BY <2>1 DEF InitThread, lookup_one_len_hit, lookup_one_len_miss, lookup_one_len_add,
                d_alloc_parallel_join, d_wait_lookup, aufs_mknod_fail, aufs_mknod,
                aufs_create_file_finish
  <2>2. CASE aufs_exit_kill
    BY <2>2 DEF aufs_exit_kill
  <2>3. ASSUME NEW u \in Users, WalkerStep(u) PROVE tpc # "killed"
    BY <2>3 DEF TreeSafe, WalkerStep, WalkStart, LookupHit, LookupMiss, LookupAdd, OpenFile,
                Release
  <2> QED
    BY <2>1, <2>2, <2>3 DEF TreeNext
<1> QED
    BY <1>1 DEF TreeSafe, TreeNext

LEMMA KillSafe ==
    ASSUME TreeInv(1), aufs_exit_kill
    PROVE  /\ TreeSafe'
           /\ \A d \in Dentries \ {Root} : Fixed(dcache, dcache', d)
           /\ dcache'[Root] = FreeDentry \/ Fixed(dcache, dcache', Root)
<1>1. /\ tpc' = "killed" /\ dcache' = kill_litter_super(dcache)
      /\ \A u \in Users : upc[u] = "idle"
      /\ UNCHANGED <<step, pslot, found, created, walkVars>>
    BY DEF aufs_exit_kill
<1>2. /\ Cached(dcache, Ext(1))
      /\ Ext(1)[Root] >= 2
      /\ \A d \in Dentries \ {Root} : dcache[d].state # "free" => Ext(1)[d] >= 1
  <2>1. 0 \in Nat /\ 0 + 1 = 1
    OBVIOUS
  <2> QED
    BY <2>1, UsedAreHeld
<1>3. /\ dcache' \in [Dentries -> Dentry]
      /\ \A d \in Dentries \ {Root} : Fixed(dcache, dcache', d)
      /\ dcache'[Root] = FreeDentry \/ Fixed(dcache, dcache', Root)
    BY <1>1, <1>2, KillFacts
<1>4. TreeTypeOK'
    BY <1>1, <1>3 DEF TreeInv, FrameType, TreeTypeOK, walkVars
<1> QED
    BY <1>1, <1>3, <1>4 DEF TreeSafe, walkVars

LEMMA TreeSafeStep ==
    TreeSafe /\ [TreeNext]_treeVars => TreeSafe'
<1> SUFFICES ASSUME TreeSafe, [TreeNext]_treeVars PROVE TreeSafe'
    OBVIOUS
<1>1. CASE UNCHANGED treeVars
  <2>1. /\ UNCHANGED <<dcache, tpc, step, pslot, found, created>>
        /\ UNCHANGED <<upc, ucur, unew, f_op>>
    BY <1>1 DEF treeVars, initVars, walkVars
  <2>2. TreeTypeOK'
    BY <2>1 DEF TreeSafe, TreeTypeOK
  <2>3. CASE tpc = "killed"
    BY <2>1, <2>2, <2>3 DEF TreeSafe
  <2>4. CASE tpc # "killed"
    <3>1. TreeInv(1) /\ Ext(1)' = Ext(1)
        BY <2>1, <2>4 DEF TreeSafe, Ext
    <3>2. Cached(dcache', Ext(1)') /\ \A e \in Dentries : Keeps(dcache, dcache', e)
        BY <2>1, <3>1, HeldFacts DEF Keeps
    <3>3. TreeInv(1)'
        BY <2>1, <3>1, <3>2, RootFrame DEF initVars, walkVars
    <3> QED
        BY <2>1, <2>2, <2>4, <3>3 DEF TreeSafe
  <2> QED
    BY <2>3, <2>4
<1>2. CASE TreeNext
  <2>1. CASE aufs_exit_kill
    BY <1>2, <2>1, StepCases, KillSafe
  <2>2. CASE InitThread \/ \E u \in Users : WalkerStep(u)
    <3>1. TreeInv(1)'
        BY <1>2, <2>2, StepCases, InitThreadInv, WalkerInv
    <3>2. (TreeTypeOK /\ tpc # "killed")'
        BY <3>1 DEF TreeInv, FrameType, Shape, TreeTypeOK
    <3> QED
        BY <3>1, <3>2 DEF TreeSafe
  <2> QED
    BY <1>2, <2>1, <2>2 DEF TreeNext
<1> QED
    BY <1>1, <1>2

\* The inductive invariant: the tree is well formed and every reference on a
\* dentry is counted, until the last unmount destroys it.
THEOREM TreeInvariant == TreeSpec => []TreeSafe
<1>1. TreeInit => TreeSafe
    BY InitInv, TreeInvTypes DEF TreeSafe
<1> QED
    BY <1>1, TreeSafeStep, PTL DEF TreeSpec

\* Everything keeps its type, in particular no d_count goes below 0, not even
\* in kill_litter_super.
THEOREM TreeTypes == TreeSpec => []TreeTypeOK
<1>1. TreeSafe => TreeTypeOK
    BY DEF TreeSafe
<1> QED
    BY <1>1, TreeInvariant, PTL

\* Only dentries in use have a parent.
LEMMA UsedChildren ==
    ASSUME NEW d \in Dentries, Shape(dcache)
    PROVE  Cardinality({c \in Used : dcache[c].parent = d}) = Children(dcache, d)
<1>1. ASSUME NEW c \in Dentries, dcache[c].parent = d PROVE c \in Used
    BY <1>1, ConstantFacts DEF Used, Shape, FreeDentry
<1>2. {c \in Used : dcache[c].parent = d} = {c \in Dentries : dcache[c].parent = d}
    BY <1>1 DEF Used
<1> QED
    BY <1>2 DEF Children

\* d_count of a dentry in use, in the terms of the properties.
LEMMA CountOfUsed ==
    ASSUME NEW m \in Nat, NEW d \in Used, TreeInv(m)
    PROVE  dcache[d].count =
                  Cardinality({c \in Used : dcache[c].parent = d})
                + Cardinality({u \in Users : ucur[u] = d})
                + Cardinality({u \in Users : unew[u] = d})
                + Cardinality({i \in Steps : found[i] = d})
                + (CASE d = Root -> 1 + m
                     [] d # Root /\ dcache[d].inode # "none" -> 1
                     [] OTHER -> 0)
<1>1. d \in Dentries /\ dcache[d].state # "free" /\ Shape(dcache)
    BY DEF Used, TreeInv
<1>2. dcache[d].count = Children(dcache, d) + Ext(m)[d] + Pins(dcache, d)
    BY <1>1, HeldFacts DEF Cached, Counted
<1>3. Ext(m)[d] = Refs(Users, ucur, d) + Refs(Users, unew, d) + Refs(Steps, found, d)
                    + (IF d = Root THEN 1 + m ELSE 0)
    BY <1>1 DEF Ext, External, Held
<1>4. /\ Refs(Users, ucur, d) \in Nat /\ Refs(Users, unew, d) \in Nat
      /\ Refs(Steps, found, d) \in Nat /\ Children(dcache, d) \in Nat
    BY ConstantFacts, RefsType, ChildrenType
<1>5. /\ Refs(Users, ucur, d) = Cardinality({u \in Users : ucur[u] = d})
      /\ Refs(Users, unew, d) = Cardinality({u \in Users : unew[u] = d})
      /\ Refs(Steps, found, d) = Cardinality({i \in Steps : found[i] = d})
      /\ Children(dcache, d) = Cardinality({c \in Used : dcache[c].parent = d})
    BY <1>1, UsedChildren DEF Refs
<1> DEFINE k == CASE d = Root -> 1 + m
                  [] d # Root /\ dcache[d].inode # "none" -> 1
                  [] OTHER -> 0
           r == Refs(Users, ucur, d) + Refs(Users, unew, d) + Refs(Steps, found, d)
<1>6. k = (IF d = Root THEN 1 + m ELSE 0) + Pins(dcache, d)
    BY DEF Pins
<1>7. Pins(dcache, d) \in Nat /\ (IF d = Root THEN 1 + m ELSE 0) \in Nat
    BY DEF Pins
<1> HIDE DEF k
<1>8. dcache[d].count = Children(dcache, d) + Refs(Users, ucur, d) + Refs(Users, unew, d)
                            + Refs(Steps, found, d) + k
    BY <1>2, <1>3, <1>4, <1>6, <1>7
<1>9. dcache[d].count =
                  Cardinality({c \in Used : dcache[c].parent = d})
                + Cardinality({u \in Users : ucur[u] = d})
                + Cardinality({u \in Users : unew[u] = d})
                + Cardinality({i \in Steps : found[i] = d}) + k
    BY <1>5, <1>8
<1> QED
    BY <1>9 DEF k

\* d_count is the number of references there are, whatever lookups of users and
\* of aufs_init cross each other and whatever calls fail (dentry.h, node.h).
THEOREM CountsAreExact == TreeSpec => []RefsAccounted
<1>1. TreeSafe => RefsAccounted
  <2>1. SUFFICES ASSUME TreeInv(1), NEW d \in Used
                 PROVE  dcache[d].count =
                              Cardinality({c \in Used : dcache[c].parent = d})
                            + Cardinality({u \in Users : ucur[u] = d})
                            + Cardinality({u \in Users : unew[u] = d})
                            + Cardinality({i \in Steps : found[i] = d})
                            + (CASE d = Root -> 2
                                 [] d # Root /\ dcache[d].inode # "none" -> 1
                                 [] OTHER -> 0)
    BY DEF TreeSafe, RefsAccounted
  <2>2. 1 \in Nat /\ 1 + 1 = 2
    OBVIOUS
  <2>3. dcache[d].count =
              Cardinality({c \in Used : dcache[c].parent = d})
            + Cardinality({u \in Users : ucur[u] = d})
            + Cardinality({u \in Users : unew[u] = d})
            + Cardinality({i \in Steps : found[i] = d})
            + (CASE d = Root -> 1 + 1
                 [] d # Root /\ dcache[d].inode # "none" -> 1
                 [] OTHER -> 0)
    BY <2>1, <2>2, CountOfUsed
  <2> QED
    BY <2>2, <2>3
<1> QED
    BY <1>1, TreeInvariant, PTL

\* What is held, in the terms of the properties.
LEMMA HeldAreUsed ==
    ASSUME NEW m \in Nat, TreeInv(m)
    PROVE  /\ \A u \in Users : {ucur[u], unew[u]} \subseteq Used \cup {Null}
           /\ \A i \in Steps : {found[i], created[i]} \subseteq Used \cup {Null}
           /\ pslot \in Used \cup {Null}
           /\ \A d \in Used \ {Root} :
                dcache[d].parent \in Used /\ dcache[dcache[d].parent].inode = "dir"
<1>1. \A u \in Users : {ucur[u], unew[u]} \subseteq Used \cup {Null}
    BY HeldFacts DEF TreeInv, FrameType, Used
<1>2. \A i \in Steps : found[i] \in Used \cup {Null}
    BY HeldFacts DEF TreeInv, FrameType, Used
<1>3. \A i \in Steps : created[i] \in Used \cup {Null}
    BY <1>2 DEF TreeInv, CreatedInv
<1>4. pslot \in Used \cup {Null}
  <2>1. SUFFICES ASSUME pslot # Null PROVE pslot \in Used
    OBVIOUS
  <2>2. \E j \in LastDir(step - 1) : created[j] = pslot
    BY <2>1 DEF TreeInv, SlotInv
  <2>3. LastDir(step - 1) \subseteq Steps
    <3>1. step - 1 \in Nat /\ step - 1 <= Len(Script) /\ Len(Script) \in Nat
        BY ConstantFacts DEF TreeInv, FrameType
    <3> QED
        BY <3>1 DEF LastDir, Steps
  <2> QED
    BY <1>3, <2>1, <2>2, <2>3
<1>5. ASSUME NEW d \in Used \ {Root}
      PROVE  dcache[d].parent \in Used /\ dcache[dcache[d].parent].inode = "dir"
    BY DEF TreeInv, Shape, Used, FreeDentry
<1> QED
    BY <1>1, <1>2, <1>3, <1>4, <1>5

\* Nobody holds a dentry that has been freed: not aufs_init between its lookup
\* and aufs_mknod or through pslot, nor a process, nor a child.
THEOREM NoDangling == TreeSpec => []NoDanglingDentry
<1>1. TreeSafe => NoDanglingDentry
    BY HeldAreUsed DEF TreeSafe, NoDanglingDentry
<1> QED
    BY <1>1, TreeInvariant, PTL

-----------------------------------------------------------------------------
(***************************************************************************)
(* Theorems: what exists stays, in its place and with its links.           *)
(***************************************************************************)

\* Entries with an inode stay as they are, but for the count.
PositiveStays(dc, dc2) ==
    \A e \in Dentries : dc[e].inode # "none" \/ dc2[e].inode # "none" => Keeps(dc, dc2, e)

LEMMA FrameKeeps ==
    ASSUME NEW dc, NEW dc2, NEW ext2, NEW x, NEW a,
           Shape(dc), x # Root, Frame(dc, dc2, ext2, x, a)
    PROVE  PositiveStays(dc, dc2)
<1>1. SUFFICES ASSUME NEW e \in Dentries, dc[e].inode # "none" \/ dc2[e].inode # "none"
               PROVE  Keeps(dc, dc2, e)
    BY DEF PositiveStays
<1>2. Stays(dc, dc2, x, e)
    BY <1>1 DEF Frame
<1>3. dc[e].inode # "none"
    BY <1>1, <1>2 DEF Stays
<1>4. ~(e = x /\ dc[e].state = "new")
    BY <1>3 DEF Shape
<1> QED
    BY <1>2, <1>4 DEF Stays, Keeps

\* Steps that give no dentry an inode, operations or links.
LEMMA QuietInit ==
    ASSUME NEW m \in Nat, TreeInv(m), InitThread
    PROVE  \/ aufs_mknod
           \/ aufs_create_file_finish
           \/ /\ PositiveStays(dcache, dcache') /\ tpc # "finish" /\ tpc' # "finish"
              /\ \/ UNCHANGED created
                 \/ tpc = "mknod" /\ created' = [created EXCEPT ![step] = Null]
<1>1. Shape(dcache) /\ Null # Root
    BY ConstantFacts DEF TreeInv
<1>2. CASE lookup_one_len_hit
  <2>1. PositiveStays(dcache, dcache')
    BY <1>1, <1>2, LookupOneHitInv, FrameKeeps
  <2> QED
    BY <1>2, <2>1 DEF lookup_one_len_hit
<1>3. CASE lookup_one_len_miss
  <2>1. PositiveStays(dcache, dcache')
    BY <1>1, <1>3, LookupOneMissInv, FrameKeeps
  <2> QED
    BY <1>3, <2>1 DEF lookup_one_len_miss
<1>4. CASE lookup_one_len_add
  <2>1. lk # Root
    BY <1>4, CallFacts DEF lookup_one_len_add, InCall
  <2>2. PositiveStays(dcache, dcache')
    BY <1>1, <1>4, <2>1, LookupOneAddInv, FrameKeeps
  <2> QED
    BY <1>4, <2>2 DEF lookup_one_len_add
<1>5. CASE d_alloc_parallel_join
  <2>1. PositiveStays(dcache, dcache')
    BY <1>1, <1>5, LookupJoinInv, FrameKeeps
  <2> QED
    BY <1>5, <2>1 DEF d_alloc_parallel_join
<1>6. CASE d_wait_lookup
    BY <1>6 DEF d_wait_lookup, PositiveStays, Keeps
<1>7. CASE aufs_mknod_fail
    BY <1>7 DEF aufs_mknod_fail, Return, PositiveStays, Keeps
<1> QED
    BY <1>2, <1>3, <1>4, <1>5, <1>6, <1>7 DEF InitThread

LEMMA QuietWalker ==
    ASSUME NEW m \in Nat, NEW u \in Users, TreeInv(m), WalkerStep(u)
    PROVE  PositiveStays(dcache, dcache') /\ UNCHANGED initVars
<1>1. Shape(dcache) /\ Null # Root /\ WalkInv(u)
    BY ConstantFacts DEF TreeInv
<1>2. CASE WalkStart(u)
    BY <1>1, <1>2, WalkStartInv, FrameKeeps DEF WalkStart
<1>3. ASSUME NEW n \in Names, LookupHit(u, n)
      PROVE  PositiveStays(dcache, dcache') /\ UNCHANGED initVars
    BY <1>1, <1>3, LookupHitInv, FrameKeeps DEF LookupHit
<1>4. ASSUME NEW n \in Names, LookupMiss(u, n)
      PROVE  PositiveStays(dcache, dcache') /\ UNCHANGED initVars
    BY <1>1, <1>4, LookupMissInv, FrameKeeps DEF LookupMiss
<1>5. CASE LookupAdd(u)
  <2>1. unew[u] # Root
    BY <1>1, <1>5 DEF LookupAdd, WalkInv
  <2> QED
    BY <1>1, <1>5, <2>1, LookupAddInv, FrameKeeps DEF LookupAdd
<1>6. CASE OpenFile(u)
    BY <1>1, <1>6, OpenFileInv, FrameKeeps DEF OpenFile
<1>7. CASE Release(u)
    BY <1>1, <1>7, ReleaseInv, FrameKeeps DEF Release
<1> QED
    BY <1>2, <1>3, <1>4, <1>5, <1>6, <1>7 DEF WalkerStep

\* No step but the last unmount touches what exists.
LEMMA ExistingStays ==
    ASSUME NEW m \in Nat, TreeInv(m), InitThread \/ \E u \in Users : WalkerStep(u)
    PROVE  \A d \in Dentries : dcache[d].inode # "none" => Fixed(dcache, dcache', d)
<1>1. CASE \E u \in Users : WalkerStep(u)
    BY <1>1, QuietWalker DEF PositiveStays, Keeps, Fixed
<1>2. CASE aufs_mknod
    BY <1>2, MknodFacts DEF Fixed
<1>3. CASE aufs_create_file_finish
    BY <1>3, FinishFacts
<1>4. CASE PositiveStays(dcache, dcache')
    BY <1>4 DEF PositiveStays, Keeps, Fixed
<1> QED
    BY <1>1, <1>2, <1>3, <1>4, QuietInit

\* Until the super block is killed no step frees, renames, moves or replaces an
\* entry that has got its inode, whoever drops which reference.
THEOREM CreatedNeverGoes == TreeSpec => CreatedStays
<1>1. TreeSafe /\ [TreeNext]_treeVars =>
        [tpc' # "killed" =>
            \A d \in Used :
                dcache[d].inode # "none" =>
                    /\ dcache'[d].state = dcache[d].state
                    /\ dcache'[d].name = dcache[d].name
                    /\ dcache'[d].parent = dcache[d].parent
                    /\ dcache'[d].inode = dcache[d].inode]_treeVars
  <2>1. SUFFICES ASSUME TreeSafe, TreeNext, tpc' # "killed", NEW d \in Used,
                        dcache[d].inode # "none"
                 PROVE  Fixed(dcache, dcache', d)
    BY DEF Fixed
  <2>2. d \in Dentries
    BY DEF Used
  <2>3. InitThread \/ \E u \in Users : WalkerStep(u)
    BY <2>1, StepCases DEF aufs_exit_kill
  <2> QED
    BY <2>1, <2>2, <2>3, StepCases, ExistingStays
<1> QED
    BY <1>1, TreeInvariant, PTL DEF TreeSpec, CreatedStays

\* A directory a call may have used was created by it or by an earlier one.
LEMMA LastDirBound ==
    ASSUME NEW i \in Steps, NEW j \in LastDir(i)
    PROVE  j \in Steps /\ j <= i
<1>1. i \in Nat /\ Len(Script) \in Nat /\ i <= Len(Script) /\ j \in 1..i
    BY ConstantFacts DEF Steps, LastDir
<1> QED
    BY <1>1 DEF Steps

\* Where the result of call i is.
Placed(i) ==
    created[i] # Null =>
        \/ /\ dcache[created[i]].parent = Root
           /\ \/ Script[i].kind = "dir"
              \/ \A j \in LastDir(i) : created[j] = Null
        \/ /\ Script[i].kind # "dir"
           /\ \E j \in LastDir(i) :
                created[j] # Null /\ dcache[created[i]].parent = created[j]

\* The results of calls that have returned stay where they are.
LEMMA PlacedStays ==
    ASSUME NEW m \in Nat, NEW i \in Steps, TreeInv(m), Placed(i),
           InitThread \/ \E u \in Users : WalkerStep(u),
           \A j \in Steps : j <= i => created'[j] = created[j]
    PROVE  Placed(i)'
<1>1. i \in Nat /\ created'[i] = created[i]
    BY ConstantFacts DEF Steps
<1>2. \A j \in LastDir(i) : created'[j] = created[j]
    BY LastDirBound
<1>3. ASSUME created[i] # Null
      PROVE  dcache'[created[i]].parent = dcache[created[i]].parent
  <2>1. created[i] \in Dentries
    BY <1>3 DEF TreeInv, FrameType
  <2>2. dcache[created[i]].inode # "none"
    BY <1>3, ConstantFacts DEF TreeInv, CreatedInv
  <2> QED
    BY <2>1, <2>2, ExistingStays DEF Fixed
<1> QED
    BY <1>1, <1>2, <1>3 DEF Placed

LEMMA PlacedStep ==
    ASSUME NEW m \in Nat, NEW i \in Steps, TreeInv(m), Placed(i),
           InitThread \/ \E u \in Users : WalkerStep(u)
    PROVE  Placed(i)'
<1>1. CASE \A j \in Steps : created'[j] = created[j]
    BY <1>1, PlacedStays
<1>2. ASSUME NEW d \in Dentries \cup {Null}, tpc \in {"mknod", "finish"},
             created' = [created EXCEPT ![step] = d], i # step
      PROVE  Placed(i)'
  <2>1. step \in Steps
    BY <1>2, CallFacts
  <2>2. \A j \in Steps : j # step => created'[j] = created[j]
    BY <1>2, <2>1 DEF TreeInv, FrameType
  <2>3. CASE created[i] = Null
    BY <1>2, <2>2, <2>3 DEF Placed
  <2>4. CASE created[i] # Null
    <3>1. i < step
        BY <2>4 DEF TreeInv, CreatedInv
    <3>2. \A j \in Steps : j <= i => j # step
        BY <2>1, <3>1, ConstantFacts DEF Steps
    <3> QED
        BY <2>2, <3>2, PlacedStays
  <2> QED
    BY <2>3, <2>4
<1>3. ASSUME tpc = "mknod", created' = [created EXCEPT ![step] = Null] PROVE Placed(i)'
  <2>1. CASE i = step
    <3>1. created'[i] = Null
        BY <1>3, <2>1 DEF TreeInv, FrameType
    <3> QED
        BY <3>1 DEF Placed
  <2> QED
    BY <1>2, <1>3, <2>1
<1>4. CASE aufs_create_file_finish
  <2>1. /\ step \in Steps /\ lk \in Dentries /\ dcache[lk].parent = Parent
        /\ Fixed(dcache, dcache', lk) /\ step \in Nat /\ tpc = "finish"
    <3>1. /\ step \in Steps /\ lk \in Dentries /\ dcache[lk].parent = Parent
          /\ Fixed(dcache, dcache', lk)
        BY <1>4, FinishFacts
    <3>2. step \in Nat
        BY <3>1, ConstantFacts DEF Steps
    <3> QED
        BY <1>4, <3>1, <3>2 DEF aufs_create_file_finish
  <2>2. created' = [created EXCEPT ![step] = lk]
    BY <1>4 DEF aufs_create_file_finish, Return
  <2>3. created'[step] = lk /\ \A j \in Steps : j # step => created'[j] = created[j]
    BY <2>1, <2>2 DEF TreeInv, FrameType
  <2>4. CASE i = step
    <3>1. dcache'[created'[i]].parent = Parent /\ Call = Script[i]
        BY <2>1, <2>3, <2>4 DEF Fixed, Call
    <3>2. CASE Call.kind = "dir"
      <4>1. dcache'[created'[i]].parent = Root /\ Script[i].kind = "dir"
        BY <3>1, <3>2 DEF Parent
      <4> QED
        BY <4>1 DEF Placed
    <3>3. CASE Call.kind # "dir"
      <4>1. LastDir(i) = LastDir(step - 1)
        BY <2>4, <3>1, <3>3, LastDirStep
      <4>2. \A j \in LastDir(step - 1) : j \in Steps /\ j # step
        <5>1. \A j \in LastDir(step - 1) : j \in Steps /\ j < step
            BY <2>1, LastDirStep
        <5> QED
            BY <2>1, <5>1
      <4>3. \A j \in LastDir(i) : created'[j] = created[j]
        BY <2>1, <2>3, <4>1, <4>2
      <4>4. CASE pslot = Null
        BY <3>1, <3>3, <4>1, <4>3, <4>4 DEF Placed, Parent, TreeInv, SlotInv
      <4>5. CASE pslot # Null
        BY <3>1, <3>3, <4>1, <4>3, <4>5 DEF Placed, Parent, TreeInv, SlotInv
      <4> QED
        BY <4>4, <4>5
    <3> QED
        BY <3>2, <3>3
  <2>5. CASE i # step
    BY <1>2, <2>1, <2>2, <2>5
  <2> QED
    BY <2>4, <2>5
<1>5. CASE aufs_mknod
    BY <1>1, <1>5 DEF aufs_mknod
<1>6. CASE \E u \in Users : WalkerStep(u)
    BY <1>1, <1>6, QuietWalker DEF initVars
<1> QED
    BY <1>1, <1>3, <1>4, <1>5, <1>6, QuietInit

\* Each result is in the folder it belongs to or in the root, and no two calls
\* have the same result: their names differ.
LEMMA InOwnFolder ==
    ASSUME NEW m \in Nat, TreeInv(m), NEW i \in Steps, NEW j \in Steps, Placed(i),
           created[i] # Null, created[j] # Null, dcache[created[i]].parent = created[j]
    PROVE  j \in LastDir(i)
<1>1. created[j] # Root
    BY DEF TreeInv, CallInv, CreatedInv
<1>2. PICK k \in LastDir(i) : created[k] # Null /\ created[k] = created[j]
    BY <1>1 DEF Placed
<1>3. k \in Steps
    BY <1>2, LastDirBound
<1>4. dcache[created[k]].name = Script[k].name /\ dcache[created[j]].name = Script[j].name
    BY <1>2, <1>3 DEF TreeInv, CreatedInv
<1>5. k = j
    BY <1>2, <1>3, <1>4, ScriptAssumption
<1> QED
    BY <1>2, <1>5

\* Whichever calls failed, no entry is in the folder of another group than its
\* own: pslot never keeps the directory of an earlier call (aufs.c:42-50).
THEOREM FilesInNoOtherFolder == TreeSpec => []InNoOtherFolder
<1> DEFINE P == tpc # "killed" => \A i \in Steps : Placed(i)
<1>1. TreeInit => P
    BY ConstantFacts DEF TreeInit, Placed
<1>2. TreeSafe /\ P /\ [TreeNext]_treeVars => P'
  <2>1. CASE UNCHANGED treeVars
    BY <2>1 DEF treeVars, initVars, Placed
  <2>2. ASSUME TreeSafe, P, TreeNext, tpc' # "killed", NEW i \in Steps
        PROVE  Placed(i)'
    <3>1. TreeInv(1) /\ Placed(i) /\ (InitThread \/ \E u \in Users : WalkerStep(u))
        BY <2>2, StepCases DEF aufs_exit_kill
    <3> QED
        BY <3>1, PlacedStep
  <2> QED
    BY <2>1, <2>2
<1>3. TreeSafe /\ P => InNoOtherFolder
  <2> SUFFICES ASSUME TreeSafe, P, tpc # "killed", NEW i \in Steps, NEW j \in Steps,
                      created[i] # Null, created[j] # Null,
                      dcache[created[i]].parent = created[j]
               PROVE  j \in LastDir(i)
    BY DEF InNoOtherFolder
  <2>1. TreeInv(1) /\ Placed(i)
    BY DEF TreeSafe
  <2> QED
    BY <2>1, InOwnFolder
<1> QED
    BY <1>1, <1>2, <1>3, TreeInvariant, PTL DEF TreeSpec

-----------------------------------------------------------------------------
(***************************************************************************)
(* Link counts.  Directories are in the root, so only its count moves.     *)
(***************************************************************************)

DirsIn(dc, p) == {c \in Dentries : dc[c].parent = p /\ dc[c].inode = "dir"}

\* The root has not yet counted the directory that has just been published.
Late == IF tpc = "finish" /\ Call.kind = "dir" THEN 1 ELSE 0

Linked ==
    /\ \A p \in Dentries \ {Root} : dcache[p].inode = "dir" => dcache[p].nlink = 2
    /\ dcache[Root].nlink + Late = RootNlink + Cardinality(DirsIn(dcache, Root))

LEMMA DirsInType ==
    ASSUME NEW dc, NEW p
    PROVE  IsFiniteSet(DirsIn(dc, p)) /\ Cardinality(DirsIn(dc, p)) \in Nat
<1>1. IsFiniteSet(DirsIn(dc, p))
    BY ConstantFacts, FS_Subset DEF DirsIn
<1> QED
    BY <1>1, FS_CardinalityType

LEMMA SameDirs ==
    ASSUME NEW dc, NEW dc2, NEW p,
           \A d \in Dentries : dc[d].inode = "dir" \/ dc2[d].inode = "dir" =>
                dc2[d].parent = dc[d].parent /\ dc2[d].inode = dc[d].inode
    PROVE  DirsIn(dc2, p) = DirsIn(dc, p)
BY DEF DirsIn

LEMMA LinkedQuiet ==
    ASSUME NEW m \in Nat, TreeInv(m), Linked, PositiveStays(dcache, dcache'), Late' = Late
    PROVE  Linked'
<1>1. \A d \in Dentries : dcache[d].inode = "dir" \/ dcache'[d].inode = "dir" =>
            /\ dcache'[d].parent = dcache[d].parent
            /\ dcache'[d].inode = dcache[d].inode
            /\ dcache'[d].nlink = dcache[d].nlink
    BY DEF PositiveStays, Keeps
<1>2. DirsIn(dcache', Root) = DirsIn(dcache, Root)
    BY <1>1, SameDirs
<1>3. dcache'[Root].nlink = dcache[Root].nlink
    BY <1>1, ConstantFacts DEF TreeInv, Shape
<1>4. \A p \in Dentries \ {Root} : dcache'[p].inode = "dir" => dcache'[p].nlink = 2
    BY <1>1 DEF Linked
<1> QED
    BY <1>2, <1>3, <1>4 DEF Linked

LEMMA LinkedMknod ==
    ASSUME NEW m \in Nat, TreeInv(m), Linked, aufs_mknod
    PROVE  Linked'
<1>1. /\ lk \in Dentries /\ lk # Root /\ dcache[lk].inode = "none"
      /\ \A e \in Dentries \ {lk} : dcache'[e] = dcache[e]
      /\ dcache'[lk].parent = dcache[lk].parent
      /\ dcache'[lk].inode = Call.kind
      /\ dcache'[lk].nlink = IF Call.kind = "dir" THEN 2 ELSE 1
      /\ Call.kind \in {"dir", "reg"}
    BY MknodFacts
<1>2. tpc = "mknod" /\ tpc' = "finish" /\ Call' = Call
    BY DEF aufs_mknod, Call
<1>3. \A p \in Dentries \ {Root} : dcache'[p].inode = "dir" => dcache'[p].nlink = 2
    BY <1>1 DEF Linked
<1>4. dcache'[Root].nlink = dcache[Root].nlink /\ dcache[Root].nlink \in Nat
    BY <1>1, ConstantFacts DEF TreeInv, Shape, Dentry
<1>5. /\ IsFiniteSet(DirsIn(dcache, Root)) /\ Cardinality(DirsIn(dcache, Root)) \in Nat
      /\ dcache[Root].nlink = RootNlink + Cardinality(DirsIn(dcache, Root))
  <2>1. Late = 0
    BY <1>2 DEF Late
  <2> QED
    BY <1>4, <2>1, DirsInType DEF Linked
<1>6. CASE Call.kind = "dir"
  <2>1. dcache[lk].parent = Root
    BY <1>2, <1>6 DEF TreeInv, CallInv, InCall, Parent
  <2>2. DirsIn(dcache', Root) = DirsIn(dcache, Root) \cup {lk}
    BY <1>1, <1>6, <2>1 DEF DirsIn
  <2>3. lk \notin DirsIn(dcache, Root)
    BY <1>1 DEF DirsIn
  <2>4. Cardinality(DirsIn(dcache', Root)) = Cardinality(DirsIn(dcache, Root)) + 1
    BY <1>5, <2>2, <2>3, FS_AddElement
  <2>5. Late' = 1
    BY <1>2, <1>6 DEF Late
  <2> QED
    BY <1>3, <1>4, <1>5, <2>4, <2>5 DEF Linked, RootNlink
<1>7. CASE Call.kind = "reg"
  <2>1. DirsIn(dcache', Root) = DirsIn(dcache, Root)
    BY <1>1, <1>7, SameDirs
  <2>2. Late' = 0
    BY <1>2, <1>7 DEF Late
  <2> QED
    BY <1>3, <1>4, <1>5, <2>1, <2>2 DEF Linked, RootNlink
<1> QED
    BY <1>1, <1>6, <1>7

LEMMA LinkedFinish ==
    ASSUME NEW m \in Nat, TreeInv(m), Linked, aufs_create_file_finish
    PROVE  Linked'
<1>1. /\ Call.kind \in {"dir", "reg"}
      /\ \A e \in Dentries :
            /\ dcache'[e].parent = dcache[e].parent
            /\ dcache'[e].inode = dcache[e].inode
            /\ dcache'[e].nlink = dcache[e].nlink
                    + (IF Call.kind = "dir" /\ e = Root THEN 1 ELSE 0)
    BY FinishFacts DEF Fixed
<1>2. tpc = "finish" /\ tpc' # "finish"
    BY DEF aufs_create_file_finish, Return
<1>3. \A e \in Dentries : dcache[e].nlink \in Nat
    BY DEF TreeInv, Shape, Dentry
<1>4. \A p \in Dentries \ {Root} : dcache'[p].inode = "dir" => dcache'[p].nlink = 2
    BY <1>1, <1>3 DEF Linked
<1>5. DirsIn(dcache', Root) = DirsIn(dcache, Root)
    BY <1>1, SameDirs
<1>6. dcache'[Root].nlink = dcache[Root].nlink + Late /\ Late' = 0 /\ dcache'[Root].nlink \in Nat
    BY <1>1, <1>2, <1>3, ConstantFacts DEF Late
<1> QED
    BY <1>4, <1>5, <1>6 DEF Linked

LEMMA LinkedStep ==
    ASSUME NEW m \in Nat, TreeInv(m), Linked, InitThread \/ \E u \in Users : WalkerStep(u)
    PROVE  Linked'
<1>1. CASE \E u \in Users : WalkerStep(u)
  <2>1. PositiveStays(dcache, dcache') /\ UNCHANGED initVars
    BY <1>1, QuietWalker
  <2>2. Late' = Late
    BY <2>1 DEF Late, Call, initVars
  <2> QED
    BY <2>1, <2>2, LinkedQuiet
<1>2. CASE PositiveStays(dcache, dcache') /\ tpc # "finish" /\ tpc' # "finish"
    BY <1>2, LinkedQuiet DEF Late
<1> QED
    BY <1>1, <1>2, QuietInit, LinkedMknod, LinkedFinish

LEMMA LinkedInit ==
    TreeInit => Linked
<1> SUFFICES ASSUME TreeInit PROVE Linked
    OBVIOUS
<1>1. \A d \in Dentries : dcache[d] = IF d = Root
        THEN [state |-> "new", name |-> NoName, parent |-> Null, count |-> 2,
              inode |-> "dir", i_fop |-> "dir", nlink |-> RootNlink]
        ELSE FreeDentry
    BY DEF TreeInit, simple_fill_super
<1>2. Null # Root /\ Root \in Dentries
    BY ConstantFacts
<1>3. DirsIn(dcache, Root) = {}
    BY <1>1, <1>2 DEF DirsIn, FreeDentry
<1>4. Late = 0
    BY DEF Late, TreeInit
<1> QED
    BY <1>1, <1>2, <1>3, <1>4, FS_EmptySet DEF Linked, FreeDentry, RootNlink

LEMMA LinksCounted ==
    ASSUME NEW m \in Nat, TreeInv(m), Linked
    PROVE  NlinkCounts
<1>1. ASSUME NEW p \in Used, dcache[p].inode = "dir"
      PROVE  LET late == {c \in Subdirs(p) : tpc = "finish" /\ c = lk}
             IN  dcache[p].nlink + Cardinality(late)
                    = (IF p = Root THEN RootNlink ELSE 2) + Cardinality(Subdirs(p))
  <2> DEFINE late == {c \in Subdirs(p) : tpc = "finish" /\ c = lk}
  <2>1. Subdirs(p) = DirsIn(dcache, p)
    BY DEF Subdirs, DirsIn, Used, TreeInv, Shape, FreeDentry
  <2>2. CASE p = Root
    <3>1. Cardinality(late) = Late
      <4>1. CASE tpc = "finish" /\ Call.kind = "dir"
        <5>1. lk \in Dentries /\ dcache[lk].parent = Root /\ dcache[lk].inode = "dir"
            BY <4>1 DEF TreeInv, CallInv, InCall, Parent
        <5>2. late = {lk}
            BY <2>1, <2>2, <4>1, <5>1 DEF DirsIn
        <5> QED
            BY <4>1, <5>2, FS_Singleton DEF Late
      <4>2. CASE ~(tpc = "finish" /\ Call.kind = "dir")
        <5>1. late = {}
            BY <2>1, <4>2 DEF DirsIn, TreeInv, CallInv
        <5> QED
            BY <4>2, <5>1, FS_EmptySet DEF Late
      <4> QED
        BY <4>1, <4>2
    <3> QED
        BY <2>1, <2>2, <3>1 DEF Linked
  <2>3. CASE p # Root
    <3>1. p \in Dentries /\ dcache[p].nlink = 2
        BY <1>1, <2>3 DEF Linked, Used
    <3>2. DirsIn(dcache, p) = {}
        BY <2>3, <3>1, ConstantFacts DEF DirsIn, TreeInv, Shape, FreeDentry
    <3>3. late = {}
        BY <2>1, <3>2
    <3> QED
        BY <2>1, <2>3, <3>1, <3>2, <3>3, FS_EmptySet
  <2> QED
    BY <2>2, <2>3
<1> QED
    BY <1>1 DEF NlinkCounts

\* Link counts are right on every path of aufs_mkdir, or one behind while
\* aufs_mknod has published the child and the parent has not counted it yet
\* (node.h:67-69).
THEOREM LinksAreRight == TreeSpec => []NlinkCounts
<1> DEFINE P == tpc # "killed" => Linked
<1>1. TreeInit => P
    BY LinkedInit
<1>2. TreeSafe /\ P /\ [TreeNext]_treeVars => P'
  <2>1. CASE UNCHANGED treeVars
    <3>1. tpc' = tpc /\ dcache' = dcache /\ Late' = Late
        BY <2>1 DEF treeVars, initVars, Late, Call
    <3> QED
        BY <3>1 DEF Linked
  <2>2. ASSUME TreeSafe, P, TreeNext, tpc' # "killed" PROVE Linked'
    BY <2>2, StepCases, LinkedStep DEF aufs_exit_kill
  <2> QED
    BY <2>1, <2>2
<1>3. TreeSafe /\ P => NlinkCounts
  <2>1. CASE tpc = "killed"
    BY <2>1 DEF NlinkCounts
  <2>2. ASSUME TreeSafe, P, tpc # "killed" PROVE NlinkCounts
    BY <2>2, LinksCounted DEF TreeSafe
  <2> QED
    BY <2>1, <2>2
<1> QED
    BY <1>1, <1>2, <1>3, TreeInvariant, PTL DEF TreeSpec

-----------------------------------------------------------------------------
(***************************************************************************)
(* Where lookups of a name are serialised, a name is in the cache once.    *)
(* The ones under way have to be counted in: they will be hashed.          *)
(***************************************************************************)

SameName(dc, d, e) == dc[d].parent = dc[e].parent /\ dc[d].name = dc[e].name

Unique(dc) ==
    \A d, e \in Dentries \ {Root} :
        dc[d].state # "free" /\ dc[e].state # "free" /\ SameName(dc, d, e) => d = e

\* Every dentry in use but a was in use, where it is and with its name.
NoneButNew(dc, dc2, a) ==
    \A e \in Dentries :
        dc2[e].state # "free" /\ e # a =>
            /\ dc[e].state # "free"
            /\ dc2[e].name = dc[e].name
            /\ dc2[e].parent = dc[e].parent

LEMMA FrameNames ==
    ASSUME NEW dc, NEW dc2, NEW ext2, NEW x, NEW a, Frame(dc, dc2, ext2, x, a)
    PROVE  NoneButNew(dc, dc2, a)
BY DEF Frame, NoneButNew

LEMMA UniqueKept ==
    ASSUME NEW dc, NEW dc2, Unique(dc), NoneButNew(dc, dc2, Null)
    PROVE  Unique(dc2)
<1>1. \A e \in Dentries : dc2[e].state # "free" =>
            /\ dc[e].state # "free"
            /\ dc2[e].name = dc[e].name
            /\ dc2[e].parent = dc[e].parent
    BY ConstantFacts DEF NoneButNew
<1> QED
    BY <1>1 DEF Unique, SameName

\* A dentry is allocated for a name that nobody has added or is adding.
LEMMA UniqueAlloc ==
    ASSUME NEW dc \in [Dentries -> Dentry], NEW p \in Dentries, NEW n \in Names, NEW dc2,
           Unique(dc), Room(dc), dc[p].state # "free",
           d_lookup(dc, p, n) = {}, InLookup(dc, p, n) = {},
           dc2 = d_alloc(dc, Fresh(dc), p, n), NoneButNew(dc, dc2, Fresh(dc))
    PROVE  Unique(dc2)
<1> DEFINE a == Fresh(dc)
<1>1. a \in Dentries /\ dc[a].state = "free"
    BY FreshFacts
<1>2. dc2 = d_alloc(dc, a, p, n) /\ p # a
    BY <1>1
<1> HIDE DEF a
<1>3. dc2[a].parent = p /\ dc2[a].name = n
  <2>1. dc2[a] = NewDentry(p, n)
    BY <1>1, <1>2, DallocEffect
  <2> QED
    BY <2>1 DEF NewDentry
<1>4. \A e \in Dentries : dc[e].state # "free" => ~(dc[e].parent = p /\ dc[e].name = n)
  <2>1. \A e \in Dentries : dc[e].state \in {"free", "new", "hashed"}
    BY DEF Dentry
  <2> QED
    BY <2>1 DEF d_lookup, InLookup
<1>5. \A e \in Dentries \ {a} : dc2[e].state # "free" =>
            /\ dc[e].state # "free"
            /\ dc2[e].name = dc[e].name
            /\ dc2[e].parent = dc[e].parent
    BY DEF NoneButNew, a
<1>6. \A e \in Dentries \ {a} : dc2[e].state # "free" => ~SameName(dc2, a, e) /\ ~SameName(dc2, e, a)
    BY <1>3, <1>4, <1>5 DEF SameName
<1>7. \A d, e \in Dentries \ {a, Root} :
        dc2[d].state # "free" /\ dc2[e].state # "free" /\ SameName(dc2, d, e) => d = e
    BY <1>5 DEF Unique, SameName
<1> QED
    BY <1>6, <1>7 DEF Unique

LEMMA UniqueInit ==
    ASSUME NEW m \in Nat, SerialisedLookup, TreeInv(m), Unique(dcache), InitThread
    PROVE  Unique(dcache')
<1>1. CASE lookup_one_len_hit
    BY <1>1, LookupOneHitInv, FrameNames, UniqueKept
<1>2. CASE lookup_one_len_miss
  <2>1. CASE UNCHANGED dcache
    BY <2>1
  <2>2. CASE /\ InLookup(dcache, Parent, Call.name) = {}
             /\ Room(dcache) /\ dcache' = d_alloc(dcache, Fresh(dcache), Parent, Call.name)
    <3>1. d_lookup(dcache, Parent, Call.name) = {} /\ tpc = "lookup"
        BY <1>2 DEF lookup_one_len_miss
    <3>2. /\ Parent \in Dentries /\ Call.name \in Names /\ dcache \in [Dentries -> Dentry]
          /\ dcache[Parent].state # "free"
        BY <3>1, ParentFacts, CallFacts DEF TreeInv, Shape, FreeDentry
    <3>3. NoneButNew(dcache, dcache', Fresh(dcache))
        BY <1>2, LookupOneMissInv, FrameNames
    <3> QED
        BY <2>2, <3>1, <3>2, <3>3, UniqueAlloc
  <2> QED
    BY <1>2, <2>1, <2>2 DEF lookup_one_len_miss
<1>3. CASE lookup_one_len_add
    BY <1>3, LookupOneAddInv, FrameNames, UniqueKept
<1>4. CASE d_alloc_parallel_join
    BY <1>4, LookupJoinInv, FrameNames, UniqueKept
<1>5. CASE d_wait_lookup \/ aufs_mknod_fail
    BY <1>5 DEF d_wait_lookup, aufs_mknod_fail
<1>6. CASE aufs_mknod
  <2>1. NoneButNew(dcache, dcache', Null)
    BY <1>6, MknodFacts DEF NoneButNew
  <2> QED
    BY <2>1, UniqueKept
<1>7. CASE aufs_create_file_finish
  <2>1. NoneButNew(dcache, dcache', Null)
    BY <1>7, FinishFacts DEF NoneButNew, Fixed
  <2> QED
    BY <2>1, UniqueKept
<1> QED
    BY <1>1, <1>2, <1>3, <1>4, <1>5, <1>6, <1>7 DEF InitThread

LEMMA UniqueWalker ==
    ASSUME NEW m \in Nat, NEW u \in Users, SerialisedLookup, TreeInv(m), Unique(dcache),
           WalkerStep(u)
    PROVE  Unique(dcache')
<1>1. CASE WalkStart(u)
    BY <1>1, WalkStartInv, FrameNames, UniqueKept
<1>2. ASSUME NEW n \in Names, LookupHit(u, n) PROVE Unique(dcache')
    BY <1>2, LookupHitInv, FrameNames, UniqueKept
<1>3. ASSUME NEW n \in Names, LookupMiss(u, n) PROVE Unique(dcache')
  <2>1. /\ d_lookup(dcache, ucur[u], n) = {} /\ InLookup(dcache, ucur[u], n) = {}
        /\ Room(dcache) /\ dcache' = d_alloc(dcache, Fresh(dcache), ucur[u], n)
        /\ upc[u] = "at"
    BY <1>3 DEF LookupMiss
  <2>2. ucur[u] \in Dentries /\ dcache \in [Dentries -> Dentry]
    BY <2>1 DEF TreeInv, WalkInv, FrameType, Shape
  <2>2a. dcache[ucur[u]].state # "free"
    BY <2>2, HeldFacts
  <2>3. NoneButNew(dcache, dcache', Fresh(dcache))
    BY <1>3, LookupMissInv, FrameNames
  <2> QED
    BY <2>1, <2>2, <2>2a, <2>3, UniqueAlloc
<1>4. CASE LookupAdd(u)
    BY <1>4, LookupAddInv, FrameNames, UniqueKept
<1>5. CASE OpenFile(u)
    BY <1>5, OpenFileInv, FrameNames, UniqueKept
<1>6. CASE Release(u)
    BY <1>6, ReleaseInv, FrameNames, UniqueKept
<1> QED
    BY <1>1, <1>2, <1>3, <1>4, <1>5, <1>6 DEF WalkerStep

\* No two dentries, and the root is not found by a lookup.
NamesInv == Unique(dcache) /\ dcache[Root].state # "hashed"

LEMMA NamesInit ==
    TreeInit => NamesInv
<1> SUFFICES ASSUME TreeInit PROVE NamesInv
    OBVIOUS
<1>1. /\ dcache[Root].state = "new"
      /\ \A d \in Dentries \ {Root} : dcache[d].state = "free"
    BY ConstantFacts DEF TreeInit, simple_fill_super, FreeDentry
<1> QED
    BY <1>1 DEF NamesInv, Unique

LEMMA NamesStep ==
    ASSUME SerialisedLookup, TreeSafe, NamesInv, TreeNext
    PROVE  NamesInv'
<1>1. TreeInv(1) /\ (InitThread \/ (\E u \in Users : WalkerStep(u)) \/ aufs_exit_kill)
    BY StepCases
<1>2. CASE InitThread \/ \E u \in Users : WalkerStep(u)
  <2>1. TreeInv(1)'
    BY <1>1, <1>2, InitThreadInv, WalkerInv
  <2>2. dcache'[Root].state = "new"
    BY <2>1 DEF TreeInv, Shape
  <2>3. Unique(dcache')
    BY <1>1, <1>2, UniqueInit, UniqueWalker DEF NamesInv
  <2> QED
    BY <2>2, <2>3 DEF NamesInv
<1>3. CASE aufs_exit_kill
  <2>1. /\ \A d \in Dentries \ {Root} : Fixed(dcache, dcache', d)
        /\ dcache'[Root] = FreeDentry \/ Fixed(dcache, dcache', Root)
    BY <1>1, <1>3, KillSafe
  <2>2. Unique(dcache')
    BY <2>1 DEF NamesInv, Unique, SameName, Fixed
  <2>3. dcache'[Root].state # "hashed"
    BY <2>1 DEF NamesInv, Fixed, FreeDentry
  <2> QED
    BY <2>2, <2>3 DEF NamesInv
<1> QED
    BY <1>1, <1>2, <1>3

\* A name is in the cache once, although aufs_create_by_name does not lock the
\* parent (dentry.h:27), if the dcache serialises the lookups of a name.
THEOREM NamesAreUnique == SerialisedLookup /\ TreeSpec => []OneDentryPerName
<1>1. NamesInv => OneDentryPerName
    BY DEF NamesInv, OneDentryPerName, Unique, SameName, Used
<1>2. NamesInv /\ UNCHANGED treeVars => NamesInv'
    BY DEF NamesInv, treeVars
<1>3. SerialisedLookup /\ TreeSafe /\ NamesInv /\ [TreeNext]_treeVars => NamesInv'
    BY <1>2, NamesStep
<1>4. CASE SerialisedLookup
  <2>1. TreeSafe /\ NamesInv /\ [TreeNext]_treeVars => NamesInv'
    BY <1>3, <1>4
  <2> QED
    BY <1>1, <2>1, NamesInit, TreeInvariant, PTL DEF TreeSpec
<1> QED
    BY <1>4

-----------------------------------------------------------------------------
\* The only open that misses the operations of aufs is one between aufs_mknod
\* and the return of the call that creates the very file (file.h:39-44): no
\* other call, failed, dead or still to come, leaves a file without them.
THEOREM OpensHaveOps == TreeSpec => OpensGetAufsOps
<1> DEFINE Gets(u) == f_op'[u] = "aufs" \/ (tpc = "finish" /\ ucur[u] = lk)
<1>1. ASSUME TreeSafe, TreeNext, NEW v \in Users, upc[v] # "open", upc'[v] = "open"
      PROVE  Gets(v)
  <2>1. TreeInv(1) /\ (InitThread \/ (\E u \in Users : WalkerStep(u)) \/ aufs_exit_kill)
    BY <1>1, StepCases
  <2>2. InitThread \/ aufs_exit_kill => UNCHANGED upc
    BY DEF InitThread, lookup_one_len_hit, lookup_one_len_miss, lookup_one_len_add,
           d_alloc_parallel_join, d_wait_lookup, aufs_mknod_fail, aufs_mknod,
           aufs_create_file_finish, aufs_exit_kill, walkVars
  <2>3. PICK u \in Users : WalkerStep(u)
    BY <1>1, <2>1, <2>2
  <2>4. /\ upc \in [Users -> {"idle", "at", "adding", "open"}]
        /\ f_op \in [Users -> {"none", "default", "aufs"}]
        /\ ucur[u] \in Dentries \cup {Null}
        /\ WalkInv(u)
    BY <2>1 DEF TreeInv, FrameType
  <2>5. OpenFile(u) /\ v = u
    <3>1. CASE Release(u)
        BY <1>1, <2>4, <3>1 DEF Release
    <3>2. ASSUME NEW pc \in {"at", "adding"}, upc' = [upc EXCEPT ![u] = pc]
          PROVE  FALSE
        BY <1>1, <2>4, <3>2
    <3>3. CASE WalkStart(u) \/ LookupAdd(u) \/ \E n \in Names : LookupMiss(u, n)
        BY <3>2, <3>3 DEF WalkStart, LookupAdd, LookupMiss
    <3>4. CASE \E n \in Names : LookupHit(u, n)
        BY <1>1, <3>4 DEF LookupHit
    <3>5. CASE OpenFile(u)
        BY <1>1, <2>4, <3>5 DEF OpenFile
    <3> QED
        BY <2>3, <3>1, <3>3, <3>4, <3>5 DEF WalkerStep
  <2>6. /\ ucur[u] \in Dentries /\ dcache[ucur[u]].inode = "reg"
        /\ f_op'[u] = dcache[ucur[u]].i_fop
    BY <2>4, <2>5 DEF OpenFile, WalkInv
  <2>7. ucur[u] # Root
    BY <2>1, <2>6 DEF TreeInv, Shape
  <2>8. CASE tpc = "finish" /\ ucur[u] = lk
    BY <2>5, <2>8
  <2>9. ASSUME NEW i \in Steps, created[i] = ucur[u]
        PROVE  Gets(v)
    <3>1. /\ created[i] = found[i] /\ dcache[found[i]].inode = Script[i].kind
          /\ Script[i].kind = "reg" => dcache[found[i]].i_fop = "aufs"
        BY <2>1, <2>6, <2>9, ConstantFacts DEF TreeInv, CreatedInv
    <3> QED
        BY <2>5, <2>6, <2>9, <3>1
  <2> QED
    BY <2>1, <2>6, <2>7, <2>8, <2>9 DEF TreeInv, CreatedInv
<1>2. TreeSafe /\ [TreeNext]_treeVars =>
        [\A u \in Users : upc[u] # "open" /\ upc'[u] = "open" => Gets(u)]_treeVars
    BY <1>1
<1> QED
    BY <1>2, TreeInvariant, PTL DEF TreeSpec, OpensGetAufsOps
=============================================================================
