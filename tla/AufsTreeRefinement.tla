------------------------- MODULE AufsTreeRefinement -------------------------
(***************************************************************************)
(* AufsTree implements Directory where the kernel serialises the lookups   *)
(* of a name: negative dentries, lookups under way, references and the     *)
(* missing lock of aufs_create_by_name cannot be seen by a path walk.      *)
(***************************************************************************)
EXTENDS AufsTreeProofs

-----------------------------------------------------------------------------
(***************************************************************************)
(* Paths of a cache.                                                       *)
(***************************************************************************)

RootAt    == <<NoName, NoName>>
TreePaths == {<<NoName, NoName>>} \cup ((Names \cup {NoName}) \X Names)

Path(dc, d) ==
    IF d = Root THEN RootAt ELSE <<dc[dc[d].parent].name, dc[d].name>>

\* The entries at a path, and what a lookup finds there.
Here(dc, p) ==
    {d \in Dentries : dc[d].state # "free" /\ dc[d].inode # "none" /\ Path(dc, d) = p}
Kind(dc, p) ==
    IF Here(dc, p) = {} THEN "none" ELSE dc[CHOOSE d \in Here(dc, p) : TRUE].inode

\* The directory above a dentry: the root, or a directory in the root.
LEMMA ParentShape ==
    ASSUME NEW dc, NEW d \in Dentries \ {Root}, Shape(dc), dc[d].state # "free"
    PROVE  /\ dc[d].parent \in Dentries
           /\ dc[dc[d].parent].inode = "dir"
           /\ dc[dc[d].parent].state # "free"
           /\ dc[d].name \in Names /\ dc[d].name # NoName
           /\ dc[d].parent = Root => dc[dc[d].parent].name = NoName
           /\ dc[d].parent # Root =>
                /\ dc[dc[d].parent].name \in Names
                /\ dc[dc[d].parent].name # NoName
                /\ dc[dc[d].parent].parent = Root
<1>1. /\ dc[d].parent \in Dentries
      /\ dc[dc[d].parent].inode = "dir"
      /\ dc[d].name \in Names
    BY DEF Shape
<1>2. dc[dc[d].parent].state # "free"
    BY <1>1 DEF Shape, FreeDentry
<1>3. dc[d].parent # Root =>
        dc[dc[d].parent].name \in Names /\ dc[dc[d].parent].parent = Root
    BY <1>1, <1>2 DEF Shape
<1>4. dc[Root].name = NoName
    BY DEF Shape
<1> QED
    BY <1>1, <1>2, <1>3, <1>4, ScriptAssumption

\* Paths are paths of Directory.
LEMMA PathType ==
    ASSUME NEW dc, NEW d \in Dentries, Shape(dc), dc[d].state # "free"
    PROVE  Path(dc, d) \in TreePaths /\ (Path(dc, d) = RootAt <=> d = Root)
<1>1. CASE d = Root
    BY <1>1 DEF Path, RootAt, TreePaths
<1>2. CASE d # Root
  <2>1. /\ dc[d].name \in Names /\ dc[d].name # NoName
        /\ dc[dc[d].parent].name \in Names \cup {NoName}
    BY <1>2, ParentShape
  <2>2. Path(dc, d) = <<dc[dc[d].parent].name, dc[d].name>>
    BY <1>2 DEF Path
  <2> QED
    BY <1>2, <2>1, <2>2 DEF RootAt, TreePaths
<1> QED
    BY <1>1, <1>2

\* If names are unique, so are paths.
LEMMA PathUnique ==
    ASSUME NEW dc, NEW d \in Dentries, NEW e \in Dentries, Shape(dc), Unique(dc),
           dc[d].state # "free", dc[e].state # "free", Path(dc, d) = Path(dc, e)
    PROVE  d = e
<1>1. CASE d = Root \/ e = Root
    BY <1>1, PathType
<1>2. CASE d # Root /\ e # Root
  <2>1. dc[dc[d].parent].name = dc[dc[e].parent].name /\ dc[d].name = dc[e].name
    BY <1>2 DEF Path
  <2>2. dc[d].parent = dc[e].parent
    <3>1. CASE dc[d].parent = Root \/ dc[e].parent = Root
        BY <1>2, <2>1, <3>1, ParentShape
    <3>2. CASE dc[d].parent # Root /\ dc[e].parent # Root
      <4> DEFINE p == dc[d].parent
                 q == dc[e].parent
      <4>1. /\ p \in Dentries \ {Root} /\ q \in Dentries \ {Root}
            /\ dc[p].state # "free" /\ dc[q].state # "free"
            /\ dc[p].parent = Root /\ dc[q].parent = Root
            /\ dc[p].name = dc[q].name
        BY <1>2, <2>1, <3>2, ParentShape
      <4> HIDE DEF p, q
      <4>2. p = q
        BY <4>1 DEF Unique, SameName
      <4> QED
        BY <4>2 DEF p, q
    <3> QED
        BY <3>1, <3>2
  <2> QED
    BY <1>2, <2>1, <2>2 DEF Unique, SameName
<1> QED
    BY <1>1, <1>2

\* A lookup finds at the path of a dentry what that dentry is.
LEMMA KindOf ==
    ASSUME NEW dc, NEW d \in Dentries, Shape(dc), Unique(dc), dc[d].state # "free"
    PROVE  Kind(dc, Path(dc, d)) = dc[d].inode
<1>1. CASE dc[d].inode = "none"
  <2>1. Here(dc, Path(dc, d)) = {}
    BY <1>1, PathUnique DEF Here
  <2> QED
    BY <1>1, <2>1 DEF Kind
<1>2. CASE dc[d].inode # "none"
  <2>1. Here(dc, Path(dc, d)) = {d}
    BY <1>2, PathUnique DEF Here
  <2> QED
    BY <2>1 DEF Kind
<1> QED
    BY <1>1, <1>2

\* The same entries at a path are the same to a lookup.
LEMMA KindSame ==
    ASSUME NEW dc, NEW dc2, NEW p,
           Here(dc2, p) = Here(dc, p),
           \A e \in Here(dc, p) : dc2[e].inode = dc[e].inode
    PROVE  Kind(dc2, p) = Kind(dc, p)
BY DEF Kind

\* Neither the paths of what exists change, nor what is there.
Solid(dc, dc2) ==
    \A e \in Dentries : dc[e].inode # "none" \/ dc2[e].inode # "none" => Fixed(dc, dc2, e)

LEMMA PathSame ==
    ASSUME NEW dc, NEW dc2, NEW d \in Dentries, Shape(dc), Solid(dc, dc2),
           dc[d].state # "free", dc2[d].name = dc[d].name, dc2[d].parent = dc[d].parent
    PROVE  Path(dc2, d) = Path(dc, d)
<1>1. CASE d = Root
    BY <1>1 DEF Path
<1>2. CASE d # Root
  <2>1. dc[d].parent \in Dentries /\ dc[dc[d].parent].inode = "dir"
    BY <1>2, ParentShape
  <2>2. dc2[dc[d].parent].name = dc[dc[d].parent].name
    BY <2>1 DEF Solid, Fixed
  <2> QED
    BY <1>2, <2>2 DEF Path
<1> QED
    BY <1>1, <1>2

LEMMA SolidKinds ==
    ASSUME NEW dc, NEW dc2, NEW p, Shape(dc), Shape(dc2), Solid(dc, dc2)
    PROVE  Kind(dc2, p) = Kind(dc, p)
<1>1. \A e \in Dentries :
        dc[e].state # "free" /\ dc[e].inode # "none" => Path(dc2, e) = Path(dc, e)
    BY PathSame DEF Solid, Fixed
<1>2. \A e \in Dentries : dc[e].inode # "none" \/ dc2[e].inode # "none" =>
                            dc2[e].inode = dc[e].inode /\ dc2[e].state = dc[e].state
    BY DEF Solid, Fixed
<1>3. Here(dc2, p) = Here(dc, p)
    BY <1>1, <1>2 DEF Here
<1>4. \A e \in Here(dc, p) : dc2[e].inode = dc[e].inode
    BY <1>2 DEF Here
<1> QED
    BY <1>3, <1>4, KindSame

-----------------------------------------------------------------------------
(***************************************************************************)
(* The mapped state.                                                       *)
(***************************************************************************)

TreeMap == [p \in {<<NoName, NoName>>} \cup ((Names \cup {NoName}) \X Names) |-> EntryAt(p)]

AtOf(u)   == IF ucur[u] = Null THEN <<>> ELSE PathOf(ucur[u])
SeesOf(u) == IF ucur[u] = Null THEN "none" ELSE dcache[ucur[u]].inode

AtMap   == [u \in Users |-> IF ucur[u] = Null THEN <<>> ELSE PathOf(ucur[u])]
SeesMap == [u \in Users |-> IF ucur[u] = Null THEN "none" ELSE dcache[ucur[u]].inode]

LEMMA MapFacts ==
    /\ TreePaths = Dir!Paths /\ RootAt = Dir!RootPath
    /\ \A p \in TreePaths : TreeMap[p] = IF tpc = "killed" THEN "none" ELSE Kind(dcache, p)
    /\ DOMAIN TreeMap = TreePaths /\ TreeMap = [p \in TreePaths |-> TreeMap[p]]
    /\ \A u \in Users : AtMap[u] = AtOf(u) /\ SeesMap[u] = SeesOf(u)
    /\ DOMAIN AtMap = Users /\ DOMAIN SeesMap = Users
    /\ \A e : PathOf(e) = Path(dcache, e)
<1>1. \A e : PathOf(e) = Path(dcache, e)
    BY DEF PathOf, Path, RootAt
<1>2. TreePaths = Dir!Paths /\ RootAt = Dir!RootPath
    BY DEF TreePaths, RootAt, Dir!Paths, Dir!RootPath
<1>3. \A p : EntryAt(p) = IF tpc = "killed" THEN "none" ELSE Kind(dcache, p)
  <2>1. ASSUME NEW p
        PROVE  EntryAt(p) = IF tpc = "killed" THEN "none" ELSE Kind(dcache, p)
    <3> DEFINE H == {d \in Used : dcache[d].inode # "none" /\ PathOf(d) = p}
    <3>1. EntryAt(p) = IF H = {} \/ tpc = "killed" THEN "none"
                       ELSE dcache[CHOOSE d \in H : TRUE].inode
        BY DEF EntryAt
    <3>2. H = Here(dcache, p)
        BY <1>1 DEF Used, Here
    <3> HIDE DEF H
    <3> QED
        BY <3>1, <3>2 DEF Kind
  <2> QED
    BY <2>1
<1>4. /\ \A p \in TreePaths : TreeMap[p] = EntryAt(p)
      /\ DOMAIN TreeMap = TreePaths /\ TreeMap = [p \in TreePaths |-> TreeMap[p]]
    BY DEF TreeMap, TreePaths
<1>5. \A u \in Users : AtMap[u] = AtOf(u) /\ SeesMap[u] = SeesOf(u)
    BY DEF AtMap, SeesMap, AtOf, SeesOf
<1>6. DOMAIN AtMap = Users /\ DOMAIN SeesMap = Users
    BY DEF AtMap, SeesMap
<1> QED
    BY <1>1, <1>2, <1>3, <1>4, <1>5, <1>6

LEMMA TreeMapNext ==
    ASSUME tpc' # "killed"
    PROVE  \A p \in TreePaths : TreeMap'[p] = Kind(dcache', p)
<1>1. (\A p \in TreePaths : TreeMap[p] = IF tpc = "killed" THEN "none" ELSE Kind(dcache, p))'
    BY MapFacts, PTL
<1> QED
    BY <1>1

\* What lookups can find is the same.
LEMMA TreeMapSame ==
    ASSUME tpc # "killed", tpc' # "killed",
           Shape(dcache), Shape(dcache'), Solid(dcache, dcache')
    PROVE  TreeMap' = TreeMap
<1>1. \A p : Kind(dcache', p) = Kind(dcache, p)
    BY SolidKinds
<1>2. \A p \in TreePaths : TreeMap[p] = Kind(dcache, p)
    BY MapFacts
<1>3. \A p \in TreePaths : TreeMap'[p] = Kind(dcache', p)
    BY TreeMapNext
<1>4. (TreeMap = [p \in TreePaths |-> TreeMap[p]])'
    BY MapFacts, PTL
<1> QED
    BY <1>1, <1>2, <1>3, <1>4, MapFacts

\* A process that stays where it is finds the same there, if its dentry does
\* not become something else.
LEMMA UserSame ==
    ASSUME NEW u \in Users, ucur[u] \in Dentries \cup {Null}, ucur'[u] = ucur[u],
           Shape(dcache), Solid(dcache, dcache'),
           ucur[u] # Null =>
                /\ dcache[ucur[u]].state # "free"
                /\ dcache'[ucur[u]].name = dcache[ucur[u]].name
                /\ dcache'[ucur[u]].parent = dcache[ucur[u]].parent
    PROVE  /\ AtOf(u)' = AtOf(u)
           /\ dcache'[ucur[u]].inode = dcache[ucur[u]].inode => SeesOf(u)' = SeesOf(u)
<1>1. AtOf(u)' = AtOf(u)
  <2>1. CASE ucur[u] = Null
    BY <2>1 DEF AtOf
  <2>2. CASE ucur[u] # Null
    <3>1. Path(dcache', ucur[u]) = Path(dcache, ucur[u])
        BY <2>2, PathSame
    <3>2. (\A e : PathOf(e) = Path(dcache, e))'
        BY MapFacts, PTL
    <3> QED
        BY <2>2, <3>1, <3>2, MapFacts DEF AtOf
  <2> QED
    BY <2>1, <2>2
<1> QED
    BY <1>1 DEF SeesOf

-----------------------------------------------------------------------------
(***************************************************************************)
(* The simulation, action by action.                                       *)
(***************************************************************************)

LEMMA MapsSame ==
    ASSUME NEW S, S \subseteq Users,
           \A u \in S : AtOf(u)' = AtOf(u) /\ SeesOf(u)' = SeesOf(u)
    PROVE  /\ \A u \in S : AtMap'[u] = AtMap[u] /\ SeesMap'[u] = SeesMap[u]
           /\ S = Users => AtMap' = AtMap /\ SeesMap' = SeesMap
<1>1. \A u \in S : AtMap'[u] = AtMap[u] /\ SeesMap'[u] = SeesMap[u]
    BY DEF AtMap, SeesMap, AtOf, SeesOf
<1>2. S = Users => AtMap' = AtMap /\ SeesMap' = SeesMap
    BY DEF AtMap, SeesMap, AtOf, SeesOf
<1> QED
    BY <1>1, <1>2

\* Nobody sees a step that changes nothing where processes are.
LEMMA Unseen ==
    ASSUME TreeMap' = TreeMap, \A u \in Users : AtOf(u)' = AtOf(u) /\ SeesOf(u)' = SeesOf(u)
    PROVE  UNCHANGED Dir!vars
<1>1. AtMap' = AtMap /\ SeesMap' = SeesMap
    BY MapsSame
<1> QED
    BY <1>1 DEF Dir!vars, TreeMap, AtMap, SeesMap

\* While dentries come and go, what exists is the same, also to those who stay
\* where they are.
LEMMA FrameSeen ==
    ASSUME NEW x, NEW a, TreeInv(1), TreeInv(1)', x # Root,
           Frame(dcache, dcache', Ext(1)', x, a)
    PROVE  /\ Solid(dcache, dcache')
           /\ TreeMap' = TreeMap
           /\ \A u \in Users : ucur'[u] = ucur[u] => AtOf(u)' = AtOf(u) /\ SeesOf(u)' = SeesOf(u)
<1>1. /\ Shape(dcache) /\ Shape(dcache') /\ tpc # "killed" /\ tpc' # "killed"
      /\ \A u \in Users : ucur[u] \in Dentries \cup {Null}
    BY DEF TreeInv, FrameType
<1>2. Solid(dcache, dcache')
  <2>1. PositiveStays(dcache, dcache')
    BY <1>1, FrameKeeps
  <2> QED
    BY <2>1 DEF PositiveStays, Solid, Keeps, Fixed
<1>3. TreeMap' = TreeMap
    BY <1>1, <1>2, TreeMapSame
<1>4. ASSUME NEW u \in Users, ucur'[u] = ucur[u]
      PROVE  AtOf(u)' = AtOf(u) /\ SeesOf(u)' = SeesOf(u)
  <2>1. CASE ucur[u] = Null
    BY <1>4, <2>1 DEF AtOf, SeesOf
  <2>2. CASE ucur[u] # Null
    <3>1. ucur[u] \in Dentries /\ dcache[ucur[u]].state # "free"
        BY <1>1, <2>2, HeldFacts
    <3>2. Ext(1)'[ucur'[u]] >= 1
        BY <1>4, <3>1, ExternalFacts DEF Ext
    <3>3. Stays(dcache, dcache', x, ucur[u])
        BY <1>4, <3>1, <3>2 DEF Frame
    <3>4. /\ dcache'[ucur[u]].name = dcache[ucur[u]].name
          /\ dcache'[ucur[u]].parent = dcache[ucur[u]].parent
          /\ dcache'[ucur[u]].inode = dcache[ucur[u]].inode
        BY <3>3 DEF Stays
    <3> QED
        BY <1>1, <1>2, <1>4, <3>1, <3>4, UserSame
  <2> QED
    BY <2>1, <2>2
<1> QED
    BY <1>2, <1>3, <1>4

\* One process moves, to d or away.
LEMMA MoveSeen ==
    ASSUME NEW u \in Users, NEW d \in Dentries \cup {Null}, NEW x, NEW a,
           TreeInv(1), TreeInv(1)', x # Root,
           Frame(dcache, dcache', Ext(1)', x, a), ucur' = [ucur EXCEPT ![u] = d]
    PROVE  /\ TreeMap' = TreeMap
           /\ AtMap' = [AtMap EXCEPT ![u] = AtOf(u)']
           /\ SeesMap' = [SeesMap EXCEPT ![u] = SeesOf(u)']
           /\ ucur'[u] = d
           /\ d # Null /\ dcache[d].state # "free" =>
                /\ AtOf(u)' = Path(dcache, d)
                /\ SeesOf(u)' = dcache[d].inode
<1>1. ucur \in [Users -> Dentries \cup {Null}] /\ Shape(dcache)
    BY DEF TreeInv, FrameType
<1>2. ucur'[u] = d /\ \A v \in Users \ {u} : ucur'[v] = ucur[v]
    BY <1>1
<1>3. TreeMap' = TreeMap /\ Solid(dcache, dcache')
    BY FrameSeen
<1>4. \A v \in Users \ {u} : AtOf(v)' = AtOf(v) /\ SeesOf(v)' = SeesOf(v)
    BY <1>2, FrameSeen
<1>5. \A v \in Users \ {u} : AtMap'[v] = AtMap[v] /\ SeesMap'[v] = SeesMap[v]
    BY <1>4, MapsSame
<1>6. AtMap'[u] = AtOf(u)' /\ SeesMap'[u] = SeesOf(u)'
    BY DEF AtMap, SeesMap, AtOf, SeesOf
<1>7. AtMap' = [AtMap EXCEPT ![u] = AtOf(u)']
  <2>1. AtMap = [v \in Users |-> AtMap[v]] /\ AtMap' = [v \in Users |-> AtMap'[v]]
    BY DEF AtMap
  <2> QED
    BY <1>5, <1>6, <2>1
<1>8. SeesMap' = [SeesMap EXCEPT ![u] = SeesOf(u)']
  <2>1. SeesMap = [v \in Users |-> SeesMap[v]] /\ SeesMap' = [v \in Users |-> SeesMap'[v]]
    BY DEF SeesMap
  <2> QED
    BY <1>5, <1>6, <2>1
<1>9. ASSUME d # Null, dcache[d].state # "free"
      PROVE  AtOf(u)' = Path(dcache, d) /\ SeesOf(u)' = dcache[d].inode
  <2>1. Ext(1)'[ucur'[u]] >= 1
    BY <1>2, <1>9, ExternalFacts DEF Ext
  <2>2. Stays(dcache, dcache', x, d)
    BY <1>2, <1>9, <2>1 DEF Frame
  <2>3. d \in Dentries /\ dcache'[d].inode = dcache[d].inode
        /\ dcache'[d].name = dcache[d].name /\ dcache'[d].parent = dcache[d].parent
    BY <1>9, <2>2 DEF Stays
  <2>3a. Path(dcache', d) = Path(dcache, d)
    BY <1>1, <1>3, <1>9, <2>3, PathSame
  <2>4. \A e : PathOf(e)' = Path(dcache', e)
    BY DEF PathOf, Path, RootAt
  <2>5. AtOf(u)' = Path(dcache', d) /\ SeesOf(u)' = dcache'[d].inode
    BY <1>2, <1>9, <2>4 DEF AtOf, SeesOf
  <2> QED
    BY <2>3, <2>3a, <2>5
<1> QED
    BY <1>2, <1>3, <1>7, <1>8, <1>9

LEMMA WalkStartSeen ==
    ASSUME NEW u \in Users, TreeInv(1), TreeInv(1)', NamesInv, WalkStart(u)
    PROVE  Dir!Next
<1>1. /\ ucur[u] = Null /\ ucur' = [ucur EXCEPT ![u] = Root] /\ Root \in Dentries /\ Root # Null
      /\ tpc # "killed" /\ Shape(dcache) /\ Unique(dcache) /\ dcache[Root].state # "free"
    BY ConstantFacts DEF WalkStart, TreeInv, WalkInv, NamesInv, Shape
<1>2. Frame(dcache, dcache', Ext(1)', Null, Null) /\ Null # Root
    BY <1>1, WalkStartInv
<1>3. /\ TreeMap' = TreeMap
      /\ AtMap' = [AtMap EXCEPT ![u] = AtOf(u)']
      /\ SeesMap' = [SeesMap EXCEPT ![u] = SeesOf(u)']
      /\ AtOf(u)' = Path(dcache, Root) /\ SeesOf(u)' = dcache[Root].inode
    BY <1>1, <1>2, MoveSeen
<1>4. AtMap[u] = <<>>
    BY <1>1 DEF AtMap
<1>5. Path(dcache, Root) = RootAt /\ RootAt = Dir!RootPath /\ RootAt \in TreePaths
    BY MapFacts DEF Path, TreePaths, RootAt
<1>6. TreeMap[RootAt] = dcache[Root].inode
    BY <1>1, <1>5, MapFacts, KindOf
<1>7. Dir!Walk(u, RootAt)
  <2>1. /\ AtMap' = [AtMap EXCEPT ![u] = RootAt]
        /\ SeesMap' = [SeesMap EXCEPT ![u] = TreeMap[RootAt]]
    BY <1>3, <1>5, <1>6
  <2> QED
    BY <1>3, <1>4, <1>5, <2>1 DEF Dir!Walk, TreeMap, AtMap, SeesMap
<1> QED
    BY <1>5, <1>7, MapFacts DEF Dir!Next

\* A walk goes on to a dentry of the directory it is in.
LEMMA WalkOnSeen ==
    ASSUME NEW u \in Users, NEW d \in Dentries \ {Root}, NEW x, NEW a,
           TreeInv(1), TreeInv(1)', NamesInv, x # Root,
           Frame(dcache, dcache', Ext(1)', x, a), ucur' = [ucur EXCEPT ![u] = d],
           dcache[d].state # "free", dcache[d].parent = ucur[u]
    PROVE  Dir!Next
<1>1. tpc # "killed" /\ Shape(dcache) /\ Unique(dcache)
    BY DEF TreeInv, FrameType, NamesInv
<1>1a. PICK p \in TreePaths : p = Path(dcache, d)
    BY <1>1, PathType
<1>2. /\ TreeMap' = TreeMap
      /\ AtMap' = [AtMap EXCEPT ![u] = AtOf(u)']
      /\ SeesMap' = [SeesMap EXCEPT ![u] = SeesOf(u)']
      /\ AtOf(u)' = p /\ SeesOf(u)' = dcache[d].inode
    BY <1>1, <1>1a, MoveSeen, ConstantFacts
<1>3. /\ ucur[u] \in Dentries /\ ucur[u] # Null
      /\ dcache[ucur[u]].inode = "dir" /\ dcache[ucur[u]].state # "free"
      /\ ucur[u] = Root => dcache[ucur[u]].name = NoName
      /\ ucur[u] # Root => /\ dcache[ucur[u]].name # NoName
                           /\ dcache[ucur[u]].parent = Root
    BY <1>1, ParentShape, ConstantFacts
<1>4. p = <<dcache[ucur[u]].name, dcache[d].name>> /\ p[1] = dcache[ucur[u]].name
    BY <1>1a DEF Path
<1>5. p \in TreePaths /\ p # RootAt /\ TreePaths = Dir!Paths /\ RootAt = Dir!RootPath
    BY <1>1, <1>1a, PathType, MapFacts
<1>6. Path(dcache, ucur[u]) = Dir!Above(p)
  <2>1. CASE ucur[u] = Root
    BY <1>3, <1>4, <1>5, <2>1 DEF Path, Dir!Above
  <2>2. CASE ucur[u] # Root
    <3>1. dcache[Root].name = NoName
        BY <1>1 DEF Shape
    <3> QED
        BY <1>3, <1>4, <1>5, <2>2, <3>1 DEF Path, Dir!Above
  <2> QED
    BY <2>1, <2>2
<1>7. AtMap[u] = Dir!Above(p) /\ SeesMap[u] = "dir"
  <2>1. PathOf(ucur[u]) = Dir!Above(p)
    BY <1>6, MapFacts
  <2>2. AtMap[u] = PathOf(ucur[u]) /\ SeesMap[u] = dcache[ucur[u]].inode
    BY <1>3 DEF AtMap, SeesMap
  <2> QED
    BY <1>3, <2>1, <2>2
<1>8. TreeMap[p] = dcache[d].inode
    BY <1>1, <1>1a, MapFacts, KindOf
<1>9. Dir!Walk(u, p)
  <2>1. /\ AtMap' = [AtMap EXCEPT ![u] = p]
        /\ SeesMap' = [SeesMap EXCEPT ![u] = TreeMap[p]]
    BY <1>2, <1>8
  <2> QED
    BY <1>2, <1>5, <1>7, <2>1 DEF Dir!Walk, TreeMap, AtMap, SeesMap
<1>10. p \in Dir!Paths
    BY <1>5
<1> QED
    BY <1>9, <1>10 DEF Dir!Next

LEMMA ReleaseSeen ==
    ASSUME NEW u \in Users, TreeInv(1), TreeInv(1)', Release(u)
    PROVE  Dir!Next
<1>1. /\ ucur[u] \in Dentries /\ ucur[u] # Null /\ ucur' = [ucur EXCEPT ![u] = Null]
      /\ Null # Root /\ Shape(dcache)
    BY ConstantFacts DEF Release, TreeInv, FrameType, WalkInv
<1>2. Frame(dcache, dcache', Ext(1)', Null, Null)
    BY ReleaseInv
<1>3. /\ TreeMap' = TreeMap /\ ucur'[u] = Null
      /\ AtMap' = [AtMap EXCEPT ![u] = AtOf(u)']
      /\ SeesMap' = [SeesMap EXCEPT ![u] = SeesOf(u)']
    BY <1>1, <1>2, MoveSeen
<1>4. AtOf(u)' = <<>> /\ SeesOf(u)' = "none"
    BY <1>3 DEF AtOf, SeesOf
<1>5. AtMap[u] # <<>>
  <2>1. AtMap[u] = Path(dcache, ucur[u])
    BY <1>1, MapFacts DEF AtOf
  <2>2. \A b, c : <<b, c>> # <<>>
    OBVIOUS
  <2> QED
    BY <2>1, <2>2 DEF Path, RootAt
<1>6. Dir!Leave(u)
  <2>1. /\ AtMap' = [AtMap EXCEPT ![u] = <<>>]
        /\ SeesMap' = [SeesMap EXCEPT ![u] = "none"]
    BY <1>3, <1>4
  <2> QED
    BY <1>3, <1>5, <2>1 DEF Dir!Leave, TreeMap, AtMap, SeesMap
<1> QED
    BY <1>6 DEF Dir!Next

\* aufs_mknod creates the entry, for those who wait there too.
LEMMA MknodSeen ==
    ASSUME TreeInv(1), TreeInv(1)', NamesInv, NamesInv', aufs_mknod
    PROVE  Dir!Next
<1>1. /\ tpc # "killed" /\ tpc' # "killed"
      /\ Shape(dcache) /\ Unique(dcache) /\ Shape(dcache') /\ Unique(dcache')
      /\ \A u \in Users : ucur[u] \in Dentries \cup {Null}
    BY DEF TreeInv, FrameType, NamesInv
<1>2. /\ lk \in Dentries \ {Root} /\ dcache[lk].state # "free" /\ dcache[lk].inode = "none"
      /\ \A e \in Dentries \ {lk} : dcache'[e] = dcache[e]
      /\ \A e \in Dentries : /\ dcache'[e].state = dcache[e].state
                             /\ dcache'[e].name = dcache[e].name
                             /\ dcache'[e].parent = dcache[e].parent
      /\ dcache'[lk].inode = Call.kind /\ Call.kind \in {"dir", "reg"}
    BY MknodFacts
<1>3. ucur' = ucur /\ step' = step
    BY DEF aufs_mknod, walkVars
<1>4. PICK d \in Dentries \ {Root} : d = lk
    BY <1>2
<1>5. PICK kind \in {"dir", "reg"} : kind = Call.kind
    BY <1>2
<1>6. PICK p \in TreePaths : p = Path(dcache, d)
    BY <1>1, <1>2, <1>4, PathType
<1>7. \A e \in Dentries : dcache[e].state # "free" => Path(dcache', e) = Path(dcache, e)
  <2>1. SUFFICES ASSUME NEW e \in Dentries, dcache[e].state # "free"
                 PROVE  Path(dcache', e) = Path(dcache, e)
    OBVIOUS
  <2>2. CASE e = Root
    BY <2>2 DEF Path
  <2>3. CASE e # Root
    <3>1. dcache[e].parent \in Dentries
        BY <1>1, <2>1, <2>3, ParentShape
    <3> QED
        BY <1>2, <2>3, <3>1 DEF Path
  <2> QED
    BY <2>2, <2>3
<1>8. p # RootAt /\ RootAt = Dir!RootPath /\ TreePaths = Dir!Paths
    BY <1>1, <1>2, <1>4, <1>6, PathType, MapFacts
<1>9. TreeMap[p] = "none"
    BY <1>1, <1>2, <1>4, <1>6, KindOf, MapFacts
<1>10. TreeMap[Dir!Above(p)] = "dir"
  <2> DEFINE c == dcache[d].parent
  <2>1. /\ c \in Dentries /\ dcache[c].inode = "dir" /\ dcache[c].state # "free"
        /\ c = Root => dcache[c].name = NoName
        /\ c # Root => dcache[c].name # NoName /\ dcache[c].parent = Root
    BY <1>1, <1>2, <1>4, ParentShape
  <2>2. p = <<dcache[c].name, dcache[d].name>> /\ p[1] = dcache[c].name
    BY <1>6 DEF Path
  <2>3. dcache[Root].name = NoName
    BY <1>1 DEF Shape
  <2> HIDE DEF c
  <2>4. Path(dcache, c) = Dir!Above(p)
    <3>1. CASE c = Root
        BY <1>8, <2>1, <2>2, <3>1 DEF Path, Dir!Above
    <3>2. CASE c # Root
        BY <1>8, <2>1, <2>2, <2>3, <3>2 DEF Path, Dir!Above
    <3> QED
        BY <3>1, <3>2
  <2>5. Path(dcache, c) \in TreePaths /\ Kind(dcache, Path(dcache, c)) = "dir"
    BY <1>1, <2>1, PathType, KindOf
  <2> QED
    BY <1>1, <2>4, <2>5, MapFacts
<1>11. TreeMap' = [TreeMap EXCEPT ![p] = kind]
  <2>1. ASSUME NEW q \in TreePaths, q # p PROVE Kind(dcache', q) = Kind(dcache, q)
    <3>1. \A e \in Dentries : e \in Here(dcache', q) <=> e \in Here(dcache, q)
        BY <1>2, <1>4, <1>6, <1>7, <2>1 DEF Here
    <3>2. Here(dcache', q) = Here(dcache, q)
        BY <3>1 DEF Here
    <3>3. \A e \in Here(dcache, q) : dcache'[e].inode = dcache[e].inode
        BY <1>2 DEF Here
    <3> QED
        BY <3>2, <3>3, KindSame
  <2>2. Kind(dcache', p) = kind
    <3>1. Kind(dcache', Path(dcache', d)) = dcache'[d].inode
        BY <1>1, <1>2, <1>4, KindOf
    <3> QED
        BY <1>2, <1>4, <1>5, <1>6, <1>7, <3>1
  <2>3. \A q \in TreePaths : TreeMap'[q] = Kind(dcache', q) /\ TreeMap[q] = Kind(dcache, q)
    BY <1>1, TreeMapNext, MapFacts
  <2>4. TreeMap = [q \in TreePaths |-> TreeMap[q]] /\ TreeMap' = [q \in TreePaths |-> TreeMap'[q]]
    BY DEF TreeMap, TreePaths
  <2> QED
    BY <2>1, <2>2, <2>3, <2>4
<1>12. \A u \in Users : /\ AtOf(u)' = AtOf(u)
                        /\ SeesOf(u)' = IF AtOf(u) = p THEN kind ELSE SeesOf(u)
  <2>1. SUFFICES ASSUME NEW u \in Users
                 PROVE  /\ AtOf(u)' = AtOf(u)
                        /\ SeesOf(u)' = IF AtOf(u) = p THEN kind ELSE SeesOf(u)
    OBVIOUS
  <2>2. CASE ucur[u] = Null
    BY <1>3, <1>6, <2>2 DEF AtOf, SeesOf, Path
  <2>3. CASE ucur[u] # Null
    <3>1. ucur[u] \in Dentries /\ dcache[ucur[u]].state # "free"
        BY <1>1, <2>3, HeldFacts
    <3>2. AtOf(u) = Path(dcache, ucur[u]) /\ AtOf(u)' = Path(dcache', ucur[u])
        BY <1>3, <2>3 DEF AtOf, PathOf, Path, RootAt
    <3>3. AtOf(u) = p <=> ucur[u] = d
        BY <1>1, <1>2, <1>4, <1>6, <3>1, <3>2, PathUnique
    <3>4. SeesOf(u) = dcache[ucur[u]].inode /\ SeesOf(u)' = dcache'[ucur[u]].inode
        BY <1>3, <2>3 DEF SeesOf
    <3> QED
        BY <1>2, <1>4, <1>5, <1>7, <3>1, <3>2, <3>3, <3>4
  <2> QED
    BY <2>2, <2>3
<1>13. AtMap' = AtMap /\ SeesMap' = [u \in Users |-> IF AtMap[u] = p THEN kind ELSE SeesMap[u]]
  <2>1. \A u \in Users : AtMap'[u] = AtMap[u] /\ SeesMap'[u] = IF AtMap[u] = p THEN kind ELSE SeesMap[u]
    BY <1>12 DEF AtMap, SeesMap, AtOf, SeesOf
  <2>2. AtMap = [u \in Users |-> AtMap[u]] /\ AtMap' = [u \in Users |-> AtMap'[u]]
        /\ SeesMap' = [u \in Users |-> SeesMap'[u]]
    BY DEF AtMap, SeesMap
  <2> QED
    BY <2>1, <2>2
<1>14. Dir!Create(p, kind)
    BY <1>8, <1>9, <1>10, <1>11, <1>13 DEF Dir!Create, TreeMap, AtMap, SeesMap
<1>15. p \in Dir!Paths
    BY <1>8
<1> QED
    BY <1>14, <1>15 DEF Dir!Next

LEMMA FinishSeen ==
    ASSUME TreeInv(1), TreeInv(1)', aufs_create_file_finish
    PROVE  UNCHANGED Dir!vars
<1>1. /\ tpc # "killed" /\ tpc' # "killed" /\ Shape(dcache) /\ Shape(dcache')
      /\ \A u \in Users : ucur[u] \in Dentries \cup {Null}
    BY DEF TreeInv, FrameType
<1>2. \A e \in Dentries : Fixed(dcache, dcache', e)
    BY FinishFacts
<1>3. ucur' = ucur
    BY DEF aufs_create_file_finish, walkVars
<1>4. Solid(dcache, dcache')
    BY <1>2 DEF Solid
<1>5. TreeMap' = TreeMap
    BY <1>1, <1>4, TreeMapSame
<1>6. ASSUME NEW u \in Users PROVE AtOf(u)' = AtOf(u) /\ SeesOf(u)' = SeesOf(u)
  <2>1. CASE ucur[u] = Null
    BY <1>3, <2>1 DEF AtOf, SeesOf
  <2>2. CASE ucur[u] # Null
    <3>1. ucur[u] \in Dentries /\ dcache[ucur[u]].state # "free"
        BY <1>1, <2>2, HeldFacts
    <3>2. /\ dcache'[ucur[u]].name = dcache[ucur[u]].name
          /\ dcache'[ucur[u]].parent = dcache[ucur[u]].parent
          /\ dcache'[ucur[u]].inode = dcache[ucur[u]].inode
        BY <1>2, <3>1 DEF Fixed
    <3> QED
        BY <1>1, <1>3, <1>4, <3>1, <3>2, UserSame
  <2> QED
    BY <2>1, <2>2
<1> QED
    BY <1>5, <1>6, Unseen

\* Nobody is in the tree that aufs_exit destroys.
LEMMA KillSeen ==
    ASSUME TreeInv(1), aufs_exit_kill
    PROVE  Dir!Next
<1>1. /\ tpc' = "killed" /\ ucur' = ucur
      /\ \A u \in Users : ucur[u] = Null
    BY DEF aufs_exit_kill, walkVars, TreeInv, WalkInv
<1>2. \A u \in Users : /\ AtOf(u) = <<>> /\ AtOf(u)' = AtOf(u)
                       /\ SeesOf(u)' = SeesOf(u)
    BY <1>1 DEF AtOf, SeesOf
<1>3. AtMap' = AtMap /\ SeesMap' = SeesMap
    BY <1>2, MapsSame
<1>4. \A u \in Users : AtMap[u] = <<>>
    BY <1>2, MapFacts
<1>5. TreeMap' = [p \in TreePaths |-> "none"]
    BY <1>1 DEF TreeMap, TreePaths, EntryAt
<1>6. Dir!Destroy
  <2>1. TreePaths = Dir!Paths
    BY MapFacts
  <2> QED
    BY <1>3, <1>4, <1>5, <2>1 DEF Dir!Destroy, TreeMap, AtMap, SeesMap
<1> QED
    BY <1>6 DEF Dir!Next

\* Steps that only move dentries about while every process stays where it is.
LEMMA StandStill ==
    ASSUME NEW x, NEW a, TreeInv(1), TreeInv(1)', x # Root,
           Frame(dcache, dcache', Ext(1)', x, a), ucur' = ucur
    PROVE  UNCHANGED Dir!vars
BY FrameSeen, Unseen

LEMMA InitThreadSeen ==
    ASSUME TreeInv(1), TreeInv(1)', NamesInv, NamesInv', InitThread
    PROVE  Dir!Next \/ UNCHANGED Dir!vars
<1>1. Null # Root /\ 1 \in Nat /\ dcache[Root].state # "free"
    BY ConstantFacts, HeldFacts
<1>2. CASE lookup_one_len_hit
    BY <1>1, <1>2, LookupOneHitInv, StandStill DEF lookup_one_len_hit, walkVars
<1>3. CASE lookup_one_len_miss
  <2>1. PICK a : a = Fresh(dcache)
    OBVIOUS
  <2>2. Frame(dcache, dcache', Ext(1)', Null, a)
    BY <1>1, <1>3, <2>1, LookupOneMissInv
  <2> QED
    BY <1>1, <1>3, <2>2, StandStill DEF lookup_one_len_miss, walkVars
<1>4. CASE lookup_one_len_add
  <2>1. PICK x : x = lk
    OBVIOUS
  <2>2. x # Root /\ Frame(dcache, dcache', Ext(1)', x, Null)
    BY <1>1, <1>4, <2>1, LookupOneAddInv, CallFacts DEF lookup_one_len_add, InCall
  <2> QED
    BY <1>1, <1>4, <2>2, StandStill DEF lookup_one_len_add, walkVars
<1>5. CASE d_alloc_parallel_join
    BY <1>1, <1>5, LookupJoinInv, StandStill DEF d_alloc_parallel_join, walkVars
<1>6. CASE d_wait_lookup
    BY <1>1, <1>6, OnlyPcInv, StandStill DEF d_wait_lookup, walkVars
<1>7. CASE aufs_mknod_fail
    BY <1>1, <1>7, MknodFailInv, StandStill DEF aufs_mknod_fail, walkVars
<1>8. CASE aufs_mknod
    BY <1>8, MknodSeen
<1>9. CASE aufs_create_file_finish
    BY <1>9, FinishSeen
<1> QED
    BY <1>2, <1>3, <1>4, <1>5, <1>6, <1>7, <1>8, <1>9 DEF InitThread

LEMMA WalkerSeen ==
    ASSUME NEW u \in Users, TreeInv(1), TreeInv(1)', NamesInv, WalkerStep(u)
    PROVE  Dir!Next \/ UNCHANGED Dir!vars
<1>1. Null # Root /\ 1 \in Nat /\ WalkInv(u) /\ Shape(dcache)
    BY ConstantFacts DEF TreeInv
<1>2. CASE WalkStart(u)
    BY <1>2, WalkStartSeen
<1>3. ASSUME NEW n \in Names, LookupHit(u, n)
      PROVE  Dir!Next
  <2>1. PICK d \in d_lookup(dcache, ucur[u], n) : ucur' = [ucur EXCEPT ![u] = d]
    BY <1>3 DEF LookupHit
  <2>2. d \in Dentries \ {Root} /\ dcache[d].state # "free" /\ dcache[d].parent = ucur[u]
    BY <1>1 DEF d_lookup, Shape
  <2> QED
    BY <1>1, <1>3, <2>1, <2>2, LookupHitInv, WalkOnSeen
<1>4. ASSUME NEW n \in Names, LookupMiss(u, n)
      PROVE  UNCHANGED Dir!vars
  <2>1. PICK a : a = Fresh(dcache)
    OBVIOUS
  <2>2. Frame(dcache, dcache', Ext(1)', Null, a)
    BY <1>1, <1>4, <2>1, LookupMissInv
  <2> QED
    BY <1>1, <1>4, <2>2, StandStill DEF LookupMiss
<1>5. CASE LookupAdd(u)
  <2>1. PICK d : d = unew[u]
    OBVIOUS
  <2>2. /\ d \in Dentries \ {Root} /\ dcache[d].state # "free" /\ dcache[d].parent = ucur[u]
        /\ ucur' = [ucur EXCEPT ![u] = d]
    BY <1>1, <1>5, <2>1 DEF LookupAdd, WalkInv
  <2>3. Frame(dcache, dcache', Ext(1)', d, Null)
    BY <1>1, <1>5, <2>1, LookupAddInv
  <2> QED
    BY <1>1, <2>2, <2>3, WalkOnSeen
<1>6. CASE OpenFile(u)
    BY <1>1, <1>6, OpenFileInv, StandStill DEF OpenFile
<1>7. CASE Release(u)
    BY <1>7, ReleaseSeen
<1> QED
    BY <1>2, <1>3, <1>4, <1>5, <1>6, <1>7 DEF WalkerStep

LEMMA DirectoryInit == TreeInit => Dir!Init
<1> SUFFICES ASSUME TreeInit PROVE Dir!Init
    OBVIOUS
<1>1. TreeInv(1) /\ Unique(dcache) /\ tpc # "killed"
    BY InitInv, NamesInit DEF NamesInv, TreeInit
<1>2. /\ Root \in Dentries /\ Shape(dcache) /\ dcache[Root].state # "free"
      /\ dcache[Root].inode = "dir"
      /\ \A d \in Dentries \ {Root} : dcache[d].inode = "none"
    BY <1>1, ConstantFacts DEF TreeInit, simple_fill_super, FreeDentry, TreeInv
<1>3. Path(dcache, Root) = RootAt
    BY DEF Path
<1>4. Kind(dcache, RootAt) = "dir"
    BY <1>1, <1>2, <1>3, KindOf
<1>5. ASSUME NEW p, p # RootAt PROVE Kind(dcache, p) = "none"
  <2>1. Here(dcache, p) = {}
    BY <1>2, <1>3, <1>5 DEF Here
  <2> QED
    BY <2>1 DEF Kind
<1>6. \A p \in TreePaths : TreeMap[p] = IF p = RootAt THEN "dir" ELSE "none"
    BY <1>1, <1>4, <1>5, MapFacts
<1>7. TreeMap = [p \in TreePaths |-> IF p = RootAt THEN "dir" ELSE "none"]
    BY <1>6, MapFacts
<1>8. AtMap = [u \in Users |-> <<>>] /\ SeesMap = [u \in Users |-> "none"]
    BY DEF AtMap, SeesMap, TreeInit
<1>9. TreePaths = Dir!Paths /\ RootAt = Dir!RootPath
    BY MapFacts
<1> QED
    BY <1>7, <1>8, <1>9 DEF Dir!Init, TreeMap, AtMap, SeesMap

LEMMA DirectoryStep ==
    ASSUME SerialisedLookup, TreeSafe, NamesInv, [TreeNext]_treeVars
    PROVE  [Dir!Next]_(Dir!vars)
<1>1. CASE UNCHANGED treeVars
  <2>1. UNCHANGED <<dcache, tpc, ucur>>
    BY <1>1 DEF treeVars, initVars, walkVars
  <2>2. TreeMap' = TreeMap
    BY <2>1 DEF TreeMap, EntryAt, Used, PathOf
  <2>3. \A u \in Users : AtOf(u)' = AtOf(u) /\ SeesOf(u)' = SeesOf(u)
    BY <2>1 DEF AtOf, SeesOf, PathOf
  <2> QED
    BY <2>2, <2>3, Unseen
<1>2. CASE TreeNext
  <2>1. TreeInv(1) /\ (InitThread \/ (\E u \in Users : WalkerStep(u)) \/ aufs_exit_kill)
    BY <1>2, StepCases
  <2>2. NamesInv'
    BY <1>2, NamesStep
  <2>3. CASE InitThread
    BY <2>1, <2>2, <2>3, InitThreadInv, InitThreadSeen
  <2>4. CASE \E u \in Users : WalkerStep(u)
    BY <2>1, <2>2, <2>4, WalkerInv, WalkerSeen
  <2>5. CASE aufs_exit_kill
    BY <2>1, <2>5, KillSeen
  <2> QED
    BY <2>1, <2>3, <2>4, <2>5
<1> QED
    BY <1>1, <1>2

\* Where the kernel serialises the lookups of a name, the dentry cache shows a
\* path walk one tree of names that only grows: never a missing entry in place of
\* one that is there, although aufs_create_by_name looks up and creates without
\* the lock of the parent (dentry.h 27-33).
THEOREM TreeImplementsDirectory == SerialisedLookup /\ TreeSpec => ImplementsDirectory
<1>1. CASE SerialisedLookup
  <2>1. TreeSafe /\ NamesInv /\ [TreeNext]_treeVars => [Dir!Next]_(Dir!vars)
    BY <1>1, DirectoryStep
  <2>2. TreeSafe /\ NamesInv /\ [TreeNext]_treeVars => NamesInv'
    <3>1. NamesInv /\ UNCHANGED treeVars => NamesInv'
        BY DEF NamesInv, treeVars
    <3> QED
        BY <1>1, <3>1, NamesStep
  <2> QED
    BY <2>1, <2>2, NamesInit, DirectoryInit, TreeInvariant, PTL
    DEF TreeSpec, ImplementsDirectory, Dir!Spec
<1> QED
    BY <1>1

=============================================================================
