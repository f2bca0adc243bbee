--------------------------- MODULE AufsFileProofs ---------------------------
(***************************************************************************)
(* Proofs about AufsFile, for any readers, writers, messages, read sizes   *)
(* and positions, with and without a lock on the position.                 *)
(***************************************************************************)
EXTENDS AufsFile, TLAPS

-----------------------------------------------------------------------------
(***************************************************************************)
(* The inductive invariant.                                                *)
(***************************************************************************)

\* What a reader whose position nobody else changes knows: it is where its
\* bytes ended, in a call too.  If moreover the switch has not changed, the
\* message it chose is the present one, all its bytes came from it, and it
\* has moved from its start to at most the end of that message.
ReaderInv(r) ==
    /\ ~over[r]
    /\ eof[r] => rpc[r] = "idle"
    /\ PositionIsMine(r) =>
        /\ f_pos[r] = upto[r]
        /\ rpc[r] # "idle" => pos[r] = upto[r]
        /\ eof[r] => upto[r] >= MsgLen[s[r]]
        /\ stable[r] =>
            /\ rpc[r] = "chosen" \/ eof[r] => s[r] = enabled
            /\ from[r] \subseteq {enabled}
            /\ upto[r] >= start[r]
            /\ upto[r] <= MsgLen[enabled] \/ upto[r] = start[r]

\* A writer that holds the lock of a reader's open file keeps the reader out
\* of read(2), and the position it has fetched is the present one.
WriterInv(w) ==
    poslock /\ wpc[w] # "idle" /\ Through[w] # Own =>
        rpc[Through[w]] = "idle" /\ wpos[w] = f_pos[Through[w]]

FileInv ==
    /\ TypeOK
    /\ \A r \in Readers : ReaderInv(r)
    /\ \A w \in Writers : WriterInv(w)

-----------------------------------------------------------------------------
\* simple_read_from_buffer never copies more than was asked for, nor from
\* behind the end of the buffer, and copies nothing of a non-empty request
\* only at the end.
LEMMA ReadBounds ==
    ASSUME NEW count \in Nat, NEW ppos \in Nat, NEW available \in Nat
    PROVE  LET n == simple_read_from_buffer(count, ppos, available)
           IN  /\ n \in Nat
               /\ n <= count
               /\ n > 0 => ppos + n <= available
               /\ n = 0 /\ count > 0 => ppos >= available
BY DEF simple_read_from_buffer

\* A writer that is inside keeps the reader from passing fdget_pos.
LEMMA LockedOut ==
    ASSUME NEW r \in Readers, fdget_pos(r), poslock,
           NEW w \in Writers, Through[w] = r
    PROVE  wpc[w] = "idle"
BY DEF fdget_pos, WriterInside

LEMMA FileInit == Init => FileInv
<1> SUFFICES ASSUME Init PROVE FileInv
    OBVIOUS
<1>1. /\ eof \in [Readers -> BOOLEAN]
      /\ over \in [Readers -> BOOLEAN]
      /\ stable \in [Readers -> BOOLEAN]
      /\ \A r \in Readers : ~over[r] /\ ~eof[r]
    BY Zenon DEF Init
<1>2. TypeOK
    BY <1>1 DEF Init, TypeOK
<1>3. ASSUME NEW r \in Readers PROVE ReaderInv(r)
    BY <1>1, MsgLenAssumption DEF Init, ReaderInv
<1>4. ASSUME NEW w \in Writers PROVE WriterInv(w)
    BY DEF Init, WriterInv
<1> QED
    BY <1>2, <1>3, <1>4 DEF FileInv

\* A pass begins.
LEMMA StartStep ==
    ASSUME FileInv, NEW r \in Readers, NEW p \in Positions, StartPass(r, p)
    PROVE  FileInv'
<1> USE PositionsAssumption, MsgLenAssumption, ThroughAssumption DEF FileInv, writeVars
<1>1. /\ eof' \in [Readers -> BOOLEAN]
      /\ stable' \in [Readers -> BOOLEAN]
      /\ ~eof'[r]
      /\ \A q \in Readers : q # r => eof'[q] = eof[q] /\ stable'[q] = stable[q]
    BY DEF StartPass, TypeOK
<1>2. TypeOK'
    BY <1>1 DEF StartPass, TypeOK
<1>3. ASSUME NEW q \in Readers PROVE ReaderInv(q)'
    BY <1>1 DEF StartPass, TypeOK, ReaderInv, PositionIsMine
<1>4. ASSUME NEW w \in Writers PROVE WriterInv(w)'
    BY LockedOut DEF StartPass, TypeOK, WriterInv
<1> QED
    BY <1>2, <1>3, <1>4

\* A call begins, fetching the position.
LEMMA ReadStep ==
    ASSUME FileInv, NEW r \in Readers, NEW n \in ReadSizes, sys_read(r, n)
    PROVE  FileInv'
<1> USE ReadSizesAssumption, ThroughAssumption DEF FileInv, writeVars, histVars
<1>1. /\ eof' \in [Readers -> BOOLEAN]
      /\ ~eof'[r]
      /\ \A q \in Readers : q # r => eof'[q] = eof[q]
    BY DEF sys_read, TypeOK
<1>2. TypeOK'
    BY <1>1 DEF sys_read, TypeOK
<1>3. ASSUME NEW q \in Readers PROVE ReaderInv(q)'
    BY <1>1 DEF sys_read, TypeOK, ReaderInv, PositionIsMine
<1>4. ASSUME NEW w \in Writers PROVE WriterInv(w)'
    BY LockedOut DEF sys_read, TypeOK, WriterInv
<1> QED
    BY <1>2, <1>3, <1>4

\* It chooses its message.
LEMMA ChooseStep ==
    ASSUME FileInv, NEW r \in Readers, aufs_file_read_choose(r)
    PROVE  FileInv'
<1> USE ThroughAssumption DEF FileInv, writeVars, histVars
<1>1. TypeOK'
    BY DEF aufs_file_read_choose, TypeOK
<1>2. ASSUME NEW q \in Readers PROVE ReaderInv(q)'
    BY DEF aufs_file_read_choose, TypeOK, ReaderInv, PositionIsMine
<1>3. ASSUME NEW w \in Writers PROVE WriterInv(w)'
    BY DEF aufs_file_read_choose, TypeOK, WriterInv
<1> QED
    BY <1>1, <1>2, <1>3

\* It copies, whatever was written since it chose.
LEMMA CopyStep ==
    ASSUME FileInv, NEW r \in Readers, aufs_file_read_copy(r)
    PROVE  FileInv'
<1> USE MsgLenAssumption, ThroughAssumption DEF FileInv, writeVars
<1> DEFINE n == simple_read_from_buffer(nbytes[r], pos[r], MsgLen[s[r]])
<1>1. nbytes[r] \in Nat /\ pos[r] \in Nat /\ s[r] \in {0, 1} /\ MsgLen[s[r]] \in Nat
    BY DEF TypeOK
<1>2. /\ n \in Nat
      /\ n > 0 => pos[r] + n <= MsgLen[s[r]]
      /\ n = 0 /\ nbytes[r] > 0 => pos[r] >= MsgLen[s[r]]
    BY <1>1, ReadBounds
<1>3. /\ rpc' = [rpc EXCEPT ![r] = "idle"]
      /\ f_pos' = [f_pos EXCEPT ![r] = pos[r] + n]
      /\ pos' = [pos EXCEPT ![r] = 0]
      /\ eof' = [eof EXCEPT ![r] = n = 0 /\ nbytes[r] > 0]
      /\ upto' = [upto EXCEPT ![r] = IF n > 0 THEN pos[r] + n ELSE upto[r]]
      /\ from' = [from EXCEPT ![r] = IF n > 0 THEN from[r] \cup {s[r]} ELSE from[r]]
      /\ over' = [over EXCEPT ![r] = over[r] \/ (n > 0 /\ pos[r] + n > MsgLen[s[r]])]
      /\ UNCHANGED <<enabled, nbytes, s, writeVars, poslock, start, stable>>
      /\ rpc[r] = "chosen"
    BY DEF aufs_file_read_copy
<1> HIDE DEF n
<1>4. ~(n > 0 /\ pos[r] + n > MsgLen[s[r]])
    BY <1>1, <1>2
<1>5. over' = [over EXCEPT ![r] = over[r] \/ FALSE]
    BY <1>3, <1>4
<1>6. over' \in [Readers -> BOOLEAN] /\ \A q \in Readers : ~over'[q]
    BY <1>5, Zenon DEF TypeOK, ReaderInv
<1>7. /\ eof' \in [Readers -> BOOLEAN]
      /\ eof'[r] => n = 0 /\ nbytes[r] > 0
      /\ \A q \in Readers : q # r => eof'[q] = eof[q]
    BY <1>3 DEF TypeOK
<1>8. TypeOK'
    BY <1>1, <1>2, <1>3, <1>6, <1>7 DEF TypeOK
<1>9. ASSUME NEW q \in Readers PROVE ReaderInv(q)'
    <2>1. CASE q # r
        BY <1>3, <1>6, <1>7, <2>1 DEF TypeOK, ReaderInv, PositionIsMine
    <2>2. CASE q = r
        <3>1. ReaderInv(r)
            OBVIOUS
        <3>2. PositionIsMine(r)' <=> PositionIsMine(r)
            BY <1>3 DEF PositionIsMine
        <3>3. /\ upto[r] \in Nat /\ start[r] \in Nat /\ enabled \in {0, 1}
              /\ MsgLen[enabled] \in Nat
              /\ f_pos'[r] = pos[r] + n
              /\ rpc'[r] = "idle"
              /\ upto'[r] = IF n > 0 THEN pos[r] + n ELSE upto[r]
              /\ from'[r] = IF n > 0 THEN from[r] \cup {s[r]} ELSE from[r]
              /\ start' = start /\ s' = s /\ enabled' = enabled /\ stable' = stable
            BY <1>3 DEF TypeOK
        <3>4. ~over'[r]
            BY <1>6
        <3>5. ASSUME PositionIsMine(r)
              PROVE  /\ f_pos'[r] = upto'[r]
                     /\ eof'[r] => upto'[r] >= MsgLen[s[r]]
                     /\ stable[r] =>
                            /\ s[r] = enabled
                            /\ from'[r] \subseteq {enabled}
                            /\ upto'[r] >= start[r]
                            /\ upto'[r] <= MsgLen[enabled] \/ upto'[r] = start[r]
            BY <1>1, <1>2, <1>3, <1>7, <3>1, <3>3, <3>5 DEF ReaderInv
        <3> QED
            BY <2>2, <3>2, <3>3, <3>4, <3>5 DEF ReaderInv
    <2> QED
        BY <2>1, <2>2
<1>10. ASSUME NEW w \in Writers PROVE WriterInv(w)'
    BY <1>3 DEF TypeOK, WriterInv
<1> QED
    BY <1>8, <1>9, <1>10

\* It fails to copy.
LEMMA FaultStep ==
    ASSUME FileInv, NEW r \in Readers, aufs_file_read_fault(r)
    PROVE  FileInv'
<1> USE ThroughAssumption DEF FileInv, writeVars, histVars
<1>1. TypeOK'
    BY DEF aufs_file_read_fault, TypeOK
<1>2. ASSUME NEW q \in Readers PROVE ReaderInv(q)'
    BY DEF aufs_file_read_fault, TypeOK, ReaderInv, PositionIsMine
<1>3. ASSUME NEW w \in Writers PROVE WriterInv(w)'
    BY DEF aufs_file_read_fault, TypeOK, WriterInv
<1> QED
    BY <1>1, <1>2, <1>3

\* A writer enters write(2), fetching the position.
LEMMA WriteStep ==
    ASSUME FileInv, NEW w \in Writers, sys_write(w)
    PROVE  FileInv'
<1> USE ThroughAssumption DEF FileInv, readVars, histVars
<1>1. /\ UNCHANGED <<enabled, f_pos, readVars, poslock, histVars>>
      /\ wpc' = [wpc EXCEPT ![w] = "in"]
      /\ wpos' = [wpos EXCEPT ![w] = IF Through[w] = Own THEN 0 ELSE f_pos[Through[w]]]
      /\ poslock /\ Through[w] # Own => rpc[Through[w]] = "idle"
    BY DEF sys_write
<1>2. TypeOK'
    BY <1>1 DEF TypeOK
<1>3. ASSUME NEW q \in Readers PROVE ReaderInv(q)'
    BY <1>1 DEF ReaderInv, PositionIsMine
<1>4. ASSUME NEW v \in Writers PROVE WriterInv(v)'
    BY <1>1 DEF TypeOK, WriterInv
<1> QED
    BY <1>2, <1>3, <1>4

\* The switch changes: the passes under way are no longer stable.
LEMMA SwitchStep ==
    ASSUME FileInv, NEW w \in Writers, NEW b \in Bytes, aufs_file_write(w, b)
    PROVE  FileInv'
<1> USE DEF FileInv, readVars
<1>1. enabled' \in {0, 1}
    BY DEF aufs_file_write
<1>2. /\ stable' \in [Readers -> BOOLEAN]
      /\ \A q \in Readers : stable'[q] => stable[q] /\ enabled' = enabled
    BY Zenon DEF aufs_file_write
<1>3. TypeOK'
    BY <1>1, <1>2 DEF aufs_file_write, TypeOK
<1>4. ASSUME NEW q \in Readers PROVE ReaderInv(q)'
    BY <1>2 DEF aufs_file_write, ReaderInv, PositionIsMine
<1>5. ASSUME NEW v \in Writers PROVE WriterInv(v)'
    BY DEF aufs_file_write, TypeOK, WriterInv
<1> QED
    BY <1>3, <1>4, <1>5

\* A writer is killed: no reader notices.
LEMMA OopsStep ==
    ASSUME FileInv, NEW w \in Writers, aufs_file_write_oops(w)
    PROVE  FileInv'
<1> USE DEF FileInv, readVars, histVars
<1>1. TypeOK'
    BY DEF aufs_file_write_oops, TypeOK
<1>2. ASSUME NEW q \in Readers PROVE ReaderInv(q)'
    BY DEF aufs_file_write_oops, ReaderInv, PositionIsMine
<1>3. ASSUME NEW v \in Writers PROVE WriterInv(v)'
    BY DEF aufs_file_write_oops, TypeOK, WriterInv
<1> QED
    BY <1>1, <1>2, <1>3

\* A writer stores the position it fetched: the present one, where it matters.
LEMMA WrittenStep ==
    ASSUME FileInv, NEW w \in Writers, sys_write_return(w)
    PROVE  FileInv'
<1> USE ThroughAssumption DEF FileInv, readVars, histVars
<1>1. TypeOK'
    BY DEF sys_write_return, TypeOK
<1>2. ASSUME NEW q \in Readers, PositionIsMine(q) PROVE f_pos'[q] = f_pos[q]
    <2>1. CASE Through[w] # q
        BY <2>1 DEF sys_write_return
    <2>2. CASE Through[w] = q
        BY <1>2, <2>2 DEF sys_write_return, PositionIsMine, WriterInv
    <2> QED
        BY <2>1, <2>2
<1>3. ASSUME NEW q \in Readers PROVE ReaderInv(q)'
    <2>1. PositionIsMine(q)' <=> PositionIsMine(q)
        BY DEF sys_write_return, PositionIsMine
    <2> QED
        BY <1>2, <2>1 DEF sys_write_return, ReaderInv
<1>4. ASSUME NEW v \in Writers PROVE WriterInv(v)'
    <2> SUFFICES ASSUME poslock, wpc'[v] # "idle", Through[v] # Own
                 PROVE  rpc[Through[v]] = "idle" /\ wpos'[v] = f_pos'[Through[v]]
        BY DEF sys_write_return, WriterInv
    <2>1. v # w /\ wpc[v] # "idle" /\ wpos'[v] = wpos[v]
        BY DEF sys_write_return, TypeOK
    <2>2. f_pos'[Through[v]] = f_pos[Through[v]]
        BY <1>2 DEF PositionIsMine
    <2> QED
        BY <2>1, <2>2 DEF WriterInv
<1> QED
    BY <1>1, <1>3, <1>4

LEMMA FileStep == FileInv /\ [Next]_vars => FileInv'
<1> SUFFICES ASSUME FileInv, [Next]_vars PROVE FileInv'
    OBVIOUS
<1>1. CASE Next
    BY <1>1, StartStep, ReadStep, ChooseStep, CopyStep, FaultStep, WriteStep,
       SwitchStep, OopsStep, WrittenStep
       DEF Next, Read, Seek, InRead, InWrite
<1>2. CASE UNCHANGED vars
    BY <1>2 DEF vars, readVars, writeVars, histVars, FileInv, TypeOK, ReaderInv,
                WriterInv, PositionIsMine
<1> QED
    BY <1>1, <1>2

\* The inductive invariant is an invariant of the specification.
THEOREM FileInvariant == Spec => []FileInv
BY FileInit, FileStep, PTL DEF Spec

-----------------------------------------------------------------------------
\* The switch stays 0 or 1 whatever byte is written (file.h:64-69), and all
\* the state of the readers keeps its type.
THEOREM FileTypeCorrect == Spec => []TypeOK
<1>1. FileInv => TypeOK
    BY DEF FileInv
<1> QED
    BY <1>1, FileInvariant, PTL

\* aufs_file_read never copies behind the end of the message it chose, for any
\* two message lengths, read sizes, positions and interleavings with writes.
THEOREM ReadsInBounds == Spec => []NoOverread
<1>1. FileInv => NoOverread
    BY DEF FileInv, ReaderInv, NoOverread
<1> QED
    BY <1>1, FileInvariant, PTL

\* Where nobody else changes the position, because no writer shares the open
\* file or because the kernel locks it, a pass misses no byte and gets none
\* twice, also when the switch flips between its calls (file.h:57).
THEOREM PassesAreSeamless == Spec => []SeamlessPass
<1>1. FileInv => SeamlessPass
    BY DEF FileInv, ReaderInv, SeamlessPass
<1> QED
    BY <1>1, FileInvariant, PTL

\* Such a pass, if the switch stays, delivers exactly one message to its end.
THEOREM UndisturbedReadIsWhole == Spec => []WholeMessage
<1>1. FileInv => WholeMessage
    <2> SUFFICES ASSUME FileInv, NEW r \in Readers, PositionIsMine(r), stable[r], eof[r]
                 PROVE  /\ from[r] \subseteq {enabled}
                        /\ upto[r] = IF start[r] > MsgLen[enabled] THEN start[r]
                                                                    ELSE MsgLen[enabled]
        BY DEF WholeMessage
    <2>1. upto[r] \in Nat /\ start[r] \in Nat /\ MsgLen[enabled] \in Nat
        BY MsgLenAssumption DEF FileInv, TypeOK
    <2> QED
        BY <2>1 DEF FileInv, ReaderInv
<1> QED
    BY <1>1, FileInvariant, PTL
=============================================================================
