------------------------------ MODULE AufsFile ------------------------------
(***************************************************************************)
(* The file operations of the regular files of aufs (file.h 55-72).        *)
(*                                                                         *)
(* All files share one switch, the module variable enabled.  Writing sets  *)
(* it from the first byte of the buffer; reading returns one of two fixed  *)
(* messages, the choice being made before the stack is dumped and the      *)
(* bytes are copied, so a write may come between the choice and the copy.  *)
(* A reader fetches the message in as many calls as it likes, and every    *)
(* call chooses again.                                                     *)
(*                                                                         *)
(* read(2) and write(2) work on a copy of the position of the open file:   *)
(* they fetch it on entry and store it back at the end, also a write,      *)
(* which does not move it.  So a write through an open file that somebody  *)
(* else reads may undo what was read in the meantime.                      *)
(*                                                                         *)
(* A message is known by the value of enabled it stands for; of its bytes  *)
(* only the number matters.  A PASS of a reader is a run of read calls     *)
(* after it set its position (by opening the file or by lseek).            *)
(*                                                                         *)
(* aufs_file_write follows the user's pointer itself: a buffer that is not *)
(* mapped kills the writer on the spot, and what it holds is never given   *)
(* back.  The kernel under 3rd/linux-2.6.14 holds nothing during a write;  *)
(* from 3.14 on a read or write through an open file that several          *)
(* processes share holds its f_pos_lock.                                   *)
(***************************************************************************)
EXTENDS Integers

CONSTANTS
    Readers,    \* open files that are read, each by one process
    Writers,    \* processes that write
    Own,        \* "an open file nobody reads"
    Through,    \* the open file each writer writes through
    MsgLen,     \* strlen of the "disabled" (0) and of the "enabled" (1) message
    ReadSizes,  \* the nbytes arguments of read considered
    Positions,  \* the positions a pass may start at
    Bytes,      \* first bytes of a written buffer
    MayFault    \* may the buffer of a process be unmapped?

ASSUME MsgLenAssumption == MsgLen \in [{0, 1} -> Nat]
ASSUME ReadSizesAssumption == ReadSizes \subseteq Nat
ASSUME PositionsAssumption == Positions \subseteq Nat
ASSUME BytesAssumption == Bytes \subseteq 0..255
ASSUME ThroughAssumption == Own \notin Readers /\ Through \in [Writers -> Readers \cup {Own}]
ASSUME MayFaultAssumption == MayFault \in BOOLEAN

VARIABLES
    enabled,  \* the module's switch
    f_pos,    \* position of each open file that is read
    rpc,      \* where each reader is in read
    pos,      \* its local copy of the position; 0 outside of read
    nbytes,   \* its argument nbytes
    s,        \* the message its local variable s points to
    eof,      \* its last call, a new one not having begun, returned 0
    wpc,      \* where each writer is: not in write, in it, killed in it
    wpos,     \* its local copy of the position; 0 outside of write
    poslock,  \* does this kernel lock the position of a shared open file?
    start,    \* history: the position its pass started at
    upto,     \* history: the position after the last byte its pass got
    from,     \* history: the messages its pass got bytes from
    over,     \* history: a call copied bytes behind the end of its message
    stable    \* history: enabled has not changed since its pass started

readVars  == <<rpc, pos, nbytes, s, eof>>
writeVars == <<wpc, wpos>>
histVars  == <<start, upto, from, over, stable>>
vars      == <<enabled, f_pos, readVars, writeVars, poslock, histVars>>

\* One type invariant for the whole component.
TypeOK ==
    /\ enabled \in {0, 1}
    /\ f_pos \in [Readers -> Nat]
    /\ rpc \in [Readers -> {"idle", "in", "chosen"}]
    /\ pos \in [Readers -> Nat]
    /\ nbytes \in [Readers -> Nat]
    /\ s \in [Readers -> {0, 1}]
    /\ eof \in [Readers -> BOOLEAN]
    /\ wpc \in [Writers -> {"idle", "in", "written", "killed"}]
    /\ wpos \in [Writers -> Nat]
    /\ poslock \in BOOLEAN
    /\ start \in [Readers -> Nat]
    /\ upto \in [Readers -> Nat]
    /\ from \in [Readers -> SUBSET {0, 1}]
    /\ over \in [Readers -> BOOLEAN]
    /\ stable \in [Readers -> BOOLEAN]

-----------------------------------------------------------------------------
\* Some writer is, or was when it died, inside write(2) on r's open file.
WriterInside(r) == \E w \in Writers : Through[w] = r /\ wpc[w] # "idle"

\* The reader of r gets the lock of its open file, if this kernel has one.
fdget_pos(r) == poslock => ~WriterInside(r)

\* How many bytes simple_read_from_buffer copies from a buffer that holds
\* available bytes, and thereby how far it moves the position.
simple_read_from_buffer(count, ppos, available) ==
    IF ppos >= available THEN 0
    ELSE IF count > available - ppos THEN available - ppos
    ELSE count

\* The reader moves to another position.
StartPass(r, p) ==
    /\ rpc[r] = "idle"
    /\ fdget_pos(r)
    /\ f_pos' = [f_pos EXCEPT ![r] = p]
    /\ eof' = [eof EXCEPT ![r] = FALSE]
    /\ start' = [start EXCEPT ![r] = p]
    /\ upto' = [upto EXCEPT ![r] = p]
    /\ from' = [from EXCEPT ![r] = {}]
    /\ stable' = [stable EXCEPT ![r] = TRUE]
    /\ UNCHANGED <<enabled, rpc, pos, nbytes, s, writeVars, poslock, over>>

\* read(2) fetches the position.
sys_read(r, n) ==
    /\ rpc[r] = "idle"
    /\ fdget_pos(r)
    /\ rpc' = [rpc EXCEPT ![r] = "in"]
    /\ pos' = [pos EXCEPT ![r] = f_pos[r]]
    /\ nbytes' = [nbytes EXCEPT ![r] = n]
    /\ eof' = [eof EXCEPT ![r] = FALSE]
    /\ UNCHANGED <<enabled, f_pos, s, writeVars, poslock, histVars>>

\* A slip: only a call at the beginning of the file chooses.
aufs_file_read_choose_Stale(r) ==
    /\ rpc[r] = "in"
    /\ rpc' = [rpc EXCEPT ![r] = "chosen"]
    /\ s' = [s EXCEPT ![r] = IF pos[r] = 0 THEN enabled ELSE @]
    /\ UNCHANGED <<enabled, f_pos, pos, nbytes, eof, writeVars, poslock, histVars>>

\* aufs_file_read chooses the message.
aufs_file_read_choose(r) ==
    /\ rpc[r] = "in"
    /\ rpc' = [rpc EXCEPT ![r] = "chosen"]
    /\ s' = [s EXCEPT ![r] = enabled]
    /\ UNCHANGED <<enabled, f_pos, pos, nbytes, eof, writeVars, poslock, histVars>>

\* A slip: the length is taken from the switch again, not from s.
aufs_file_read_copy_AgainLen(r) ==
    LET n == simple_read_from_buffer(nbytes[r], pos[r], MsgLen[enabled])
    IN  /\ rpc[r] = "chosen"
        /\ rpc' = [rpc EXCEPT ![r] = "idle"]
        /\ f_pos' = [f_pos EXCEPT ![r] = pos[r] + n]
        /\ pos' = [pos EXCEPT ![r] = 0]
        /\ eof' = [eof EXCEPT ![r] = n = 0 /\ nbytes[r] > 0]
        /\ upto' = [upto EXCEPT ![r] = IF n > 0 THEN pos[r] + n ELSE @]
        /\ from' = [from EXCEPT ![r] = IF n > 0 THEN @ \cup {s[r]} ELSE @]
        /\ over' = [over EXCEPT ![r] = @ \/ (n > 0 /\ pos[r] + n > MsgLen[s[r]])]
        /\ UNCHANGED <<enabled, nbytes, s, writeVars, poslock, start, stable>>

\* A slip: a reader behind the end starts again at the beginning.
aufs_file_read_copy_Wrap(r) ==
    LET p == IF pos[r] >= MsgLen[s[r]] THEN 0 ELSE pos[r]
        n == simple_read_from_buffer(nbytes[r], p, MsgLen[s[r]])
    IN  /\ rpc[r] = "chosen"
        /\ rpc' = [rpc EXCEPT ![r] = "idle"]
        /\ f_pos' = [f_pos EXCEPT ![r] = p + n]
        /\ pos' = [pos EXCEPT ![r] = 0]
        /\ eof' = [eof EXCEPT ![r] = n = 0 /\ nbytes[r] > 0]
        /\ UNCHANGED <<enabled, nbytes, s, writeVars, poslock, histVars>>

\* ... and, dump_stack done, copies from it; read(2) stores the position the
\* copy has moved on.
aufs_file_read_copy(r) ==
    LET n == simple_read_from_buffer(nbytes[r], pos[r], MsgLen[s[r]])
    IN  /\ rpc[r] = "chosen"
        /\ rpc' = [rpc EXCEPT ![r] = "idle"]
        /\ f_pos' = [f_pos EXCEPT ![r] = pos[r] + n]
        /\ pos' = [pos EXCEPT ![r] = 0]
        /\ eof' = [eof EXCEPT ![r] = n = 0 /\ nbytes[r] > 0]
        /\ upto' = [upto EXCEPT ![r] = IF n > 0 THEN pos[r] + n ELSE @]
        /\ from' = [from EXCEPT ![r] = IF n > 0 THEN @ \cup {s[r]} ELSE @]
        /\ over' = [over EXCEPT ![r] = @ \/ (n > 0 /\ pos[r] + n > MsgLen[s[r]])]
        /\ UNCHANGED <<enabled, nbytes, s, writeVars, poslock, start, stable>>

\* ... or copy_to_user fails: -EFAULT, and read(2) stores the position it found.
aufs_file_read_fault(r) ==
    /\ MayFault
    /\ rpc[r] = "chosen"
    /\ simple_read_from_buffer(nbytes[r], pos[r], MsgLen[s[r]]) > 0
    /\ rpc' = [rpc EXCEPT ![r] = "idle"]
    /\ f_pos' = [f_pos EXCEPT ![r] = pos[r]]
    /\ pos' = [pos EXCEPT ![r] = 0]
    /\ UNCHANGED <<enabled, nbytes, s, eof, writeVars, poslock, histVars>>

\* write(2) fetches the position of the open file, which may be a reader's.
sys_write(w) ==
    LET r == Through[w]
    IN  /\ wpc[w] = "idle"
        /\ poslock /\ r # Own => rpc[r] = "idle" /\ ~WriterInside(r)
        /\ wpc' = [wpc EXCEPT ![w] = "in"]
        /\ wpos' = [wpos EXCEPT ![w] = IF r = Own THEN 0 ELSE f_pos[r]]
        /\ UNCHANGED <<enabled, f_pos, readVars, poslock, histVars>>

\* A slip: the switch gets the difference itself.
aufs_file_write_Raw(w, b) ==
    /\ wpc[w] = "in"
    /\ enabled' = b - 48
    /\ stable' = [r \in Readers |-> stable[r] /\ enabled' = enabled]
    /\ wpc' = [wpc EXCEPT ![w] = "written"]
    /\ UNCHANGED <<f_pos, readVars, wpos, poslock, start, upto, from, over>>

\* A slip: the position is moved over what was written.
aufs_file_write_Moves(w, b) ==
    /\ wpc[w] = "in"
    /\ enabled' = IF b # 48 THEN 1 ELSE 0
    /\ stable' = [r \in Readers |-> stable[r] /\ enabled' = enabled]
    /\ wpc' = [wpc EXCEPT ![w] = "written"]
    /\ wpos' = [wpos EXCEPT ![w] = @ + 1]
    /\ UNCHANGED <<f_pos, readVars, poslock, start, upto, from, over>>

\* aufs_file_write stores what the first byte says and reports that it wrote
\* everything.  It reads that byte whatever count is, and moves no position.
aufs_file_write(w, b) ==
    LET res == b - 48
    IN  /\ wpc[w] = "in"
        /\ enabled' = IF res # 0 THEN 1 ELSE 0
        /\ stable' = [r \in Readers |-> stable[r] /\ enabled' = enabled]
        /\ wpc' = [wpc EXCEPT ![w] = "written"]
        /\ UNCHANGED <<f_pos, readVars, wpos, poslock, start, upto, from, over>>

\* ... or reading the byte faults: the writer is killed where it stands.
aufs_file_write_oops(w) ==
    /\ MayFault
    /\ wpc[w] = "in"
    /\ wpc' = [wpc EXCEPT ![w] = "killed"]
    /\ UNCHANGED <<enabled, f_pos, readVars, wpos, poslock, histVars>>

\* write(2) stores the position it found on entry, wherever it is by now.
sys_write_return(w) ==
    /\ wpc[w] = "written"
    /\ wpc' = [wpc EXCEPT ![w] = "idle"]
    /\ f_pos' = [r \in Readers |-> IF Through[w] = r THEN wpos[w] ELSE f_pos[r]]
    /\ wpos' = [wpos EXCEPT ![w] = 0]
    /\ UNCHANGED <<enabled, readVars, poslock, histVars>>

-----------------------------------------------------------------------------
Init ==
    /\ enabled = 1
    /\ f_pos = [r \in Readers |-> 0]
    /\ rpc = [r \in Readers |-> "idle"]
    /\ pos = [r \in Readers |-> 0]
    /\ nbytes = [r \in Readers |-> 0]
    /\ s = [r \in Readers |-> 1]
    /\ eof = [r \in Readers |-> FALSE]
    /\ wpc = [w \in Writers |-> "idle"]
    /\ wpos = [w \in Writers |-> 0]
    /\ poslock \in BOOLEAN
    /\ start = [r \in Readers |-> 0]
    /\ upto = [r \in Readers |-> 0]
    /\ from = [r \in Readers |-> {}]
    /\ over = [r \in Readers |-> FALSE]
    /\ stable = [r \in Readers |-> TRUE]

Read(r)     == \E n \in ReadSizes : sys_read(r, n)
ReadSome(r) == \E n \in ReadSizes \ {0} : sys_read(r, n)
InRead(r)   == \/ aufs_file_read_choose(r)
               \/ aufs_file_read_copy(r)
               \/ aufs_file_read_fault(r)
Seek(r)     == \E p \in Positions : StartPass(r, p)
InWrite(w)  == \/ \E b \in Bytes : aufs_file_write(w, b)
               \/ aufs_file_write_oops(w)
               \/ sys_write_return(w)

Next ==
    \/ \E r \in Readers : Seek(r) \/ Read(r) \/ InRead(r)
    \/ \E w \in Writers : sys_write(w) \/ InWrite(w)

Spec == Init /\ [][Next]_vars

\* A reader that keeps reading: it calls read with room for bytes again and
\* again, and waiters for f_pos_lock are served in turn; a call that does not
\* wait returns, or kills its process.  Nobody has to call write.
FairSpec ==
    /\ Spec
    /\ \A w \in Writers : WF_vars(InWrite(w))
    /\ \A r \in Readers : SF_vars(ReadSome(r)) /\ WF_vars(InRead(r))

-----------------------------------------------------------------------------
(***************************************************************************)
(* Properties.                                                             *)
(***************************************************************************)

\* However a write falls between the choice of the message and the copy, and
\* wherever the position was left by the other message, no call copies bytes
\* from behind the end of the message it chose (the two lengths differ).
NoOverread == \A r \in Readers : ~over[r]

\* Nobody else changes the position of r: no writer shares its open file, or
\* this kernel locks it.
PositionIsMine(r) == poslock \/ \A w \in Writers : Through[w] # r

\* A reader that needs several calls may get the head of one message and the
\* tail of the other (file.h:57).  Even then, if nobody else changes its
\* position, no byte is missing or comes twice: each call goes on where the
\* bytes before ended, whatever calls failed and whoever wrote in between, and
\* the end is reported behind the end of the message chosen last, not sooner.
SeamlessPass ==
    \A r \in Readers :
        PositionIsMine(r) =>
            /\ f_pos[r] = upto[r]
            /\ rpc[r] # "idle" => pos[r] = upto[r]
            /\ eof[r] => upto[r] >= MsgLen[s[r]]

\* A pass that gets to the end has delivered one message only, from its start
\* position to its end, if nobody changed the switch or its position: a
\* mixture or a hole can only come from a write.
WholeMessage ==
    \A r \in Readers :
        PositionIsMine(r) /\ stable[r] /\ eof[r] =>
            /\ from[r] \subseteq {enabled}
            /\ upto[r] = IF start[r] > MsgLen[enabled] THEN start[r]
                                                        ELSE MsgLen[enabled]

\* A write(2) through r's open file sets its position back.
SetBack(r) ==
    /\ f_pos'[r] < f_pos[r]
    /\ \E w \in Writers : Through[w] = r /\ sys_write_return(w)

\* A process that reads on gets to the end of the file, even if others flip
\* the switch between two messages of different length all the time, unless
\* it moves away, its buffer keeps failing or, where the position is not
\* locked, writes through its open file keep setting it back.  A writer that
\* dies in aufs_file_write (file.h:64) can stop it only where it died holding
\* the lock of the very open file the reader uses.
ReaderReachesEnd ==
    \A r \in Readers :
        \/ []<>eof[r]
        \/ []<><<Seek(r)>>_vars
        \/ []<><<aufs_file_read_fault(r)>>_vars
        \/ ~poslock /\ []<><<SetBack(r)>>_vars
        \/ <>(poslock /\ \E w \in Writers : Through[w] = r /\ wpc[w] = "killed")
=============================================================================
