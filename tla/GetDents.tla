------------------------------ MODULE GetDents ------------------------------
(***************************************************************************)
(* sys_getdents64 on one open directory (api/src/imp/fs/ctl.rs), with the  *)
(* entry that did not fit kept in Directory::last_dirent                   *)
(* (api/src/file/fs.rs).                                                   *)
(*                                                                         *)
(* The call holds the lock of last_dirent from its start to its end, so    *)
(* calls on one directory follow one another; the steps below are those of *)
(* the call in progress.  An entry is its number; name_len gives its size. *)
(***************************************************************************)
EXTENDS Integers, Sequences, FiniteSetsExt

CONSTANTS NameLens,   \* lengths of file names
          MaxEntries, \* directories have up to MaxEntries entries (bound)
          BufLens     \* buffer sizes programs use

NAME_OFFSET == 19  \* offset_of!(linux_dirent64, d_name)
ALIGN == 8         \* align_of::<linux_dirent64>()

DirConstants == NameLens \subseteq Nat /\ MaxEntries \in Nat /\ BufLens \subseteq Nat

ASSUME DirAssumption == DirConstants

VARIABLES dir,         \* dir[i]: the length of the name of entry i
          pos,         \* entries that read_dir has returned
          last_dirent, \* the entry that did not fit, or 0
          buf_len, offset,
          written,     \* entries in the buffer of the call in progress
          given,       \* entries the program has been given so far
          step, ret,     \* ret: what the last call returned
          failed       \* read_dir has failed in some call
dirvars == << dir, pos, last_dirent, buf_len, offset, written, given, step, ret, failed >>

EINVAL == -22
EIO == -5

DirInit ==
    /\ dir \in UNION {[1 .. n -> NameLens] : n \in 0 .. MaxEntries}
    /\ pos = 0 /\ last_dirent = 0
    /\ buf_len = 0 /\ offset = 0 /\ written = << >>
    /\ given = << >>
    /\ step = "user" /\ ret = -1 /\ failed = FALSE

\* next_multiple_of the alignment of header, name and terminating zero.
EntryLen(i) == ((NAME_OFFSET + dir[i] + 1 + ALIGN - 1) \div ALIGN) * ALIGN

\* Mutant: the terminating zero and the padding are forgotten.
Fits_unpadded(i) == buf_len - offset >= NAME_OFFSET + dir[i]

\* Mutant: an entry that fills the buffer exactly is refused.
Fits_strict(i) == buf_len - offset > ((NAME_OFFSET + dir[i] + 1 + ALIGN - 1) \div ALIGN) * ALIGN

\* DirBuffer::remaining_space, a saturating subtraction.
remaining_space == IF offset < buf_len THEN buf_len - offset ELSE 0

\* The check of DirBuffer::write_entry.
Fits(i) == remaining_space >= EntryLen(i)

\* DirBuffer::write_entry of an entry that fits.
write_entry(i) ==
    /\ written' = Append(written, i)
    /\ offset' = offset + EntryLen(i)
-----------------------------------------------------------------------------
Begin(n) ==
    /\ step = "user"
    /\ buf_len' = n /\ offset' = 0 /\ written' = << >>
    /\ step' = "first"
    /\ UNCHANGED << dir, pos, last_dirent, given, ret, failed >>

\* Mutant: the kept entry is dropped when it does not fit.
TakeLast_dropped ==
    /\ step = "first" /\ last_dirent # 0
    /\ last_dirent' = 0
    /\ IF Fits(last_dirent)
       THEN write_entry(last_dirent) /\ step' = "loop" /\ UNCHANGED ret
       ELSE step' = "user" /\ ret' = EINVAL /\ UNCHANGED << written, offset >>
    /\ UNCHANGED << dir, pos, buf_len, given, failed >>

\* The kept entry goes first; when it does not fit it is kept again.
TakeLast ==
    /\ step = "first" /\ last_dirent # 0
    /\ IF Fits(last_dirent)
       THEN /\ write_entry(last_dirent)
            /\ last_dirent' = 0 /\ step' = "loop" /\ UNCHANGED ret
       ELSE step' = "user" /\ ret' = EINVAL /\ UNCHANGED << written, offset, last_dirent >>
    /\ UNCHANGED << dir, pos, buf_len, given, failed >>

NoLast ==
    /\ step = "first" /\ last_dirent = 0
    /\ step' = "loop"
    /\ UNCHANGED << dir, pos, last_dirent, buf_len, offset, written, given, ret, failed >>

\* read_dir returns the next entry; the first that does not fit is kept.
ReadDir ==
    /\ step = "loop" /\ pos < Len(dir)
    /\ pos' = pos + 1
    /\ IF Fits(pos + 1)
       THEN write_entry(pos + 1) /\ UNCHANGED << last_dirent, step >>
       ELSE last_dirent' = pos + 1 /\ step' = "end" /\ UNCHANGED << written, offset >>
    /\ UNCHANGED << dir, buf_len, given, ret, failed >>

ReadDirEnd ==
    /\ step = "loop" /\ pos = Len(dir)
    /\ step' = "end"
    /\ UNCHANGED << dir, pos, last_dirent, buf_len, offset, written, given, ret, failed >>

\* A failing read_dir ends the call at once: what the call has already
\* written to the buffer is not counted in a return value.
ReadDirError ==
    /\ step = "loop"
    /\ step' = "user" /\ ret' = EIO /\ failed' = TRUE
    /\ UNCHANGED << dir, pos, last_dirent, buf_len, offset, written, given >>

End ==
    /\ step = "end"
    /\ step' = "user"
    /\ IF last_dirent # 0 /\ offset = 0
       THEN ret' = EINVAL /\ UNCHANGED given
       ELSE ret' = offset /\ given' = given \o written
    /\ UNCHANGED << dir, pos, last_dirent, buf_len, offset, written, failed >>

Step == TakeLast \/ NoLast \/ ReadDir \/ ReadDirEnd \/ ReadDirError \/ End
DirNext == Step \/ \E n \in BufLens : Begin(n)

DirSpec == DirInit /\ [][DirNext]_dirvars
\* A call goes on; the program calls again with its largest buffer.
DirFairSpec == DirSpec /\ WF_dirvars(Step) /\ SF_dirvars(Begin(Max(BufLens)))
-----------------------------------------------------------------------------
(* Properties *)

\* Every variable has the shape its declaration comment says.
DirTypeOK ==
    /\ dir \in Seq(NameLens) /\ pos \in 0 .. Len(dir)
    /\ last_dirent \in 0 .. Len(dir)
    /\ buf_len \in Nat /\ offset \in Nat
    /\ written \in Seq(1 .. Len(dir)) /\ given \in Seq(1 .. Len(dir))
    /\ step \in {"user", "first", "loop", "end"}
    /\ ret \in {-1, EINVAL, EIO} \cup Nat /\ failed \in BOOLEAN

Upto(n) == [i \in 1 .. n |-> i]
Kept == IF last_dirent = 0 THEN << >> ELSE << last_dirent >>

\* While read_dir does not fail, between calls what was given and what is kept
\* are the entries read_dir returned: each exactly once and in order, across any
\* sequence of buffer sizes and EINVAL returns.  After a failure, which loses the
\* entries of its call, still none is given twice or out of order.  A return
\* of 0 without a failure means that all entries have been given.
NoEntryLost ==
    /\ step = "user" /\ ~failed => given \o Kept = Upto(pos)
    /\ \A i, j \in 1 .. Len(given) : i < j => given[i] < given[j]
    /\ step = "user" /\ ret = 0 /\ ~failed => given = Upto(Len(dir))

\* The entries written to the buffer end inside it.
NeverPastBuffer == DirTypeOK /\ offset <= buf_len

\* A program that goes on calling with a buffer in which every entry fits is
\* given the whole directory, if read_dir does not fail.
AllGiven == <>(failed \/ given = Upto(Len(dir)))
=============================================================================
