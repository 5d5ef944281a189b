-------------------------- MODULE HardLinksProofs --------------------------
(***************************************************************************)
(* The reference counts of the hard links are exact for any set of paths   *)
(* and any number of threads.  Then, for directories, names and buffers of *)
(* any size, getdents64 gives every entry once and writes inside its       *)
(* buffer (module GetDents).                                               *)
(***************************************************************************)
EXTENDS HardLinks, GetDents, Sequences, SequenceTheorems, FiniteSetTheorems, TLAPS

\* The links to d.
LinksTo(d) == {s \in Paths : links[s] = d}

Counts == \A d \in Paths : ref_counts[d] = Cardinality(LinksTo(d))

\* Sets of paths are finite; one more or one less is counted as such.
LEMMA Counting ==
    ASSUME NEW S \in SUBSET Paths, NEW s
    PROVE  /\ Cardinality(S) \in Nat
           /\ s \in S => /\ Cardinality(S) > 0
                         /\ Cardinality(S \ {s}) = Cardinality(S) - 1
           /\ s \notin S => Cardinality(S \cup {s}) = Cardinality(S) + 1
<1>1. IsFiniteSet(S)
    BY Zenon, PathsAssumption, FS_Subset
<1>2. Cardinality(S) \in Nat
    BY Zenon, <1>1, FS_CardinalityType
<1>3. s \in S => Cardinality(S \ {s}) = Cardinality(S) - 1
    BY Zenon, <1>1, FS_RemoveElement
<1>4. s \in S => Cardinality(S) > 0
    BY <1>1, <1>2, FS_EmptySet
<1>5. s \notin S => Cardinality(S \cup {s}) = Cardinality(S) + 1
    BY Zenon, <1>1, FS_AddElement
<1>6. QED
    BY Zenon, <1>2, <1>3, <1>4, <1>5

\* Pointing link s to d moves one reference; d is NoPath when s is removed.
LEMMA Moved ==
    ASSUME TypeOK, Counts, NEW s \in Paths, NEW d \in Paths \cup {NoPath}, links[s] # d,
           links' = [links EXCEPT ![s] = d],
           ref_counts' = [p \in Paths |->
               ref_counts[p] + (IF p = d THEN 1 ELSE 0) - (IF p = links[s] THEN 1 ELSE 0)]
    PROVE  Counts' /\ ref_counts' \in [Paths -> Nat] /\ links' \in [Paths -> Paths \cup {NoPath}]
<1>1. links' \in [Paths -> Paths \cup {NoPath}] /\ links'[s] = d
      /\ \A p \in Paths : p # s => links'[p] = links[p]
    BY Zenon DEF TypeOK
<1>2. ASSUME NEW p \in Paths
      PROVE  ref_counts'[p] \in Nat /\ ref_counts'[p] = Cardinality(LinksTo(p)')
  <2>1. ref_counts[p] = Cardinality(LinksTo(p)) /\ LinksTo(p) \in SUBSET Paths
      BY Zenon DEF Counts, LinksTo
  <2>2. ref_counts'[p] = ref_counts[p] + (IF p = d THEN 1 ELSE 0) - (IF p = links[s] THEN 1 ELSE 0)
      BY Zenon
  <2> DEFINE S == LinksTo(p)
  <2>0. /\ ref_counts[p] \in Nat /\ ref_counts[p] = Cardinality(S)
        /\ s \in S => Cardinality(S) > 0 /\ Cardinality(S \ {s}) = Cardinality(S) - 1
        /\ s \notin S => Cardinality(S \cup {s}) = Cardinality(S) + 1
      BY Zenon, <2>1, Counting DEF TypeOK
  <2> HIDE DEF S
  <2>3. CASE p = d
    <3>1. LinksTo(p)' = S \cup {s} /\ s \notin S
        BY Zenon, <1>1, <2>3 DEF LinksTo, S
    <3>2. ref_counts'[p] = ref_counts[p] + 1
        BY <2>0, <2>2, <2>3
    <3>3. QED
        BY <2>0, <3>1, <3>2
  <2>4. CASE p = links[s]
    <3>1. LinksTo(p)' = S \ {s} /\ s \in S
        BY Zenon, <1>1, <2>4 DEF LinksTo, S
    <3>2. ref_counts'[p] = ref_counts[p] - 1
        BY <2>0, <2>2, <2>4
    <3>3. QED
        BY <2>0, <3>1, <3>2
  <2>5. CASE p # d /\ p # links[s]
    <3>1. LinksTo(p)' = S
        BY Zenon, <1>1, <2>5 DEF LinksTo, S
    <3>2. QED
        BY <2>0, <2>2, <2>5, <3>1
  <2>6. QED
      BY Zenon, <2>3, <2>4, <2>5
<1>3. QED
    BY Zenon, <1>1, <1>2 DEF Counts

\* The two operations on the tables of the link manager.
LEMMA TableOps ==
    ASSUME TypeOK, Counts, NEW s \in Paths, NEW d \in Paths,
           atomic_link_update(s, d) \/ remove_link(s)
    PROVE  /\ Counts' /\ ref_counts' \in [Paths -> Nat]
           /\ links' \in [Paths -> Paths \cup {NoPath}] /\ fs' \in SUBSET Paths
<1>1. fs' \in SUBSET Paths
    BY Zenon DEF TypeOK, atomic_link_update, remove_link, remove_file
<1>2. CASE UNCHANGED << links, ref_counts >>
    BY Zenon, <1>1, <1>2 DEF Counts, LinksTo, TypeOK
<1>3. CASE atomic_link_update(s, d) /\ links[s] # d
    BY <1>1, <1>3, Moved DEF atomic_link_update
<1>4. CASE remove_link(s) /\ links[s] # NoPath
  <2>1. ref_counts' = [ref_counts EXCEPT ![links[s]] = @ - 1]
        /\ links' = [links EXCEPT ![s] = NoPath]
      BY Zenon, <1>4 DEF remove_link
  <2>2. \A p \in Paths : p # NoPath /\ ref_counts[p] \in Nat
      BY Zenon, PathsAssumption DEF TypeOK
  <2>3. ref_counts' = [p \in Paths |->
            ref_counts[p] + (IF p = NoPath THEN 1 ELSE 0) - (IF p = links[s] THEN 1 ELSE 0)]
    <3>1. ref_counts' = [p \in Paths |-> IF p = links[s] THEN ref_counts[p] - 1 ELSE ref_counts[p]]
        BY Zenon, <2>1 DEF TypeOK
    <3>2. \A p \in Paths :
              (IF p = links[s] THEN ref_counts[p] - 1 ELSE ref_counts[p])
              = ref_counts[p] + (IF p = NoPath THEN 1 ELSE 0) - (IF p = links[s] THEN 1 ELSE 0)
        BY <2>2
    <3>3. QED
        BY Zenon, <3>1, <3>2
  <2>4. NoPath \in Paths \cup {NoPath}
      BY Zenon
  <2>5. Counts' /\ ref_counts' \in [Paths -> Nat] /\ links' \in [Paths -> Paths \cup {NoPath}]
      BY ZenonT(30), <1>4, <2>1, <2>3, <2>4, Moved
  <2>6. QED
      BY Zenon, <1>1, <2>5
<1>5. QED
    BY Zenon, <1>2, <1>3, <1>4 DEF atomic_link_update, remove_link

LEMMA Initially == Init => TypeOK /\ Counts
<1> SUFFICES ASSUME Init PROVE TypeOK /\ Counts
    BY Zenon
<1>1. TypeOK
    BY Zenon DEF Init, TypeOK
<1>2. \A d \in Paths : LinksTo(d) = {}
    BY Zenon, PathsAssumption DEF Init, LinksTo
<1>3. QED
    BY Zenon, <1>1, <1>2, FS_EmptySet DEF Init, Counts

Labels == {"user", "link_new", "link_check", "link_update", "unlink_check", "unlink_remove"}

\* A call returns to user mode with its locals gone.
LEMMA ReturnTyped ==
    ASSUME TypeOK, NEW t \in Threads, Return(t), fs' \in SUBSET Paths,
           links' \in [Paths -> Paths \cup {NoPath}], ref_counts' \in [Paths -> Nat]
    PROVE  TypeOK'
<1>1. /\ pc' \in [Threads -> Labels] /\ path' \in [Threads -> Paths \cup {NoPath}]
      /\ src' \in [Threads -> Paths \cup {NoPath}]
    BY Zenon DEF Return, Goto, TypeOK, Labels
<1>2. \A u \in Threads : pc'[u] # "user" => pc'[u] = pc[u] /\ path'[u] = path[u] /\ src'[u] = src[u]
    BY Zenon DEF Return, Goto, TypeOK
<1>3. QED
    BY Zenon, <1>1, <1>2 DEF TypeOK, Labels

\* A call that only resolves, checks or returns, and the calls that create and
\* remove files, keep the counts.
LEMMA OtherSteps ==
    ASSUME TypeOK, Counts, NEW t \in Threads, NEW p \in Paths,
           \/ LinkOld(t, p) \/ LinkNew(t, p) \/ LinkCheck(t) \/ UnlinkResolve(t, p)
           \/ UnlinkCheck(t) \/ RemoveDir(t, p) \/ Create(t, p) \/ UNCHANGED vars
    PROVE  TypeOK' /\ Counts'
<1>1. UNCHANGED << links, ref_counts >>
    BY Zenon DEF LinkOld, LinkNew, LinkCheck, UnlinkResolve, UnlinkCheck, RemoveDir, Create, vars
<1>2. Counts' /\ ref_counts' \in [Paths -> Nat] /\ links' \in [Paths -> Paths \cup {NoPath}]
    BY Zenon, <1>1 DEF Counts, LinksTo, TypeOK
<1>3. \A q \in Paths : real_path(q) \in Paths
    BY Zenon DEF real_path, TypeOK
<1>4. CASE LinkOld(t, p) \/ LinkNew(t, p) \/ UnlinkResolve(t, p)
  <2>1. \E l \in Labels : Goto(t, l)
      BY Zenon, <1>4 DEF LinkOld, LinkNew, UnlinkResolve, Labels
  <2>2. pc' \in [Threads -> Labels]
      BY Zenon, <2>1 DEF Goto, TypeOK, Labels
  <2>3. /\ path' \in [Threads -> Paths \cup {NoPath}] /\ src' \in [Threads -> Paths \cup {NoPath}]
        /\ fs' = fs
      BY Zenon, <1>3, <1>4 DEF LinkOld, LinkNew, UnlinkResolve, TypeOK
  <2>4. ASSUME NEW u \in Threads
        PROVE  /\ pc'[u] # "user" => path'[u] \in Paths
               /\ pc'[u] \in {"link_check", "link_update"} => src'[u] \in Paths
    <3>1. CASE LinkOld(t, p) \/ UnlinkResolve(t, p)
        BY <1>3, <3>1 DEF LinkOld, UnlinkResolve, Goto, TypeOK
    <3>2. CASE LinkNew(t, p)
        BY Zenon, <1>3, <3>2 DEF LinkNew, Goto, TypeOK
    <3>3. QED
        BY Zenon, <1>4, <3>1, <3>2
  <2>5. QED
      BY Zenon, <1>1, <1>2, <2>2, <2>3, <2>4 DEF TypeOK, Labels
<1>5. CASE LinkCheck(t) \/ UnlinkCheck(t)
  <2>0. fs' \in SUBSET Paths
      BY Zenon, <1>5 DEF LinkCheck, UnlinkCheck, TypeOK
  <2>1. CASE Return(t)
      BY Zenon, <1>2, <2>0, <2>1, ReturnTyped
  <2>2. CASE /\ UNCHANGED << path, src >>
             /\ \/ pc[t] = "link_check" /\ pc' = [pc EXCEPT ![t] = "link_update"]
                \/ pc[t] = "unlink_check" /\ pc' = [pc EXCEPT ![t] = "unlink_remove"]
    <3>1. pc' \in [Threads -> Labels]
        BY Zenon, <2>2 DEF TypeOK, Labels
    <3>2. \A u \in Threads : /\ pc'[u] # "user" => pc[u] # "user"
                             /\ pc'[u] \in {"link_check", "link_update"}
                                   => pc[u] \in {"link_check", "link_update"}
        BY Zenon, <2>2 DEF TypeOK
    <3>3. QED
        BY Zenon, <1>2, <2>0, <2>2, <3>1, <3>2 DEF TypeOK, Labels
  <2>3. QED
      BY Zenon, <1>5, <2>1, <2>2 DEF LinkCheck, UnlinkCheck, Goto
<1>6. CASE RemoveDir(t, p) \/ Create(t, p) \/ UNCHANGED vars
  <2>1. fs' \in SUBSET Paths /\ UNCHANGED << pc, path, src >>
      BY Zenon, <1>3, <1>6 DEF RemoveDir, Create, vars, TypeOK
  <2>2. QED
      BY Zenon, <1>1, <1>2, <2>1 DEF TypeOK
<1>7. QED
    BY Zenon, <1>4, <1>5, <1>6

LEMMA LinkStep == TypeOK /\ Counts /\ [Next]_vars => TypeOK' /\ Counts'
<1> SUFFICES ASSUME TypeOK, Counts, [Next]_vars PROVE TypeOK' /\ Counts'
    BY Zenon
<1>1. ASSUME NEW t \in Threads, LinkUpdate(t) \/ UnlinkRemove(t)
      PROVE  TypeOK' /\ Counts'
  <2> DEFINE s == IF LinkUpdate(t) THEN src[t] ELSE path[t]
  <2>1. s \in Paths /\ path[t] \in Paths
        /\ (atomic_link_update(s, path[t]) \/ remove_link(s))
      BY Zenon, <1>1 DEF LinkUpdate, UnlinkRemove, TypeOK
  <2> HIDE DEF s
  <2>2. /\ Counts' /\ ref_counts' \in [Paths -> Nat]
        /\ links' \in [Paths -> Paths \cup {NoPath}] /\ fs' \in SUBSET Paths
      BY Zenon, <2>1, TableOps
  <2>3. Return(t)
      BY Zenon, <1>1 DEF LinkUpdate, UnlinkRemove
  <2>4. QED
      BY Zenon, <2>2, <2>3, ReturnTyped
<1>2. CASE \E t \in Threads : LinkCheck(t) \/ UnlinkCheck(t)
  <2>1. CASE Paths = {}
      BY Zenon, <1>2, <2>1 DEF LinkCheck, UnlinkCheck, TypeOK
  <2>2. QED
      BY Zenon, <1>2, <2>1, OtherSteps
<1>3. CASE \E t \in Threads, p \in Paths :
               \/ LinkOld(t, p) \/ LinkNew(t, p) \/ UnlinkResolve(t, p)
               \/ RemoveDir(t, p) \/ Create(t, p)
    BY Zenon, <1>3, OtherSteps
<1>4. CASE UNCHANGED vars
    BY Zenon, <1>4 DEF vars, TypeOK, Counts, LinksTo
<1>5. QED
    BY Zenon, <1>1, <1>2, <1>3, <1>4 DEF Next

\* The reference count of a target is the number of links to it, whatever calls
\* run between the resolution of a path and the update of the tables.
THEOREM CountsExact == Spec => []RefCountsExact
<1>1. TypeOK /\ Counts => RefCountsExact
    BY Zenon DEF Counts, LinksTo, RefCountsExact
<1>2. QED
    BY <1>1, Initially, LinkStep, PTL DEF Spec

-----------------------------------------------------------------------------
(* Reading a directory *)

\* The entries up to Top are given or in the buffer of the call; the one after
\* it, if any, is the entry that did not fit.
Top == IF last_dirent = 0 THEN pos ELSE pos - 1

\* The inductive invariant: the state of the call in progress, ...
CallState ==
    /\ DirTypeOK /\ offset <= buf_len
    /\ last_dirent # 0 => last_dirent = pos
    /\ step = "loop" => last_dirent = 0
    /\ step = "end" => last_dirent # 0 \/ pos = Len(dir)
    /\ step = "first" => Len(written) = 0
    /\ step # "user" => (offset = 0 <=> Len(written) = 0)
\* ... the order of what is given and written, which a failed read_dir keeps, ...
InOrder(s) == \A i, j \in 1 .. Len(s) : i < j => s[i] < s[j]
Ordered ==
    /\ InOrder(given) /\ \A i \in 1 .. Len(given) : given[i] <= Top
    /\ step # "user" =>
          /\ InOrder(written)
          /\ \A i \in 1 .. Len(written) :
                written[i] <= Top /\ \A j \in 1 .. Len(given) : given[j] < written[i]
\* ... and, while none has failed, that no entry is missing.
AllThere ==
    ~failed =>
        /\ \A i \in 1 .. Len(given) : given[i] = i
        /\ step = "user" => Len(given) = Top
        /\ step # "user" => /\ Len(given) + Len(written) = Top
                            /\ \A i \in 1 .. Len(written) : written[i] = Len(given) + i
ZeroEnds == step = "user" /\ ret = 0 /\ ~failed => Len(given) = Len(dir)
DirInv == CallState /\ Ordered /\ AllThere /\ ZeroEnds

\* The steps of the call leave the directory alone.
LEMMA DirTyped ==
    ASSUME DirTypeOK
    PROVE  /\ dir \in Seq(NameLens) /\ Len(dir) \in Nat /\ pos \in Nat /\ pos <= Len(dir)
           /\ last_dirent \in 0 .. Len(dir) /\ buf_len \in Nat /\ offset \in Nat
           /\ written \in Seq(Nat) /\ Len(written) \in Nat /\ given \in Seq(Nat) /\ Len(given) \in Nat
           /\ \A i \in 1 .. Len(written) : written[i] \in 1 .. Len(dir) /\ written[i] \in Nat
           /\ \A i \in 1 .. Len(given) : given[i] \in 1 .. Len(dir) /\ given[i] \in Nat
           /\ Top \in Int
<1>1. /\ dir \in Seq(NameLens) /\ Len(dir) \in Nat /\ pos \in 0 .. Len(dir)
      /\ last_dirent \in 0 .. Len(dir) /\ buf_len \in Nat /\ offset \in Nat
      /\ written \in Seq(1 .. Len(dir)) /\ given \in Seq(1 .. Len(dir))
  BY DEF DirTypeOK
<1>2. ASSUME NEW s \in Seq(1 .. Len(dir))
      PROVE  /\ s \in Seq(Nat) /\ Len(s) \in Nat
             /\ \A i \in 1 .. Len(s) : s[i] \in 1 .. Len(dir) /\ s[i] \in Nat
  BY <1>1
<1>3. pos \in Nat /\ pos <= Len(dir) BY <1>1
<1>4. Top \in Int BY <1>3 DEF Top
<1> QED BY Zenon, <1>1, <1>2, <1>3, <1>4

LEMMA DirStart == ASSUME DirConstants, DirInit PROVE DirInv
<1>1. PICK n \in 0 .. MaxEntries : dir \in [1 .. n -> NameLens] BY Zenon DEF DirInit
<1>2. n \in Nat BY <1>1 DEF DirConstants
<1>3. dir \in Seq(NameLens) /\ Len(dir) = n BY <1>1, <1>2
<1>4. /\ pos = 0 /\ last_dirent = 0 /\ buf_len = 0 /\ offset = 0 /\ written = << >> /\ given = << >>
      /\ step = "user" /\ ret = -1 /\ failed = FALSE
  BY Zenon DEF DirInit
<1>5. << >> \in Seq(1 .. Len(dir)) /\ Len(<< >>) = 0 OBVIOUS
<1>6. DirTypeOK
  <2>1. pos \in 0 .. Len(dir) /\ last_dirent \in 0 .. Len(dir) /\ buf_len \in Nat /\ offset \in Nat
    BY <1>2, <1>3, <1>4
  <2>2. written \in Seq(1 .. Len(dir)) /\ given \in Seq(1 .. Len(dir)) BY Zenon, <1>4, <1>5
  <2>3. /\ step \in {"user", "first", "loop", "end"}
        /\ ret \in {-1, EINVAL, EIO} \cup Nat /\ failed \in BOOLEAN
    BY Zenon, <1>4
  <2> QED BY Zenon, <2>1, <2>2, <2>3, <1>3 DEF DirTypeOK
<1>7. CallState BY <1>4, <1>6 DEF CallState
<1>8. Ordered /\ AllThere /\ ZeroEnds BY <1>4, <1>5 DEF Ordered, InOrder, AllThere, ZeroEnds, Top
<1> QED BY Zenon, <1>7, <1>8 DEF DirInv

\* An entry takes space.
LEMMA EntryLens ==
    ASSUME DirConstants, DirTypeOK, NEW e \in 1 .. Len(dir)
    PROVE  EntryLen(e) \in Nat /\ EntryLen(e) > 0
<1>1. dir \in Seq(NameLens) /\ NameLens \subseteq Nat BY Zenon DEF DirTypeOK, DirConstants
<1>2. dir[e] \in NameLens BY Zenon, <1>1, ElementOfSeq
<1>3. PICK n \in Nat : n = dir[e] BY Zenon, <1>1, <1>2
<1> QED BY <1>3 DEF EntryLen, NAME_OFFSET, ALIGN

\* An entry that fits goes to the end of the buffer, inside it.
LEMMA Written ==
    ASSUME DirConstants, CallState, NEW e \in 1 .. Len(dir), Fits(e), write_entry(e),
           buf_len' = buf_len
    PROVE  /\ offset' \in Nat /\ offset' > 0 /\ offset' <= buf_len'
           /\ written' \in Seq(1 .. Len(dir)) /\ Len(written') = Len(written) + 1
           /\ \A i \in 1 .. Len(written) : written'[i] = written[i]
           /\ written'[Len(written) + 1] = e
<1>0. DirTypeOK BY Zenon DEF CallState
<1>1. EntryLen(e) \in Nat /\ EntryLen(e) > 0 /\ offset \in Nat /\ buf_len \in Nat
  BY Zenon, <1>0, EntryLens, DirTyped
<1>2. offset' = offset + EntryLen(e) /\ written' = Append(written, e) BY Zenon DEF write_entry
<1>3. offset + EntryLen(e) <= buf_len BY <1>1 DEF Fits, remaining_space
<1>4. written \in Seq(1 .. Len(dir)) BY Zenon, <1>0 DEF DirTypeOK
<1>5. /\ written' \in Seq(1 .. Len(dir)) /\ Len(written') = Len(written) + 1
      /\ \A i \in 1 .. Len(written) : written'[i] = written[i]
      /\ written'[Len(written) + 1] = e
  BY <1>2, <1>4, AppendProperties
<1> QED BY <1>1, <1>2, <1>3, <1>5

LEMMA BeginKeepsDir ==
    ASSUME DirConstants, DirInv, NEW n \in BufLens, Begin(n)
    PROVE  DirInv'
<1>0. CallState /\ Ordered /\ AllThere /\ DirTypeOK BY Zenon DEF DirInv, CallState
<1>1. /\ step = "user" /\ buf_len' = n /\ offset' = 0 /\ written' = << >> /\ step' = "first"
      /\ UNCHANGED << dir, pos, last_dirent, given, ret, failed >>
  BY Zenon DEF Begin
<1>2. n \in Nat /\ Len(<< >>) = 0 /\ << >> \in Seq(1 .. Len(dir)) BY DEF DirConstants
<1>3. DirTypeOK' BY Zenon, <1>0, <1>1, <1>2 DEF DirTypeOK
<1>4. CallState' BY <1>0, <1>1, <1>2, <1>3 DEF CallState
<1>5. Top' = Top BY Zenon, <1>1 DEF Top
<1>6. Ordered' BY <1>0, <1>1, <1>2, <1>5 DEF Ordered, InOrder
<1>7. AllThere'
  <2>1. ~failed => Len(given) + 0 = Top BY <1>0, <1>1, DirTyped DEF AllThere
  <2> QED BY <2>1, <1>0, <1>1, <1>2, <1>5 DEF AllThere
<1>8. ZeroEnds' BY Zenon, <1>1 DEF ZeroEnds
<1> QED BY Zenon, <1>4, <1>6, <1>7, <1>8 DEF DirInv

\* A step that leaves given, written and the kept entry alone, in a call.
LEMMA QuietKeepsDir ==
    ASSUME DirInv, UNCHANGED << dir, pos, last_dirent, buf_len, offset, written, given, ret, failed >>,
           step # "user", step' \in {"loop", "end"},
           step' = "loop" => last_dirent = 0,
           step' = "end" => last_dirent # 0 \/ pos = Len(dir)
    PROVE  DirInv'
<1>0. CallState /\ Ordered /\ AllThere /\ DirTypeOK BY Zenon DEF DirInv, CallState
<1>1. Top' = Top BY Zenon DEF Top
<1>2. DirTypeOK' BY Zenon, <1>0 DEF DirTypeOK
<1>3. CallState' BY Zenon, <1>0, <1>2 DEF CallState
<1>4. Ordered' BY Zenon, <1>0, <1>1 DEF Ordered, InOrder
<1>5. AllThere' BY Zenon, <1>0, <1>1 DEF AllThere
<1>6. ZeroEnds' BY Zenon DEF ZeroEnds
<1> QED BY Zenon, <1>3, <1>4, <1>5, <1>6 DEF DirInv

\* A call that gives nothing ends with an error.
LEMMA ErrorKeepsDir ==
    ASSUME DirInv, UNCHANGED << dir, pos, last_dirent, buf_len, offset, written, given >>,
           step # "user", step' = "user", ret' \in {EINVAL, EIO}, failed' \in BOOLEAN,
           ~failed' => ~failed /\ Len(written) = 0
    PROVE  DirInv'
<1>0. CallState /\ Ordered /\ AllThere /\ DirTypeOK BY Zenon DEF DirInv, CallState
<1>1. Top' = Top BY Zenon DEF Top
<1>2. DirTypeOK' BY Zenon, <1>0 DEF DirTypeOK
<1>3. CallState' BY Zenon, <1>0, <1>2 DEF CallState
<1>4. Ordered' BY Zenon, <1>0, <1>1 DEF Ordered, InOrder
<1>5. AllThere'
  <2>1. ~failed' => Len(given) + 0 = Top BY Zenon, <1>0 DEF AllThere
  <2>2. ~failed' => Len(given) = Top BY <2>1, <1>0, DirTyped
  <2> QED BY Zenon, <2>2, <1>0, <1>1 DEF AllThere
<1>6. ret' # 0 BY DEF EINVAL, EIO
<1>7. ZeroEnds' BY Zenon, <1>6 DEF ZeroEnds
<1> QED BY Zenon, <1>3, <1>4, <1>5, <1>7 DEF DirInv

\* The entry after Top, kept or just read, goes to the buffer.
LEMMA WriteKeepsDir ==
    ASSUME DirConstants, DirInv, step \in {"first", "loop"}, step' = "loop",
           NEW e \in 1 .. Len(dir), e = Top + 1, Fits(e), write_entry(e),
           pos' = e, last_dirent' = 0, UNCHANGED << dir, buf_len, given, ret, failed >>
    PROVE  DirInv'
<1>0. CallState /\ Ordered /\ AllThere /\ DirTypeOK BY Zenon DEF DirInv, CallState
<1>1. /\ offset' \in Nat /\ offset' > 0 /\ offset' <= buf_len'
      /\ written' \in Seq(1 .. Len(dir)) /\ Len(written') = Len(written) + 1
      /\ \A i \in 1 .. Len(written) : written'[i] = written[i]
      /\ written'[Len(written) + 1] = e
  BY Zenon, <1>0, Written
<1>2. /\ Len(written) \in Nat /\ Len(given) \in Nat /\ Len(dir) \in Nat /\ Top \in Int
      /\ \A i \in 1 .. Len(written) : written[i] \in Nat
      /\ \A i \in 1 .. Len(given) : given[i] \in Nat
  BY Zenon, <1>0, DirTyped
<1>3. Top' = e BY Zenon DEF Top
<1>4. DirTypeOK'
  <2>1. pos' \in 0 .. Len(dir') /\ last_dirent' \in 0 .. Len(dir') /\ offset' \in Nat /\ dir' = dir
    BY <1>1, <1>2
  <2> QED BY Zenon, <2>1, <1>0, <1>1 DEF DirTypeOK
<1>5. CallState'
  <2>1. Len(written') # 0 /\ offset' # 0 BY <1>1, <1>2
  <2> QED BY Zenon, <2>1, <1>1, <1>4 DEF CallState
<1>6. Ordered'
  <2>1. InOrder(given) /\ \A i \in 1 .. Len(given) : given[i] <= e BY <1>0, <1>2 DEF Ordered
  <2>2. InOrder(written')
    <3>1. SUFFICES ASSUME NEW i \in 1 .. Len(written'), NEW j \in 1 .. Len(written'), i < j
                   PROVE  written'[i] < written'[j]
      BY Zenon DEF InOrder
    <3>0. Len(written) \in Nat /\ Len(written') = Len(written) + 1 BY Zenon, <1>1, <1>2
    <3>2. i \in 1 .. Len(written) /\ written'[i] = written[i]
      <4>1. i \in 1 .. Len(written) BY <3>0, <3>1
      <4> QED BY Zenon, <4>1, <1>1
    <3>3. CASE j = Len(written) + 1
      <4>1. written[i] <= Top BY Zenon, <3>2, <1>0 DEF Ordered
      <4> QED BY <4>1, <3>2, <3>3, <1>1, <1>2
    <3>4. CASE j # Len(written) + 1
      <4>0. j \in 1 .. Len(written) BY <3>4, <3>0
      <4>1. j \in 1 .. Len(written) /\ written'[j] = written[j] BY Zenon, <4>0, <1>1
      <4>2. written[i] < written[j] BY Zenon, <4>1, <3>1, <3>2, <1>0 DEF Ordered, InOrder
      <4> QED BY Zenon, <4>1, <4>2, <3>2
    <3> QED BY Zenon, <3>3, <3>4
  <2>3. ASSUME NEW i \in 1 .. Len(written')
        PROVE  written'[i] <= e /\ \A j \in 1 .. Len(given) : given[j] < written'[i]
    <3>1. CASE i = Len(written) + 1
      <4>1. \A j \in 1 .. Len(given) : given[j] <= Top BY Zenon, <1>0 DEF Ordered
      <4> QED BY <4>1, <3>1, <1>1, <1>2
    <3>2. CASE i # Len(written) + 1
      <4>a. Len(written) \in Nat /\ Len(written') = Len(written) + 1 BY Zenon, <1>1, <1>2
      <4>0. i \in 1 .. Len(written) BY <3>2, <4>a
      <4>1. i \in 1 .. Len(written) /\ written'[i] = written[i] BY Zenon, <4>0, <1>1
      <4>2. written[i] <= Top /\ \A j \in 1 .. Len(given) : given[j] < written[i]
        BY Zenon, <4>1, <1>0 DEF Ordered
      <4> QED BY <4>1, <4>2, <1>2
    <3> QED BY Zenon, <3>1, <3>2
  <2> QED BY Zenon, <2>1, <2>2, <2>3, <1>3 DEF Ordered, InOrder
<1>7. AllThere'
  <2> SUFFICES ASSUME ~failed
               PROVE  /\ \A i \in 1 .. Len(given) : given[i] = i
                      /\ Len(given) + Len(written') = e
                      /\ \A i \in 1 .. Len(written') : written'[i] = Len(given) + i
    BY Zenon, <1>3 DEF AllThere
  <2>1. /\ \A i \in 1 .. Len(given) : given[i] = i
        /\ Len(given) + Len(written) = Top
        /\ \A i \in 1 .. Len(written) : written[i] = Len(given) + i
    BY Zenon, <1>0 DEF AllThere
  <2>a. PICK g, w, t : g = Len(given) /\ w = Len(written) /\ t = Top BY Zenon
  <2>b. g \in Nat /\ w \in Nat /\ g + w = t /\ e = t + 1 BY Zenon, <2>1, <2>a, <1>2
  <2>c. g + (w + 1) = e BY <2>b
  <2>2. Len(given) + Len(written') = e BY Zenon, <2>a, <2>c, <1>1
  <2>3. ASSUME NEW i \in 1 .. Len(written') PROVE written'[i] = Len(given) + i
    <3>1. i \in 1 .. w + 1 BY Zenon, <2>3, <2>a, <1>1
    <3>2. CASE i \in 1 .. w BY Zenon, <3>2, <2>a, <2>1, <1>1
    <3>3. CASE i = w + 1 BY Zenon, <3>3, <2>a, <2>c, <1>1
    <3> QED BY <3>1, <3>2, <3>3, <2>b
  <2> QED BY Zenon, <2>1, <2>2, <2>3
<1>8. ZeroEnds' BY Zenon DEF ZeroEnds
<1> QED BY Zenon, <1>5, <1>6, <1>7, <1>8 DEF DirInv

LEMMA TakeLastKeeps == ASSUME DirConstants, DirInv, TakeLast PROVE DirInv'
<1>0. CallState /\ DirTypeOK BY Zenon DEF DirInv, CallState
<1>1. step = "first" /\ last_dirent # 0 /\ UNCHANGED << dir, pos, buf_len, given, failed >>
  BY Zenon DEF TakeLast
<1>2. last_dirent = pos /\ last_dirent \in 1 .. Len(dir) /\ last_dirent = Top + 1 /\ Len(written) = 0
  BY <1>0, <1>1, DirTyped DEF CallState, Top
<1>3. CASE Fits(last_dirent)
  <2>1. write_entry(last_dirent) /\ last_dirent' = 0 /\ step' = "loop" /\ ret' = ret
    BY Zenon, <1>3 DEF TakeLast
  <2>2. step \in {"first", "loop"} /\ pos' = last_dirent BY Zenon, <1>1, <1>2
  <2> QED BY Zenon, <2>1, <2>2, <1>1, <1>2, <1>3, WriteKeepsDir
<1>4. CASE ~Fits(last_dirent)
  <2>1. step' = "user" /\ ret' = EINVAL /\ UNCHANGED << written, offset, last_dirent >>
    BY Zenon, <1>4 DEF TakeLast
  <2>2. failed' \in BOOLEAN BY Zenon, <1>0, <1>1 DEF DirTypeOK
  <2> QED BY Zenon, <2>1, <2>2, <1>1, <1>2, ErrorKeepsDir
<1> QED BY Zenon, <1>3, <1>4

\* The entry just read does not fit and is kept.
LEMMA KeepKeepsDir ==
    ASSUME DirInv, step = "loop", pos < Len(dir), pos' = pos + 1, last_dirent' = pos + 1, step' = "end",
           UNCHANGED << dir, buf_len, offset, written, given, ret, failed >>
    PROVE  DirInv'
<1>0. CallState /\ Ordered /\ AllThere /\ DirTypeOK BY Zenon DEF DirInv, CallState
<1>1. pos \in Nat /\ Len(dir) \in Nat /\ last_dirent = 0 BY Zenon, <1>0, DirTyped DEF CallState
<1>2. Top' = Top BY <1>1 DEF Top
<1>3. DirTypeOK'
  <2>1. pos' \in 0 .. Len(dir') /\ last_dirent' \in 0 .. Len(dir') /\ dir' = dir BY <1>1
  <2> QED BY Zenon, <2>1, <1>0 DEF DirTypeOK
<1>4. CallState' BY <1>0, <1>1, <1>3 DEF CallState
<1>5. Ordered' BY Zenon, <1>0, <1>2 DEF Ordered, InOrder
<1>6. AllThere' BY Zenon, <1>0, <1>2 DEF AllThere
<1>7. ZeroEnds' BY Zenon DEF ZeroEnds
<1> QED BY Zenon, <1>4, <1>5, <1>6, <1>7 DEF DirInv

LEMMA ReadDirKeeps == ASSUME DirConstants, DirInv, ReadDir PROVE DirInv'
<1>0. CallState /\ DirTypeOK BY Zenon DEF DirInv, CallState
<1>1. step = "loop" /\ pos < Len(dir) /\ pos' = pos + 1 /\ UNCHANGED << dir, buf_len, given, ret, failed >>
  BY Zenon DEF ReadDir
<1>2. pos \in Nat /\ Len(dir) \in Nat /\ last_dirent = 0 BY Zenon, <1>0, <1>1, DirTyped DEF CallState
<1>3. CASE Fits(pos + 1)
  <2>1. write_entry(pos + 1) /\ last_dirent' = last_dirent /\ step' = step
    BY Zenon, <1>3 DEF ReadDir
  <2>2. PICK e : e = pos + 1 BY Zenon
  <2>3. e \in 1 .. Len(dir) /\ e = Top + 1 BY <2>2, <1>1, <1>2 DEF Top
  <2>4. Fits(e) /\ write_entry(e) /\ pos' = e /\ last_dirent' = 0 BY Zenon, <2>1, <2>2, <1>1, <1>2, <1>3
  <2>5. step \in {"first", "loop"} /\ step' = "loop" BY Zenon, <2>1, <1>1
  <2> QED BY Zenon, <2>3, <2>4, <2>5, <1>1, WriteKeepsDir
<1>4. CASE ~Fits(pos + 1)
  <2>1. last_dirent' = pos + 1 /\ step' = "end" /\ UNCHANGED << written, offset >>
    BY Zenon, <1>4 DEF ReadDir
  <2> QED BY Zenon, <2>1, <1>1, KeepKeepsDir
<1> QED BY Zenon, <1>3, <1>4

\* The end of a call adds what it has written to what the program was given.
LEMMA EndKeeps == ASSUME DirInv, End PROVE DirInv'
<1>0. CallState /\ Ordered /\ AllThere /\ DirTypeOK BY Zenon DEF DirInv, CallState
<1>1. /\ step = "end" /\ step' = "user"
      /\ UNCHANGED << dir, pos, last_dirent, buf_len, offset, written, failed >>
  BY Zenon DEF End
<1>2. CASE last_dirent # 0 /\ offset = 0
  <2>1. ret' = EINVAL /\ given' = given BY Zenon, <1>2 DEF End
  <2>2. Len(written) = 0 BY Zenon, <1>0, <1>1, <1>2 DEF CallState
  <2>3. failed' \in BOOLEAN BY Zenon, <1>0, <1>1 DEF DirTypeOK
  <2> QED BY Zenon, <2>1, <2>2, <2>3, <1>1, ErrorKeepsDir
<1>3. CASE ~(last_dirent # 0 /\ offset = 0)
  <2>1. ret' = offset /\ given' = given \o written BY Zenon, <1>3 DEF End
  <2>2. PICK g, w : g = Len(given) /\ w = Len(written) BY Zenon
  <2>3. /\ g \in Nat /\ w \in Nat /\ Top \in Int /\ Len(dir) \in Nat /\ offset \in Nat
        /\ given \in Seq(1 .. Len(dir)) /\ written \in Seq(1 .. Len(dir))
        /\ \A i \in 1 .. w : written[i] \in Nat
        /\ \A i \in 1 .. g : given[i] \in Nat
    BY Zenon, <2>2, <1>0, DirTyped DEF DirTypeOK
  <2>4. /\ given' \in Seq(1 .. Len(dir)) /\ Len(given') = g + w
        /\ \A i \in 1 .. g + w : given'[i] = IF i <= g THEN given[i] ELSE written[i - g]
    BY <2>1, <2>2, <2>3, ConcatProperties
  <2>5. DirTypeOK' BY Zenon, <1>0, <1>1, <2>1, <2>3, <2>4 DEF DirTypeOK
  <2>6. CallState' BY Zenon, <1>0, <1>1, <2>5 DEF CallState
  <2>7. Top' = Top BY Zenon, <1>1 DEF Top
  <2>8. /\ \A i, j \in 1 .. g : i < j => given[i] < given[j]
        /\ \A i, j \in 1 .. w : i < j => written[i] < written[j]
        /\ \A i \in 1 .. g : given[i] <= Top
        /\ \A i \in 1 .. w : written[i] <= Top /\ \A j \in 1 .. g : given[j] < written[i]
    BY Zenon, <1>0, <1>1, <2>2 DEF Ordered, InOrder
  <2>9. \A i \in 1 .. g + w : /\ i <= g => i \in 1 .. g
                              /\ i > g => i - g \in 1 .. w
    BY <2>3
  <2>10. ASSUME NEW i \in 1 .. g + w, NEW j \in 1 .. g + w, i < j PROVE given'[i] < given'[j]
    <3>1. CASE j <= g
      <4>1. i \in 1 .. g /\ j \in 1 .. g BY <3>1, <2>3, <2>10
      <4>2. given'[i] = given[i] /\ given'[j] = given[j] BY <4>1, <2>3, <2>4
      <4> QED BY Zenon, <4>1, <4>2, <2>8, <2>10
    <3>2. CASE i <= g /\ j > g
      <4>1. i \in 1 .. g /\ j - g \in 1 .. w BY Zenon, <3>2, <2>9
      <4>2. given'[i] = given[i] /\ given'[j] = written[j - g] BY <3>2, <2>3, <2>4
      <4> QED BY Zenon, <4>1, <4>2, <2>8
    <3>3. CASE i > g
      <4>1. i - g \in 1 .. w /\ j - g \in 1 .. w /\ i - g < j - g BY <3>3, <2>3, <2>9, <2>10
      <4>2. given'[i] = written[i - g] /\ given'[j] = written[j - g] BY <3>3, <2>3, <2>4, <2>10
      <4> QED BY Zenon, <4>1, <4>2, <2>8
    <3> QED BY <3>1, <3>2, <3>3, <2>3
  <2>11. ASSUME NEW i \in 1 .. g + w PROVE given'[i] <= Top
    <3>1. CASE i <= g
      <4>1. i \in 1 .. g /\ given'[i] = given[i] BY Zenon, <3>1, <2>4, <2>9
      <4> QED BY Zenon, <4>1, <2>8
    <3>2. CASE i > g
      <4>1. i - g \in 1 .. w /\ given'[i] = written[i - g] BY <3>2, <2>3, <2>4, <2>9
      <4> QED BY Zenon, <4>1, <2>8
    <3> QED BY <3>1, <3>2, <2>3
  <2>12. Ordered' BY Zenon, <1>1, <2>4, <2>7, <2>10, <2>11 DEF Ordered, InOrder
  <2>13. ~failed => /\ \A i \in 1 .. g + w : given'[i] = i
                    /\ g + w = Top
    <3> SUFFICES ASSUME ~failed PROVE (\A i \in 1 .. g + w : given'[i] = i) /\ g + w = Top BY Zenon
    <3>1. /\ \A i \in 1 .. g : given[i] = i
          /\ \A i \in 1 .. w : written[i] = g + i
          /\ g + w = Top
      BY Zenon, <1>0, <1>1, <2>2 DEF AllThere
    <3>2. ASSUME NEW i \in 1 .. g + w PROVE given'[i] = i
      <4>1. CASE i <= g
        <5>1. i \in 1 .. g /\ given'[i] = given[i] BY Zenon, <4>1, <2>4, <2>9
        <5> QED BY Zenon, <5>1, <3>1
      <4>2. CASE i > g
        <5>1. given'[i] = written[i - g] /\ i - g \in 1 .. w BY <4>2, <2>3, <2>4, <2>9
        <5>2. written[i - g] = g + (i - g) BY Zenon, <5>1, <3>1
        <5> QED BY <5>1, <5>2, <2>3
      <4> QED BY <4>1, <4>2, <2>3
    <3> QED BY Zenon, <3>1, <3>2
  <2>14. AllThere' BY Zenon, <1>1, <2>4, <2>7, <2>13 DEF AllThere
  <2>15. ZeroEnds'
    <3> SUFFICES ASSUME offset = 0, ~failed PROVE g + w = Len(dir)
      BY Zenon, <1>1, <2>1, <2>4 DEF ZeroEnds
    <3>1. last_dirent = 0 BY Zenon, <1>3
    <3>2. pos = Len(dir) BY Zenon, <3>1, <1>0, <1>1 DEF CallState
    <3> QED BY Zenon, <3>1, <3>2, <2>13 DEF Top
  <2> QED BY Zenon, <2>6, <2>12, <2>14, <2>15 DEF DirInv
<1> QED BY Zenon, <1>2, <1>3

LEMMA DirIdle == ASSUME DirInv, UNCHANGED dirvars PROVE DirInv'
  BY DEF DirInv, dirvars, CallState, DirTypeOK, Ordered, InOrder, AllThere, ZeroEnds, Top

LEMMA DirKeeps ==
    ASSUME DirConstants, DirInv, [DirNext]_dirvars
    PROVE  DirInv'
<1>0. CallState /\ DirTypeOK BY Zenon DEF DirInv, CallState
<1>1. CASE UNCHANGED dirvars BY Zenon, <1>1, DirIdle
<1>2. CASE \E n \in BufLens : Begin(n) BY Zenon, <1>2, BeginKeepsDir
<1>3. CASE TakeLast BY Zenon, <1>3, TakeLastKeeps
<1>4. CASE NoLast
  <2>1. /\ UNCHANGED << dir, pos, last_dirent, buf_len, offset, written, given, ret, failed >>
        /\ step = "first" /\ last_dirent = 0 /\ step' = "loop"
    BY Zenon, <1>4 DEF NoLast
  <2> QED BY Zenon, <2>1, QuietKeepsDir
<1>5. CASE ReadDir BY Zenon, <1>5, ReadDirKeeps
<1>6. CASE ReadDirEnd
  <2>1. /\ UNCHANGED << dir, pos, last_dirent, buf_len, offset, written, given, ret, failed >>
        /\ step = "loop" /\ pos = Len(dir) /\ step' = "end"
    BY Zenon, <1>6 DEF ReadDirEnd
  <2> QED BY Zenon, <2>1, QuietKeepsDir
<1>7. CASE ReadDirError
  <2>1. /\ UNCHANGED << dir, pos, last_dirent, buf_len, offset, written, given >>
        /\ step = "loop" /\ step' = "user" /\ ret' = EIO /\ failed' = TRUE
    BY Zenon, <1>7 DEF ReadDirError
  <2> QED BY Zenon, <2>1, ErrorKeepsDir
<1>8. CASE End BY Zenon, <1>8, EndKeeps
<1> QED BY Zenon, <1>1, <1>2, <1>3, <1>4, <1>5, <1>6, <1>7, <1>8 DEF DirNext, Step

\* 1, 2, ..., n, with the last one apart or not.
LEMMA UptoOf ==
    ASSUME NEW S, NEW s \in Seq(S), \A i \in 1 .. Len(s) : s[i] = i
    PROVE  /\ s = Upto(Len(s))
           /\ s \o << >> = Upto(Len(s))
           /\ s \o << Len(s) + 1 >> = Upto(Len(s) + 1)
<1>1. Len(s) \in Nat /\ s = [i \in 1 .. Len(s) |-> s[i]] OBVIOUS
<1>2. s = Upto(Len(s)) BY Zenon, <1>1 DEF Upto
<1>3. s \o << >> = s OBVIOUS
<1>4. PICK n, t : n = Len(s) + 1 /\ t = s \o << n >> BY Zenon
<1>5. n \in Nat /\ n > 0 /\ s \in Seq(S \cup {n}) /\ << n >> \in Seq(S \cup {n}) /\ Len(<< n >>) = 1 BY <1>1, <1>4
<1>6. /\ t \in Seq(S \cup {n}) /\ Len(t) = n
      /\ \A i \in 1 .. n : t[i] = IF i <= Len(s) THEN s[i] ELSE << n >>[i - Len(s)]
  BY <1>1, <1>4, <1>5, ConcatProperties
<1>7. \A i \in 1 .. n : t[i] = i
  <2> SUFFICES ASSUME NEW i \in 1 .. n PROVE t[i] = i BY Zenon
  <2>1. CASE i <= Len(s) BY <2>1, <1>1, <1>6
  <2>2. CASE i = n
    <3>1. t[i] = << n >>[1] BY <2>2, <1>1, <1>4, <1>6
    <3> QED BY Zenon, <3>1, <2>2
  <2> QED BY <2>1, <2>2, <1>1, <1>4
<1>8. t = [i \in 1 .. n |-> t[i]] BY <1>6
<1>9. t = Upto(n) BY Zenon, <1>7, <1>8 DEF Upto
<1> QED BY Zenon, <1>2, <1>3, <1>4, <1>9

LEMMA DirInvariant == ASSUME DirConstants PROVE DirSpec => []DirInv
<1>1. DirInit => DirInv BY Zenon, DirStart
<1>2. DirInv /\ [DirNext]_dirvars => DirInv' BY Zenon, DirKeeps
<1> QED BY <1>1, <1>2, PTL DEF DirSpec

\* getdents64 gives a program every entry exactly once and in order, whatever
\* sizes of buffers it uses and however often an entry does not fit, as long as
\* read_dir does not fail; after a failure none is given twice or out of order.
THEOREM EntriesGivenOnce == DirSpec => []NoEntryLost
<1> USE DirAssumption
<1>1. DirInv => NoEntryLost
  <2> SUFFICES ASSUME DirInv PROVE NoEntryLost BY Zenon
  <2>0. CallState /\ Ordered /\ AllThere /\ ZeroEnds /\ DirTypeOK BY Zenon DEF DirInv, CallState
  <2>1. given \in Seq(Nat) /\ Len(given) \in Nat /\ pos \in Nat BY Zenon, <2>0, DirTyped
  <2>2. ASSUME step = "user", ~failed PROVE given \o Kept = Upto(pos)
    <3>1. (\A i \in 1 .. Len(given) : given[i] = i) /\ Len(given) = Top BY Zenon, <2>0, <2>2 DEF AllThere
    <3>2. CASE last_dirent = 0
      <4>1. Len(given) = pos /\ Kept = << >> BY Zenon, <3>1, <3>2 DEF Top, Kept
      <4> QED BY Zenon, <4>1, <3>1, <2>1, UptoOf
    <3>3. CASE last_dirent # 0
      <4>1. last_dirent = pos /\ Len(given) + 1 = pos BY <3>1, <3>3, <2>0, <2>1 DEF Top, CallState
      <4>2. Kept = << Len(given) + 1 >> BY Zenon, <4>1, <3>3 DEF Kept
      <4> QED BY Zenon, <4>1, <4>2, <3>1, <2>1, UptoOf
    <3> QED BY Zenon, <3>2, <3>3
  <2>3. \A i, j \in 1 .. Len(given) : i < j => given[i] < given[j] BY Zenon, <2>0 DEF Ordered, InOrder
  <2>4. ASSUME step = "user", ret = 0, ~failed PROVE given = Upto(Len(dir))
    <3>1. (\A i \in 1 .. Len(given) : given[i] = i) /\ Len(given) = Len(dir)
      BY Zenon, <2>0, <2>4 DEF AllThere, ZeroEnds
    <3> QED BY Zenon, <3>1, <2>1, UptoOf
  <2> QED BY Zenon, <2>2, <2>3, <2>4 DEF NoEntryLost
<1> QED BY <1>1, DirInvariant, PTL

\* The entries written end inside the buffer, for names and buffers of any size.
THEOREM EntriesInBuffer == DirSpec => []NeverPastBuffer
<1> USE DirAssumption
<1>1. DirInv => NeverPastBuffer BY Zenon DEF DirInv, CallState, NeverPastBuffer
<1> QED BY <1>1, DirInvariant, PTL
=============================================================================
