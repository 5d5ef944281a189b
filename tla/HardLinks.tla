----------------------------- MODULE HardLinks -----------------------------
(***************************************************************************)
(* The emulation of hard links (api/src/path.rs) and the calls that use    *)
(* it: sys_linkat, sys_unlinkat and sys_mkdirat (api/src/imp/fs/ctl.rs).   *)
(*                                                                         *)
(* FilePath::new resolves a name through the links, under the read lock,   *)
(* before the call takes the write lock; other calls may come in between.  *)
(* A path is a model value; the paths that end in '/' are Slash, and here  *)
(* a directory is always spelled with the '/' and a file without it.       *)
(***************************************************************************)
EXTENDS Integers, FiniteSets

CONSTANTS Threads, Paths, Slash, NoPath

ASSUME PathsAssumption ==
    Slash \subseteq Paths /\ NoPath \notin Paths /\ IsFiniteSet(Paths)

VARIABLES fs,         \* the paths that exist in the file system
          links,      \* links[s]: the target of link s, or NoPath
          ref_counts, \* ref_counts[d], 0 when there is no entry
          pc,
          path,       \* local: old_path, dst (linkat), path (unlinkat)
          src         \* local: new_path, src (linkat)
vars == << fs, links, ref_counts, pc, path, src >>

Init ==
    /\ fs \in SUBSET Paths
    /\ links = [p \in Paths |-> NoPath]
    /\ ref_counts = [p \in Paths |-> 0]
    /\ pc = [t \in Threads |-> "user"]
    /\ path = [t \in Threads |-> NoPath] /\ src = path

Goto(t, label) == pc' = [pc EXCEPT ![t] = label]
Return(t) ==
    /\ Goto(t, "user")
    /\ path' = [path EXCEPT ![t] = NoPath]
    /\ src' = [src EXCEPT ![t] = NoPath]
-----------------------------------------------------------------------------
(* HardlinkManager *)

\* Resolution is one level deep.
real_path(p) == IF links[p] = NoPath THEN p ELSE links[p]

\* axfs::api::remove_file: fails on a directory.
remove_file(p) == fs' = IF p \in Slash THEN fs ELSE fs \ {p}

\* Mutant: the old target keeps its count.
atomic_link_update_leaky(s, d) ==
    /\ links' = [links EXCEPT ![s] = d]
    /\ ref_counts' = [ref_counts EXCEPT ![d] = @ + 1]
    /\ UNCHANGED fs

\* Create link s, or point it to d; the old target loses a reference first,
\* and its file when that was the last one (decrease_ref_count).
atomic_link_update(s, d) ==
    LET old == links[s] IN
    IF old = d THEN UNCHANGED << fs, links, ref_counts >>
    ELSE /\ links' = [links EXCEPT ![s] = d]
         /\ ref_counts' = [p \in Paths |->
                ref_counts[p] + (IF p = d THEN 1 ELSE 0) - (IF p = old THEN 1 ELSE 0)]
         /\ IF old # NoPath /\ ref_counts[old] = 1 THEN remove_file(old) ELSE UNCHANGED fs

\* remove_link: drop link s, or remove the file when s is no link.
remove_link(s) ==
    LET old == links[s] IN
    IF old = NoPath THEN remove_file(s) /\ UNCHANGED << links, ref_counts >>
    ELSE /\ links' = [links EXCEPT ![s] = NoPath]
         /\ ref_counts' = [ref_counts EXCEPT ![old] = @ - 1]
         /\ IF ref_counts[old] = 1 THEN remove_file(old) ELSE UNCHANGED fs
-----------------------------------------------------------------------------
(* sys_linkat *)

LinkOld(t, p) ==
    /\ pc[t] = "user"
    /\ path' = [path EXCEPT ![t] = real_path(p)]
    /\ Goto(t, "link_new")
    /\ UNCHANGED << fs, links, ref_counts, src >>

LinkNew(t, p) ==
    /\ pc[t] = "link_new"
    /\ src' = [src EXCEPT ![t] = real_path(p)]
    /\ Goto(t, "link_check")
    /\ UNCHANGED << fs, links, ref_counts, path >>

\* create_link: NotFound, or NotFile unless the path ends in '/'.
LinkCheck(t) ==
    /\ pc[t] = "link_check"
    /\ IF path[t] \in fs /\ path[t] \in Slash
       THEN Goto(t, "link_update") /\ UNCHANGED << path, src >>
       ELSE Return(t)
    /\ UNCHANGED << fs, links, ref_counts >>

LinkUpdate(t) ==
    /\ pc[t] = "link_update"
    /\ atomic_link_update(src[t], path[t])
    /\ Return(t)
-----------------------------------------------------------------------------
(* sys_unlinkat *)

UnlinkResolve(t, p) ==
    /\ pc[t] = "user"
    /\ path' = [path EXCEPT ![t] = real_path(p)]
    /\ Goto(t, "unlink_check")
    /\ UNCHANGED << fs, links, ref_counts, src >>

\* metadata: ENOENT, EISDIR, or go on to remove_link.
UnlinkCheck(t) ==
    /\ pc[t] = "unlink_check"
    /\ IF path[t] \in fs /\ path[t] \notin Slash
       THEN Goto(t, "unlink_remove") /\ UNCHANGED << path, src >>
       ELSE Return(t)
    /\ UNCHANGED << fs, links, ref_counts >>

UnlinkRemove(t) ==
    /\ pc[t] = "unlink_remove"
    /\ remove_link(path[t])
    /\ Return(t)

\* AT_REMOVEDIR, of the directory the name resolves to.
RemoveDir(t, p) ==
    /\ pc[t] = "user" /\ real_path(p) \in fs \cap Slash
    /\ fs' = fs \ {real_path(p)}
    /\ UNCHANGED << links, ref_counts, pc, path, src >>

\* sys_mkdirat resolves the name; sys_openat creates the file it is given.
Create(t, p) ==
    LET q == IF p \in Slash THEN real_path(p) ELSE p IN
    /\ pc[t] = "user" /\ q \notin fs
    /\ fs' = fs \cup {q}
    /\ UNCHANGED << links, ref_counts, pc, path, src >>
-----------------------------------------------------------------------------
Next ==
    \E t \in Threads :
        \/ LinkCheck(t) \/ LinkUpdate(t) \/ UnlinkCheck(t) \/ UnlinkRemove(t)
        \/ \E p \in Paths : \/ LinkOld(t, p) \/ LinkNew(t, p) \/ UnlinkResolve(t, p)
                            \/ RemoveDir(t, p) \/ Create(t, p)

Spec == Init /\ [][Next]_vars
-----------------------------------------------------------------------------
(* Properties *)

\* Every variable has the shape its declaration comment says; a call past its
\* resolution steps has resolved paths.
TypeOK ==
    /\ fs \in SUBSET Paths
    /\ links \in [Paths -> Paths \cup {NoPath}]
    /\ ref_counts \in [Paths -> Nat]
    /\ pc \in [Threads -> {"user", "link_new", "link_check", "link_update",
                           "unlink_check", "unlink_remove"}]
    /\ path \in [Threads -> Paths \cup {NoPath}]
    /\ src \in [Threads -> Paths \cup {NoPath}]
    /\ \A t \in Threads :
          /\ pc[t] # "user" => path[t] \in Paths
          /\ pc[t] \in {"link_check", "link_update"} => src[t] \in Paths

\* The count of a target is the number of links to it, whatever calls ran in
\* between resolving a path and updating the tables; "link exists but ref
\* count is zero" is never logged and no count underflows.
RefCountsExact ==
    /\ TypeOK
    /\ \A d \in Paths : ref_counts[d] = Cardinality({s \in Paths : links[s] = d})

\* create_link accepts only files as targets.
TargetsAreFiles == \A s \in Paths : links[s] # NoPath => links[s] \notin Slash
=============================================================================
