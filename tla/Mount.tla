------------------------------- MODULE Mount -------------------------------
(***************************************************************************)
(* The table of mounted file systems: sys_mount, sys_umount2 and the list  *)
(* MOUNTED (api/src/imp/fs/mount.rs), with the path comparisons of         *)
(* FilePath (api/src/path.rs).                                             *)
(*                                                                         *)
(* A path is the sequence of its characters, since both comparisons are    *)
(* made on the string; it is canonical except that a trailing "/" of the   *)
(* argument is kept, as FilePath::new does.  Every lock of MOUNTED and     *)
(* every look at the file system is a step of its own.                     *)
(***************************************************************************)
EXTENDS Integers, Sequences, Functions

CONSTANTS Threads,
          Paths,      \* target arguments of programs, as FilePath::new returns them
          FsTypes,    \* fs_type arguments
          Flags,      \* flags arguments of umount2
          MaxMounted  \* bound on the length of MOUNTED

VARIABLES existing, \* directories of the file system, without a trailing "/"
          MOUNTED,  \* mnt_dir of the mounted file systems, in order
          pc, mount_path,
          ret       \* ret[t]: what t's last call returned
mountvars == << existing, MOUNTED, pc, mount_path, ret >>

\* The directory a path names.
Dir(p) == IF p[Len(p)] = "/" THEN SubSeq(p, 1, Len(p) - 1) ELSE p

Dirs == {Dir(p) : p \in Paths}

MountInit ==
    /\ existing \in SUBSET Dirs
    /\ MOUNTED = << >>
    /\ pc = [t \in Threads |-> "user"]
    /\ mount_path \in [Threads -> Paths]
    /\ ret = [t \in Threads |-> "none"]

\* absolute_path_exists
exists(p) == Dir(p) \in existing

\* FilePath::starts_with compares the strings.
starts_with(p, prefix) == Len(prefix) <= Len(p) /\ SubSeq(p, 1, Len(prefix)) = prefix

check_mounted(p) == \E d \in Range(MOUNTED) : starts_with(p, d)

Goto(t, l) == pc' = [pc EXCEPT ![t] = l]
Return(t, r) == Goto(t, "user") /\ ret' = [ret EXCEPT ![t] = r]
-----------------------------------------------------------------------------
\* sys_mount up to the test of fs_type; EPERM for all but vfat.
MountBegin(t, p, fs_type) ==
    /\ pc[t] = "user" /\ Len(MOUNTED) < MaxMounted
    /\ mount_path' = [mount_path EXCEPT ![t] = p]
    /\ IF fs_type # "vfat" THEN Return(t, "EPERM") ELSE Goto(t, "exists") /\ UNCHANGED ret
    /\ UNCHANGED << existing, MOUNTED >>

MountExists(t) ==
    /\ pc[t] = "exists"
    /\ IF exists(mount_path[t]) THEN Goto(t, "check") /\ UNCHANGED ret ELSE Return(t, "EPERM")
    /\ UNCHANGED << existing, MOUNTED, mount_path >>

MountCheck(t) ==
    /\ pc[t] = "check"
    /\ IF check_mounted(mount_path[t])
       THEN Return(t, "EPERM") ELSE Goto(t, "exists2") /\ UNCHANGED ret
    /\ UNCHANGED << existing, MOUNTED, mount_path >>

\* mount_fat_fs looks again whether the path exists, then locks the list.
MountExists2(t) ==
    /\ pc[t] = "exists2"
    /\ IF exists(mount_path[t]) THEN Goto(t, "push") /\ UNCHANGED ret ELSE Return(t, "EPERM")
    /\ UNCHANGED << existing, MOUNTED, mount_path >>

MountPush(t) ==
    /\ pc[t] = "push"
    /\ MOUNTED' = Append(MOUNTED, mount_path[t])
    /\ Return(t, "mounted")
    /\ UNCHANGED << existing, mount_path >>

\* sys_umount2 up to the test whether the path exists.
UmountBegin(t, p, flags) ==
    /\ pc[t] = "user"
    /\ mount_path' = [mount_path EXCEPT ![t] = p]
    /\ IF flags # 0 \/ ~exists(p)
       THEN Return(t, "EPERM") ELSE Goto(t, "retain") /\ UNCHANGED ret
    /\ UNCHANGED << existing, MOUNTED >>

\* Mutant: only the first file system mounted there is removed.
retain_one(p) ==
    IF p \notin Range(MOUNTED) THEN MOUNTED
    ELSE LET i == CHOOSE i \in DOMAIN MOUNTED : MOUNTED[i] = p IN
         SubSeq(MOUNTED, 1, i - 1) \o SubSeq(MOUNTED, i + 1, Len(MOUNTED))

\* Vec::retain goes through the list: kept(p)[n] is what it has kept of the first n
\* file systems, those mounted elsewhere than at p.
kept(p) ==
    LET first[n \in 0 .. Len(MOUNTED)] ==
            IF n = 0 THEN << >>
            ELSE IF MOUNTED[n] = p THEN first[n - 1] ELSE Append(first[n - 1], MOUNTED[n])
    IN  first
retain(p) == kept(p)[Len(MOUNTED)]

\* umount_fat_fs
UmountRetain(t) ==
    /\ pc[t] = "retain"
    /\ MOUNTED' = retain(mount_path[t])
    /\ Return(t, IF Len(MOUNTED) > Len(MOUNTED') THEN "unmounted" ELSE "EPERM")
    /\ UNCHANGED << existing, mount_path >>

\* sys_mkdirat; the file system (external) refuses a name that exists.
MakeDir(t, p) ==
    /\ pc[t] = "user" /\ ~exists(p)
    /\ existing' = existing \cup {Dir(p)}
    /\ UNCHANGED << MOUNTED, pc, mount_path, ret >>

\* sys_unlinkat with AT_REMOVEDIR, which does not look at MOUNTED.
RemoveDir(t, p) ==
    /\ pc[t] = "user" /\ exists(p)
    /\ existing' = existing \ {Dir(p)}
    /\ UNCHANGED << MOUNTED, pc, mount_path, ret >>

MountNext ==
    \E t \in Threads :
        \/ MountExists(t) \/ MountCheck(t) \/ MountExists2(t) \/ MountPush(t)
        \/ UmountRetain(t)
        \/ \E p \in Paths : \/ \E f \in FsTypes : MountBegin(t, p, f)
                            \/ \E f \in Flags : UmountBegin(t, p, f)
                            \/ MakeDir(t, p) \/ RemoveDir(t, p)

MountSpec == MountInit /\ [][MountNext]_mountvars
-----------------------------------------------------------------------------
(* Properties *)

\* Every variable has the shape its declaration comment says.
MountTypeOK ==
    /\ existing \subseteq Dirs
    /\ MOUNTED \in Seq(Paths)
    /\ pc \in [Threads -> {"user", "exists", "check", "exists2", "push", "retain"}]
    /\ mount_path \in [Threads -> Paths]
    /\ ret \in [Threads -> {"none", "EPERM", "mounted", "unmounted"}]

\* umount2 leaves nothing mounted at its target, not even when two racing mounts
\* have put two file systems there, and what is mounted at other targets is as
\* before; it reports success exactly when something was mounted there.
UmountClears ==
    /\ []MountTypeOK
    /\ [][\A t \in Threads :
          pc[t] = "retain" /\ pc'[t] = "user" =>
              /\ Range(MOUNTED') = Range(MOUNTED) \ {mount_path[t]}
              /\ ret'[t] = "unmounted" <=> mount_path[t] \in Range(MOUNTED)]_mountvars

\* p is the directory d or lies in it.
Under(p, d) == Dir(p) = Dir(d) \/ starts_with(p, Append(Dir(d), "/"))

\* "check if a path is mounted": a path that check_mounted reports is on or
\* below a mounted directory.
ReportedIsMounted ==
    \A p \in Paths : check_mounted(p) => \E d \in Range(MOUNTED) : Under(p, d)

\* "check if a path is mounted": a path on or below a mounted directory is
\* reported by check_mounted.
MountedIsReported ==
    \A p \in Paths : (\E d \in Range(MOUNTED) : Under(p, d)) => check_mounted(p)
=============================================================================
