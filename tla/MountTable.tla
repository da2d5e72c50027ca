----------------------------- MODULE MountTable -----------------------------
(***************************************************************************)
(* Unmounting at shutdown (src/mnt.c mnt_umount_all, called by             *)
(* tinit_shutdown in src/init.c once every process is killed and reaped).  *)
(*                                                                         *)
(* mnt_open_table reads the mount points of CONFIG_TINIT_MNTTAB_PATH       *)
(* (mnt_load_points) and the filesystem types of /proc/filesystems        *)
(* (mnt_load_fstypes).  The loop then unmounts every point but the root,  *)
(* skipping types that are "nodev" or named "fuse"; a point the kernel    *)
(* refuses with EBUSY is remounted read-only instead.  The first error is *)
(* kept for the final report, and the root is remounted read-only.        *)
(*                                                                         *)
(* Both loaders end on a NULL or -1 return and read errno to tell the end *)
(* of file from an error; errno is followed from mnt_umount_all's entry  *)
(* through mnt_load_points into mnt_load_fstypes.                         *)
(*                                                                         *)
(* Paths are abstracted to a tree of directories; kst is the kernel's     *)
(* view of each directory's mount.  Only a mount below a directory keeps  *)
(* umount2() busy: every process is dead by then.                         *)
(***************************************************************************)
EXTENDS Naturals, Sequences, SequencesExt

CONSTANTS
    Dirs,       \* mount point directories
    Root,       \* "/"
    ParentDir,  \* ParentDir[d]: the directory d lies in
    FsNames,    \* filesystem type names a mount entry may carry
    FsTypes,    \* the types /proc/filesystems lists: name -> its "nodev" flag
    MayFail,    \* whether umount2() and mount(MS_REMOUNT) may fail
    LoadMayFail \* whether the loaders' fopen() and malloc() may fail

ASSUME /\ Root \in Dirs /\ ParentDir \in [Dirs \ {Root} -> Dirs]
       /\ FsTypes \in [DOMAIN FsTypes -> BOOLEAN]

VARIABLES
    mtab,   \* the table's points in list order (struct mnt_table points)
    kst,    \* kst[d]: "rw", "ro" or "off" (nothing mounted on d)
    mi,     \* the loop cursor
    mret,   \* the error kept for the report (ret)
    mst,    \* "idle" before shutdown, "walk" in the loop, "done" after
            \* it, "abort" when PID 1 dies in it
    mtypes  \* the types list: "loaded", "released" (empty) or "garbage"
            \* (never initialized)

mvars == <<mtab, kst, mi, mret, mst, mtypes>>

-----------------------------------------------------------------------------
(* d lies strictly below x.                                                *)
RECURSIVE Below(_, _)
Below(d, x) ==
    d # Root /\ (ParentDir[d] = x \/ Below(ParentDir[d], x))

(* The contents of the mount table: the root first and every mount after  *)
(* the one of the directory it lies in, one mount per directory.          *)
Tables ==
    { t \in UNION {[1..n -> [dir : Dirs, type : FsNames]] : n \in 1..Cardinality(Dirs)} :
        /\ t[1].dir = Root
        /\ \A i, j \in DOMAIN t : i # j => t[i].dir # t[j].dir
        /\ \A i \in DOMAIN t : t[i].dir # Root =>
              \E j \in 1..(i - 1) : t[j].dir = ParentDir[t[i].dir] }

(* Mutant: each point is appended at the tail of the list.                 *)
LoadPointsInOrder(t) == t

(* mnt_load_points: slist_append(points, slist_head(points), pt) links    *)
(* each point right after the list head, so the list holds the table     *)
(* backwards: the last mount first.                                       *)
LoadPoints(t) == Reverse(t)

(* mnt_find_fstype: the point's type is one /proc/filesystems listed and  *)
(* the list still holds it.                                               *)
Known(e) == mtypes = "loaded" /\ e.type \in DOMAIN FsTypes

(* errno when mnt_umount_all starts: the ECHILD that ends tinit_killall's *)
(* waitid() loop, or the EAGAIN of a log write to a non-blocking console  *)
(* or message queue after it.                                             *)
EntryErrno == {"ECHILD", "EAGAIN"}

(* Mutant: the end test compares errno, which getmntent() leaves as it    *)
(* was at the end of the table.                                           *)
PointsEndCompare(e) ==
    IF e = "EAGAIN" THEN [ret |-> "OK", errno |-> e] ELSE [ret |-> e, errno |-> e]

(* getmntent() returns NULL at the end of the table without setting      *)
(* errno; `if (errno = EAGAIN)` assigns, so the loop always ends there,   *)
(* successfully, with errno set to EAGAIN.                                *)
PointsEnd(e) == [ret |-> "OK", errno |-> "EAGAIN"]

(* getline() returns -1 at the end of /proc/filesystems without setting   *)
(* errno: mnt_load_fstypes takes EAGAIN for the end of file and any other *)
(* value for an error, after which the list is released.                  *)
FsTypesEnd(e) == IF e = "EAGAIN" THEN "OK" ELSE e

(* The list mnt_load_fstypes leaves, whose result mnt_open_table ignores. *)
(* fopen() failing returns before slist_init(), and malloc() of the line *)
(* failing releases the list before it: either leaves it garbage.  An    *)
(* allocation failing in mnt_create_fstype releases it.                  *)
LoadFsTypes(e) ==
    (IF FsTypesEnd(e) = "OK" THEN {"loaded"} ELSE {"released"})
    \cup (IF LoadMayFail THEN {"released", "garbage"} ELSE {})

(* mnt_create_fstype: pseudo filesystems and FUSE are not unmounted.       *)
Skipped(e) == FsTypes[e.type] \/ e.type = "fuse"

Init ==
    /\ mtab = <<>>
    /\ kst = [d \in Dirs |-> "off"]
    /\ mi = 1
    /\ mret = "OK"
    /\ mst = "idle"
    /\ mtypes = "loaded"

(* mnt_open_table, with the kernel's mounts as the table lists them.  When *)
(* mnt_load_points fails (its end test, or setmntent() or malloc()), the  *)
(* whole loop and remount_root are skipped ("goto err").                  *)
OpenTable ==
    /\ mst = "idle"
    /\ \E e \in EntryErrno, t \in Tables :
         LET pe == PointsEnd(e)
         IN /\ kst' = [d \in Dirs |-> IF \E i \in DOMAIN t : t[i].dir = d THEN "rw" ELSE "off"]
            /\ \/ /\ pe.ret # "OK" \/ LoadMayFail
                  /\ mst' = "done" /\ mret' = "EOPEN"
                  /\ UNCHANGED <<mtab, mtypes>>
               \/ /\ pe.ret = "OK"
                  /\ mtab' = LoadPoints(t)
                  /\ mtypes' \in LoadFsTypes(pe.errno)
                  /\ mst' = "walk"
                  /\ UNCHANGED mret
    /\ UNCHANGED mi

Pt == mtab[mi]

(* The root, and types mnt_find_fstype finds with skip set, are passed.   *)
PassPoint ==
    /\ mst = "walk" /\ mi <= Len(mtab)
    /\ Pt.dir = Root \/ (Known(Pt) /\ Skipped(Pt))
    /\ mi' = mi + 1
    /\ UNCHANGED <<mtab, kst, mret, mst, mtypes>>

(* Mutant: every error overwrites ret, success included.                   *)
KeepErrorLast(err) == err

(* if (err && !ret) ret = err;                                            *)
KeepError(err) == IF err # "OK" /\ mret = "OK" THEN err ELSE mret

(* umount2(): EBUSY while something is mounted below the point, then      *)
(* mnt_remount(MS_RDONLY); otherwise unmounted, or ENOMEM when MayFail.   *)
Umount ==
    /\ mst = "walk" /\ mi <= Len(mtab)
    /\ Pt.dir # Root /\ Known(Pt) /\ ~Skipped(Pt)
    /\ \/ /\ \E d \in Dirs : Below(d, Pt.dir) /\ kst[d] # "off"
          /\ \/ kst' = [kst EXCEPT ![Pt.dir] = "ro"] /\ mret' = KeepError("OK")
             \/ MayFail /\ UNCHANGED kst /\ mret' = KeepError("EBUSY")
       \/ /\ \A d \in Dirs : Below(d, Pt.dir) => kst[d] = "off"
          /\ \/ kst' = [kst EXCEPT ![Pt.dir] = "off"] /\ mret' = KeepError("OK")
             \/ MayFail /\ UNCHANGED kst /\ mret' = KeepError("ENOMEM")
    /\ mi' = mi + 1
    /\ UNCHANGED <<mtab, mst, mtypes>>

(* mnt_close_table, then remount_root: the root becomes read-only, unless *)
(* the remount fails (logged only).                                       *)
CloseTable ==
    /\ mst = "walk" /\ mi > Len(mtab) /\ mtypes # "garbage"
    /\ \/ kst' = [kst EXCEPT ![Root] = "ro"]
       \/ MayFail /\ UNCHANGED kst
    /\ mst' = "done"
    /\ UNCHANGED <<mtab, mi, mret, mtypes>>

(* assert(type) fails (or, without assertions, type->skip dereferences    *)
(* NULL) for a point whose type is not found; walking or releasing a      *)
(* garbage list crashes the same way.  PID 1 dies and the kernel panics.  *)
Abort ==
    /\ mst = "walk"
    /\ \/ mi <= Len(mtab) /\ Pt.dir # Root /\ ~Known(Pt)
       \/ mi > Len(mtab) /\ mtypes = "garbage"
    /\ mst' = "abort"
    /\ UNCHANGED <<mtab, kst, mi, mret, mtypes>>

Step == PassPoint \/ Umount \/ CloseTable \/ Abort

-----------------------------------------------------------------------------
TypeOK ==
    /\ mtab \in Seq([dir : Dirs, type : FsNames])
    /\ kst \in [Dirs -> {"rw", "ro", "off"}]
    /\ mi \in 1..(Cardinality(Dirs) + 1)
    /\ mret \in {"OK", "EBUSY", "ENOMEM", "EOPEN"}
    /\ mst \in {"idle", "walk", "done", "abort"}
    /\ mtypes \in {"loaded", "released", "garbage"}

(* When mnt_umount_all reports "unmounted all filesystems", no filesystem *)
(* it was to unmount is left mounted read-write: each one is unmounted or *)
(* remounted read-only, whatever failed and succeeded after it.           *)
UmountReported ==
    mst = "done" /\ mret = "OK" =>
        \A i \in DOMAIN mtab :
            mtab[i].dir # Root /\ ~Skipped(mtab[i]) => kst[mtab[i].dir] \in {"off", "ro"}

(* A filesystem is only left mounted read-only when something is still    *)
(* mounted below it: the loop meets every mount before the one it lies    *)
(* on, so a busy parent never has its submounts unmounted afterwards.     *)
LeavesFirst ==
    mst = "done" =>
        \A d \in Dirs \ {Root} :
            kst[d] = "ro" => \E e \in Dirs : Below(e, d) /\ kst[e] # "off"

(* mnt_umount_all asserts that mnt_find_fstype finds the type of every    *)
(* point it reaches: the type of every mount but the root is listed in    *)
(* /proc/filesystems.                                                     *)
MountTypesKnown ==
    mst = "walk" /\ mi <= Len(mtab) /\ Pt.dir # Root => Known(Pt)

(* With no call failing, the shutdown leaves the root filesystem          *)
(* read-only, whatever errno tinit_killall and the logs left behind: both *)
(* tables load, and remount_root runs after the loop.                      *)
RootReadOnly == mst = "done" => kst[Root] = "ro"

=============================================================================
