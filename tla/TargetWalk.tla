---------------------------- MODULE TargetWalk ----------------------------
(***************************************************************************)
(* Resolving a target to its services (src/target.c tinit_target_init_iter *)
(* with tinit_target_walk_folder and tinit_target_probe_folder_svc_base):  *)
(* the target folder's entries are read in readdir order; a symlink with a *)
(* valid name whose canonical path is a valid file name of the services    *)
(* directory is looked up by path in the repository                        *)
(* (tinit_repo_search_bypath) and the service appended to a table that     *)
(* starts with 4 slots and doubles when full.  Anything else is skipped    *)
(* with a warning.  A readdir or reallocarray failure aborts the walk.     *)
(*                                                                         *)
(* Paths are abstracted to what the probe tells apart: a link's name is    *)
(* valid or not, and its destination is a file of the services directory,  *)
(* dangling, outside the services directory, or a file with an invalid     *)
(* name.                                                                   *)
(***************************************************************************)
EXTENDS Naturals, Sequences, SequencesExt, Functions

CONSTANTS
    Svc,        \* the services of the repository
    Files,      \* file names in the services directory
    ConfPath,   \* ConfPath[s]: the file service s was loaded from (conf_get_path)
    Dests,      \* link destinations the directory may hold
    MaxEnt,     \* most entries a target folder holds
    MayFail     \* whether readdir and reallocarray may fail

ASSUME /\ ConfPath \in [Svc -> Files] /\ IsInjective(ConfPath)
       /\ Dests \subseteq Files \cup {"dangling", "outside", "badbase"}

InitNr == 4   \* the table's first size in tinit_target_init_iter

Entry ==
    [type : {"lnk"}, name : {"ok", "bad"}, dest : Dests] \cup
    [type : {"reg"}, name : {"ok"}, dest : {"outside"}]

VARIABLES
    ents,   \* the folder's entries, in readdir order
    k,      \* entries read so far
    tbl,    \* the services collected (the first cnt slots of iter->tbl)
    nr,     \* the table's allocated slots
    ret     \* "run" while walking, then "OK" or the error returned

vars == <<ents, k, tbl, nr, ret>>

-----------------------------------------------------------------------------
(* tinit_repo_search_bypath: the service loaded from a file.               *)
SearchByPath(f) == {s \in Svc : ConfPath[s] = f}

(* Mutant: the link's own name is not validated.                          *)
ProbeBaseNoName(e) ==
    IF e.dest \in Files THEN {e.dest} ELSE {}

(* tinit_target_probe_folder_svc_base: the file a link names, or none when *)
(* its name is invalid (tinit_parse_svc_name), realpath() fails, the path  *)
(* is outside CONFIG_TINIT_INCLUDE_DIR (EPERM) or its base name has an     *)
(* invalid character.                                                      *)
ProbeBase(e) ==
    IF e.name = "ok" /\ e.dest \in Files THEN {e.dest} ELSE {}

Init ==
    /\ ents \in UNION {[1..n -> Entry] : n \in 0..MaxEnt}
    /\ k = 0
    /\ tbl = <<>>
    /\ nr = InitNr
    /\ ret = "run"

Ent == ents[k + 1]

(* readdir() returns an entry that is skipped: not a symlink, a probe      *)
(* failure, or a file no service was loaded from.                          *)
Skip ==
    /\ ret = "run" /\ k < Len(ents)
    /\ \/ Ent.type # "lnk"
       \/ ProbeBase(Ent) = {}
       \/ \E f \in ProbeBase(Ent) : SearchByPath(f) = {}
    /\ k' = k + 1
    /\ UNCHANGED <<ents, tbl, nr, ret>>

(* Mutant: the table grows only once the count has passed its size.        *)
CollectLate ==
    /\ ret = "run" /\ k < Len(ents) /\ Ent.type = "lnk"
    /\ \E f \in ProbeBase(Ent) : \E s \in SearchByPath(f) :
         /\ nr' = IF Len(tbl) > nr THEN 2 * nr ELSE nr
         /\ tbl' = Append(tbl, s)
    /\ k' = k + 1
    /\ UNCHANGED <<ents, ret>>

(* A service is found: the table doubles when it is full, and the service *)
(* takes the next slot.                                                    *)
Collect ==
    /\ ret = "run" /\ k < Len(ents) /\ Ent.type = "lnk"
    /\ \E f \in ProbeBase(Ent) : \E s \in SearchByPath(f) :
         /\ nr' = IF Len(tbl) = nr THEN 2 * nr ELSE nr
         /\ tbl' = Append(tbl, s)
    /\ k' = k + 1
    /\ UNCHANGED <<ents, ret>>

(* reallocarray() fails: the table is freed and the error returned.        *)
GrowFail ==
    /\ MayFail
    /\ ret = "run" /\ k < Len(ents) /\ Ent.type = "lnk" /\ Len(tbl) = nr
    /\ \E f \in ProbeBase(Ent) : SearchByPath(f) # {}
    /\ ret' = "ENOMEM"
    /\ UNCHANGED <<ents, k, tbl, nr>>

(* readdir() fails: the error is returned.                                 *)
ReadFail ==
    /\ MayFail
    /\ ret = "run"
    /\ ret' = "EIO"
    /\ UNCHANGED <<ents, k, tbl, nr>>

(* readdir() returns NULL with errno 0: the walk is over.                  *)
EndOfDir ==
    /\ ret = "run" /\ k = Len(ents)
    /\ ret' = "OK"
    /\ UNCHANGED <<ents, k, tbl, nr>>

Walked ==
    /\ ret # "run"
    /\ UNCHANGED vars

Next == Skip \/ Collect \/ GrowFail \/ ReadFail \/ EndOfDir \/ Walked

Spec == Init /\ [][Next]_vars

-----------------------------------------------------------------------------
TypeOK ==
    /\ k \in 0..MaxEnt
    /\ tbl \in Seq(Svc)
    /\ Len(tbl) <= nr
    /\ ret \in {"run", "OK", "ENOMEM", "EIO"}

(* The reference answer: the services named by the folder's resolvable    *)
(* links, in readdir order.                                                *)
Resolved ==
    LET found(e) == e.type = "lnk" /\ e.name = "ok" /\ e.dest \in Range(ConfPath)
        owner(e) == CHOOSE s \in Svc : ConfPath[s] = e.dest
    IN [j \in 1..Len(SelectSeq(ents, found)) |-> owner(SelectSeq(ents, found)[j])]

(* Spec 4.4: a successful walk yields exactly the services the folder's   *)
(* valid links resolve to, in enumeration order.                          *)
WalkResolves == ret = "OK" => tbl = Resolved

=============================================================================
