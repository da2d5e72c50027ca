------------------------------ MODULE ConfLoad ------------------------------
(***************************************************************************)
(* Loading one service configuration file (src/conf.c conf_load_file and  *)
(* conf_load_root, with the setting loaders of conf_loaders[]).            *)
(*                                                                         *)
(* libconfig's parse is abstracted to its outcome: an I/O error, a syntax *)
(* error, or the root group as a sequence of settings with distinct names *)
(* (options 0 forbid duplicates).  A setting's value is a libconfig value *)
(* record: a string, an integer, an array, a list or a group.  Strings    *)
(* are sequences of characters, one representative per class the         *)
(* loaders' charsets tell apart; "DEV" stands for the five characters     *)
(* "/dev/".  The limits (TINIT_SVC_NAME_MAX, SVC_ARG_MAX, ...) are         *)
(* constants, scaled down with the strings.                               *)
(***************************************************************************)
EXTENDS Naturals, Sequences, SequencesExt, FiniteSets

CONSTANTS
    Files,       \* root groups a file may parse to
    NameMax,     \* TINIT_SVC_NAME_MAX
    StrMax,      \* the other string limits (SVC_DESC_MAX, SVC_ARG_MAX, ...)
    PathMax      \* PATH_MAX

(* libconfig values.                                                        *)
Str(s) == [t |-> "str", s |-> s, i |-> 0, e |-> <<>>]
IntV(n) == [t |-> "int", s |-> <<>>, i |-> n, e |-> <<>>]
Arr(l) == [t |-> "arr", s |-> <<>>, i |-> 0, e |-> l]
Lst(l) == [t |-> "list", s |-> <<>>, i |-> 0, e |-> l]
Grp(l) == [t |-> "grp", s |-> <<>>, i |-> 0, e |-> l]
Set(k, v) == [key |-> k, val |-> v]

Keys == {"name", "description", "stdin", "stdout", "environ", "starton",
         "start", "stopon", "stop", "signal", "daemon"}

(* The character classes of common.h, one representative each.            *)
ALNUM == {"a", "A", "0"}
GRAPH == ALNUM \cup {"-", "_", "/", "$", "DEV"}
PRINT == GRAPH \cup {" ", "nl"}

Width(c) == IF c = "DEV" THEN 5 ELSE 1
StrLen(s) == FoldLeft(LAMBDA n, c : n + Width(c), 0, s)

(* strspn(s, set) = Len(s): every character is in the set.                *)
AllIn(s, set) == \A j \in 1..Len(s) : s[j] \in set

FirstErr(errs) ==
    LET bad == SelectSeq(errs, LAMBDA r : r # "OK")
    IN IF bad = <<>> THEN "OK" ELSE Head(bad)

-----------------------------------------------------------------------------
(* conf_parse_string_setting                                               *)
ParseString(v, max) ==
    CASE v.t # "str"          -> "EBADMSG"
      [] v.s = <<>>            -> "ENODATA"
      [] StrLen(v.s) >= max    -> "EMSGSIZE"
      [] OTHER                 -> "OK"

(* Mutant: the last character is not checked.                             *)
ProbeInvalCharNoLast(s) ==
    s[1] \notin ALNUM \/ ~AllIn(s, ALNUM \cup {"-", "_"})

(* tinit_probe_inval_char: the first and last characters are alphanumeric *)
(* and the others in ALNUM "-_.@".  TRUE when one is not.                  *)
ProbeInvalChar(s) ==
    s[1] \notin ALNUM \/ s[Len(s)] \notin ALNUM \/ ~AllIn(s, ALNUM \cup {"-", "_"})

(* conf_parse_name_setting                                                 *)
ParseName(v) ==
    LET r == ParseString(v, NameMax)
    IN IF r # "OK" THEN r ELSE IF ProbeInvalChar(v.s) THEN "EINVAL" ELSE "OK"

(* conf_parse_cmd_arg                                                      *)
ParseArg(v) ==
    LET r == ParseString(v, StrMax)
    IN IF r # "OK" THEN r ELSE IF AllIn(v.s, PRINT) THEN "OK" ELSE "EINVAL"

(* The parse callback given to conf_load_strarr_setting: conf_parse_name_ *)
(* setting for the notifier lists, conf_parse_cmd_arg for commands.       *)
ParseElem(kind, e) == IF kind = "name" THEN ParseName(e) ELSE ParseArg(e)

(* conf_load_strarr_setting: an array of elements, each parsed in turn.   *)
LoadStrarr(v, kind) ==
    CASE v.t # "arr" -> "EBADMSG"
      [] v.e = <<>>  -> "ENODATA"
      [] OTHER       -> FirstErr([j \in DOMAIN v.e |-> ParseElem(kind, v.e[j])])

(* conf_load_seq_setting: a list of commands, each an array of arguments. *)
LoadSeq(v) ==
    CASE v.t # "list" -> "EBADMSG"
      [] v.e = <<>>   -> "ENODATA"
      [] OTHER        -> FirstErr([j \in DOMAIN v.e |-> LoadStrarr(v.e[j], "arg")])

(* conf_load_desc                                                          *)
LoadDesc(v) ==
    LET r == ParseString(v, StrMax)
    IN IF r # "OK" THEN r ELSE IF AllIn(v.s, GRAPH \cup {" "}) THEN "OK" ELSE "EINVAL"

(* conf_load_stdio, then conf_load_stdin / conf_load_stdout.  On a string *)
(* error conf_load_stdio returns -len, a positive number, which both      *)
(* callers take for a length: they go on with path uninitialized.  The    *)
(* outcome is any the build may produce: a crash, or (memcmp happening to *)
(* match for stdin) strrep of len bytes of garbage, accepted.             *)
LoadStdio(key, v) ==
    LET r == ParseString(v, PathMax)
    IN CASE r # "OK"                               -> IF key = "stdin" THEN {"CRASH", "ENOTTY", "OK"}
                                                                       ELSE {"CRASH", "OK"}
         [] ~AllIn(v.s, ALNUM \cup {"/", "-", "_", "DEV"}) -> {"EINVAL"}
         [] key = "stdin" /\ (StrLen(v.s) <= 5 \/ v.s[1] # "DEV") -> {"ENOTTY"}
         [] OTHER                                    -> {"OK"}

(* conf_parse_env_var and conf_parse_env_val for one name = value entry.  *)
EnvEntry(ent) ==
    CASE StrLen(ent.key) >= StrMax                          -> "EMSGSIZE"
      [] ent.key[1] = "0" \/ ~AllIn(ent.key, ALNUM \cup {"_"}) -> "EINVAL"
      [] ParseString(ent.val, StrMax) # "OK"               -> ParseString(ent.val, StrMax)
      [] ~AllIn(ent.val.s, ALNUM \cup {" ", "-", "/", "_", "DEV"}) -> "EINVAL"
      [] OTHER                                              -> "OK"

(* conf_parse_signo_setting (SIGSYS 31, SIGRTMIN 34, SIGRTMAX 64).         *)
ParseSigno(v) ==
    CASE v.t # "int"                                          -> "EBADMSG"
      [] v.i <= 0 \/ (v.i > 31 /\ v.i < 34) \/ v.i > 64      -> "ERANGE"
      [] OTHER                                                -> "OK"

(* conf_load_sig_setting: the entry names the stop or the reload signal. *)
SigEntry(ent) == IF ent.key \in {<<"stop">>, <<"reload">>} THEN ParseSigno(ent.val) ELSE "EINVAL"

(* conf_load_env and conf_load_signal: a group of entries, in order.      *)
LoadGroup(v, kind) ==
    CASE v.t # "grp" -> "EBADMSG"
      [] v.e = <<>>  -> "ENODATA"
      [] OTHER       -> FirstErr([j \in DOMAIN v.e |->
                            IF kind = "env" THEN EnvEntry(v.e[j]) ELSE SigEntry(v.e[j])])

(* conf_load_signal                                                        *)
LoadSignal(v) == LoadGroup(v, "sig")

(* The outcomes of conf_loaders[l].load for a setting.                     *)
Load(st) ==
    CASE st.key = "name"                    -> {ParseName(st.val)}
      [] st.key = "description"             -> {LoadDesc(st.val)}
      [] st.key \in {"stdin", "stdout"}     -> LoadStdio(st.key, st.val)
      [] st.key = "environ"                 -> {LoadGroup(st.val, "env")}
      [] st.key \in {"starton", "stopon"}   -> {LoadStrarr(st.val, "name")}
      [] st.key \in {"start", "stop"}       -> {LoadSeq(st.val)}
      [] st.key = "signal"                  -> {LoadSignal(st.val)}
      [] st.key = "daemon"                  -> {LoadStrarr(st.val, "arg")}

(* Mutant: each element is also compared with itself.                    *)
HasDupsNonStrict(l, ref) ==
    \/ \E j \in DOMAIN l : l[j] = ref
    \/ \E j, k \in DOMAIN l : j <= k /\ l[j] = l[k]

HasDups(l, ref) ==
    \/ \E j \in DOMAIN l : l[j] = ref
    \/ \E j, k \in DOMAIN l : j < k /\ l[j] = l[k]

-----------------------------------------------------------------------------
VARIABLES
    rd,     \* config_read_file: "OK", or the error "EIO" or "EBADMSG"
    file,   \* the settings of the root group, in file order
    si,     \* the loop index s of conf_load_root
    conf,   \* conf[k]: the value loaded for setting k, or NoVal
    ret,    \* the ret of conf_load_root; "UNSET" until a loader ran
    res     \* "busy", then the result of conf_load_file, or "CRASH"

cvars == <<rd, file, si, conf, ret, res>>

NoVal == Str(<<>>)

(* The name strings a loaded list holds.                                   *)
Names(k) == IF conf[k] = NoVal THEN <<>> ELSE [j \in DOMAIN conf[k].e |-> conf[k].e[j].s]

Init ==
    /\ rd \in {"OK", "EIO", "EBADMSG"}
    /\ file \in IF rd = "OK" THEN Files ELSE {<<>>}
    /\ si = 1
    /\ conf = [k \in Keys |-> NoVal]
    /\ ret = "UNSET"
    /\ res = "busy"

(* conf_load_file: config_read_file fails with an I/O or a parse error.   *)
ReadFail ==
    /\ res = "busy" /\ rd # "OK"
    /\ res' = rd
    /\ UNCHANGED <<rd, file, si, conf, ret>>

(* conf_load_root on an empty root group.                                  *)
Empty ==
    /\ res = "busy" /\ rd = "OK" /\ file = <<>>
    /\ res' = "ENODATA"
    /\ UNCHANGED <<rd, file, si, conf, ret>>

St == file[si]

(* A name no entry of conf_loaders[] bears: warn and skip.                 *)
SkipUnknown ==
    /\ res = "busy" /\ rd = "OK" /\ si <= Len(file)
    /\ St.key \notin Keys
    /\ si' = si + 1
    /\ UNCHANGED <<rd, file, conf, ret, res>>

(* conf_loaders[l].load(conf, set); the loop breaks on an error.           *)
LoadSetting ==
    /\ res = "busy" /\ rd = "OK" /\ si <= Len(file)
    /\ St.key \in Keys
    /\ \E r \in Load(St) :
         IF r = "CRASH"
         THEN res' = "CRASH" /\ UNCHANGED <<si, conf, ret>>
         ELSE /\ ret' = r
              /\ conf' = IF r = "OK" THEN [conf EXCEPT ![St.key] = St.val] ELSE conf
              /\ si' = IF r = "OK" THEN si + 1 ELSE Len(file) + 1
              /\ UNCHANGED res
    /\ UNCHANGED <<rd, file>>

(* Mutant: the "missing command(s)" rule is left out.                      *)
CheckRootNoCmd(r) ==
    CASE r # "OK"                                  -> r
      [] conf["name"] = NoVal                      -> "EPROTO"
      [] conf["starton"] # NoVal /\ HasDups(Names("starton"), conf["name"].s) -> "EPROTO"
      [] conf["stopon"] # NoVal /\ HasDups(Names("stopon"), conf["name"].s)   -> "EPROTO"
      [] OTHER                                     -> "OK"

(* The rules conf_load_root applies once the loop is over, in order.       *)
CheckRoot(r) ==
    CASE r # "OK"                                  -> r
      [] conf["name"] = NoVal                      -> "EPROTO"
      [] conf["start"] = NoVal /\ conf["stop"] = NoVal /\ conf["daemon"] = NoVal -> "EPROTO"
      [] conf["starton"] # NoVal /\ HasDups(Names("starton"), conf["name"].s) -> "EPROTO"
      [] conf["stopon"] # NoVal /\ HasDups(Names("stopon"), conf["name"].s)   -> "EPROTO"
      [] OTHER                                     -> "OK"

(* Mutant: ret is used as if a loader had always assigned it.           *)
EndLoopNoInit ==
    /\ res = "busy" /\ rd = "OK"
    /\ file # <<>> /\ si > Len(file)
    /\ res' = CheckRoot(ret)
    /\ UNCHANGED <<rd, file, si, conf, ret>>

(* After the loop.  When every setting was unknown, no loader assigned   *)
(* ret: the read of the uninitialized variable yields 0 or garbage.      *)
EndLoop ==
    /\ res = "busy" /\ rd = "OK"
    /\ file # <<>> /\ si > Len(file)
    /\ \E r \in IF ret = "UNSET" THEN {"OK", "GARBAGE"} ELSE {ret} :
         res' = CheckRoot(r)
    /\ UNCHANGED <<rd, file, si, conf, ret>>

(* The configuration is loaded, or conf_create_from_file returned NULL.  *)
Loaded ==
    /\ res # "busy"
    /\ UNCHANGED cvars

Next == ReadFail \/ Empty \/ SkipUnknown \/ LoadSetting \/ EndLoop \/ Loaded

Spec == Init /\ [][Next]_cvars /\ WF_cvars(Next)

-----------------------------------------------------------------------------
TypeOK ==
    /\ si \in Nat
    /\ DOMAIN conf = Keys
    /\ res \in {"busy", "OK", "CRASH", "GARBAGE", "EIO", "EBADMSG", "ENODATA",
                "EMSGSIZE", "EINVAL", "ENOTTY", "ERANGE", "EPROTO"}

(* A name the spec's ServiceDescriptor allows: 1 to TINIT_SVC_NAME_MAX-1 *)
(* characters matching [A-Za-z0-9][A-Za-z0-9._@-]*[A-Za-z0-9] (a single   *)
(* character being alphanumeric).                                         *)
SpecName(v) ==
    /\ v.t = "str" /\ 1 <= Len(v.s) /\ Len(v.s) < NameMax
    /\ v.s[1] \in ALNUM /\ v.s[Len(v.s)] \in ALNUM
    /\ \A j \in 1..Len(v.s) : v.s[j] \in ALNUM \cup {"-", "_"}

(* A starton or stopon list of the spec: names of services, none twice    *)
(* and none the service's own.                                            *)
SpecList(v, self) ==
    /\ v.t = "arr" /\ v.e # <<>>
    /\ \A j \in DOMAIN v.e : SpecName(v.e[j])
    /\ \A j \in DOMAIN v.e : v.e[j].s # self
    /\ \A j, k \in DOMAIN v.e : j # k => v.e[j].s # v.e[k].s

(* A file of section 6: it parses, it gives a valid name, at least one of  *)
(* start, stop and daemon, valid starton and stopon lists, and every      *)
(* other setting it gives is one its loader accepts.                      *)
SpecValid(f) ==
    /\ \E i \in DOMAIN f : f[i].key = "name" /\ SpecName(f[i].val)
    /\ \E i \in DOMAIN f : f[i].key \in {"start", "stop", "daemon"}
    /\ \A i \in DOMAIN f :
          LET self == CHOOSE n \in {f[j].val.s : j \in {j \in DOMAIN f : f[j].key = "name"}} : TRUE
          IN CASE f[i].key \in {"starton", "stopon"} -> SpecList(f[i].val, self)
               [] f[i].key = "name"                 -> SpecName(f[i].val)
               [] f[i].key \in Keys                 -> Load(f[i]) = {"OK"}
               [] OTHER                             -> TRUE

(* A stdin or stdout setting fails conf_parse_string_setting: it is not  *)
(* a string, empty, or PATH_MAX long, and conf_load_stdio returns -len,   *)
(* a positive number its callers do not treat as an error.                *)
StdioParseFails(f) ==
    \E i \in DOMAIN f : f[i].key \in {"stdin", "stdout"} /\ ParseString(f[i].val, PathMax) # "OK"

(* Every file section 6 calls valid is loaded, and every setting of the   *)
(* file is loaded as given: whatever the order of the settings, unknown   *)
(* settings among them, names at the length limits, and the loop's break  *)
(* and post-loop rules never reject a valid file.                         *)
LoadAccepts ==
    res # "busy" /\ rd = "OK" /\ SpecValid(file) =>
        /\ res = "OK"
        /\ \A i \in DOMAIN file : file[i].key \in Keys => conf[file[i].key] = file[i].val

LoadVerdict == LoadAccepts /\ (res = "OK" => SpecValid(file))
====
