----------------------------- MODULE NotifGraph -----------------------------
(***************************************************************************)
(* The observer wiring pass run once the repository is loaded              *)
(* (src/repo.c tinit_repo_load).  For every service, in repository order,  *)
(* every name of its starton list and then of its stopon list is looked up *)
(* and the named service is registered as a notifier of the service        *)
(* (svc_register_starton_obsrv / svc_register_stopon_obsrv), unless the    *)
(* name is unknown (a warning) or the registration would close a notifier  *)
(* loop (an error: the edge is dropped).                                   *)
(*                                                                         *)
(* A service's notifier poll (struct notif_poll) is the sequence of the    *)
(* sources registered with it; a source's observer list (starton_obsrv,    *)
(* stopon_obsrv) is the sequence of sinks that registered with it.         *)
(***************************************************************************)
EXTENDS Naturals, Sequences, SequencesExt, Functions

LOCAL R == INSTANCE Relation

CONSTANTS
    Svc,          \* the services of the repository
    RepoOrder,    \* the repository list order (directory order)
    Missing,      \* a name that no service of the repository bears
    MaxStarton,   \* longest starton list a configuration may give
    MaxStopon     \* longest stopon list a configuration may give

ASSUME /\ Missing \notin Svc
       /\ RepoOrder \in Seq(Svc) /\ Range(RepoOrder) = Svc
       /\ IsInjective(RepoOrder)

Kinds == {"starton", "stopon"}

VARIABLES
    conf,   \* conf[k][s]: the names of s's k list, as loaded (immutable)
    poll,   \* poll[k][s]: the sources registered in s's k notifier poll
    obsrv,  \* obsrv[k][s]: the sinks registered in s's k observer list
    todo    \* the (kind, sink, name) items the wiring loops have left

vars == <<conf, poll, obsrv, todo>>

-----------------------------------------------------------------------------
(* Configurations the loader accepts: a list holds distinct names and not  *)
(* the service's own name (conf_strarr_has_dups in conf_load_root).        *)
NameLists(s, pool, max) ==
    UNION {{l \in [1..n -> pool \ {s}] : IsInjective(l)} : n \in 0..max}

KindConf(pool, max) ==
    {f \in [Svc -> UNION {[1..n -> pool] : n \in 0..max}] :
        \A s \in Svc : f[s] \in NameLists(s, pool, max)}

(* An unknown starton name is only warned about (tinit_repo_setup_svc_starton); *)
(* stopon names are drawn from the repository.                             *)
ValidConf ==
    {[k \in Kinds |-> IF k = "starton" THEN st ELSE sp] :
        st \in KindConf(Svc \cup {Missing}, MaxStarton),
        sp \in KindConf(Svc, MaxStopon)}

(* The order the two nested loops of tinit_repo_load visit the names:      *)
(* services in repository order, starton names before stopon names.        *)
WorkList(c) ==
    LET Items(s, k) ==
            [j \in DOMAIN c[k][s] |-> [kind |-> k, sink |-> s, name |-> c[k][s][j]]]
    IN FoldLeft(LAMBDA acc, s : acc \o Items(s, "starton") \o Items(s, "stopon"),
                <<>>, RepoOrder)

(* Mutant: the walk forgets to compare the service itself with match.     *)
RECURSIVE HasNotifierNoSelf(_, _, _)
HasNotifierNoSelf(k, s, match) ==
    \E i \in DOMAIN poll[k][s] : HasNotifierNoSelf(k, poll[k][s][i], match)

(* Mutant: the stopon check walks the starton polls.                      *)
RECURSIVE HasNotifierStarton(_, _, _)
HasNotifierStarton(k, s, match) ==
    \/ s = match
    \/ \E i \in DOMAIN poll["starton"][s] :
           HasNotifierStarton(k, poll["starton"][s][i], match)

(* svc_has_starton_notifier / svc_has_stopon_notifier: is match s itself  *)
(* or one of the notifiers s (transitively) waits on?                      *)
RECURSIVE HasNotifier(_, _, _)
HasNotifier(k, s, match) ==
    \/ s = match
    \/ \E i \in DOMAIN poll[k][s] : HasNotifier(k, poll[k][s][i], match)

Init ==
    /\ conf \in ValidConf
    /\ poll = [k \in Kinds |-> [s \in Svc |-> <<>>]]
    /\ obsrv = [k \in Kinds |-> [s \in Svc |-> <<>>]]
    /\ todo = WorkList(conf)

-----------------------------------------------------------------------------
Item == Head(todo)

(* Mutant: an unknown name is registered as if it had been found.        *)
WarnMissingRegister ==
    /\ todo # <<>>
    /\ Item.name \notin Svc
    /\ poll' = [poll EXCEPT ![Item.kind][Item.sink] = Append(@, Item.name)]
    /\ todo' = Tail(todo)
    /\ UNCHANGED <<conf, obsrv>>

(* tinit_repo_search_byname finds no service: warn and skip the name.     *)
WarnMissing ==
    /\ todo # <<>>
    /\ Item.name \notin Svc
    /\ todo' = Tail(todo)
    /\ UNCHANGED <<conf, poll, obsrv>>

(* The sink already is a (transitive) notifier of the named source: the   *)
(* registration would close a loop, it is refused.                        *)
RejectLoop ==
    /\ todo # <<>>
    /\ Item.name \in Svc
    /\ HasNotifier(Item.kind, Item.name, Item.sink)
    /\ todo' = Tail(todo)
    /\ UNCHANGED <<conf, poll, obsrv>>

(* Mutant: the sink is pushed at the front of the observer list.          *)
RegisterFront ==
    /\ todo # <<>>
    /\ Item.name \in Svc
    /\ ~HasNotifier(Item.kind, Item.name, Item.sink)
    /\ poll' = [poll EXCEPT ![Item.kind][Item.sink] = Append(@, Item.name)]
    /\ obsrv' = [obsrv EXCEPT ![Item.kind][Item.name] = <<Item.sink>> \o @]
    /\ todo' = Tail(todo)
    /\ UNCHANGED conf

(* notif_register_poll_sink: the source takes the next member of the      *)
(* sink's poll and is queued at the back of the source's observer list.   *)
Register ==
    /\ todo # <<>>
    /\ Item.name \in Svc
    /\ ~HasNotifier(Item.kind, Item.name, Item.sink)
    /\ poll' = [poll EXCEPT ![Item.kind][Item.sink] = Append(@, Item.name)]
    /\ obsrv' = [obsrv EXCEPT ![Item.kind][Item.name] = Append(@, Item.sink)]
    /\ todo' = Tail(todo)
    /\ UNCHANGED conf

(* The repository is wired; the event loop takes over (Supervisor).       *)
Wired ==
    /\ todo = <<>>
    /\ UNCHANGED vars

Next == WarnMissing \/ RejectLoop \/ Register \/ Wired

Spec == Init /\ [][Next]_vars

-----------------------------------------------------------------------------
TypeOK ==
    /\ conf \in [Kinds -> [Svc -> Seq(Svc \cup {Missing})]]
    /\ poll \in [Kinds -> [Svc -> Seq(Svc)]]
    /\ obsrv \in [Kinds -> [Svc -> Seq(Svc)]]
    /\ todo \in Seq([kind : Kinds, sink : Svc, name : Svc \cup {Missing}])

(* Notifies[k][a, b]: a is in b's k poll, i.e. b waits on a.              *)
Notifies(k) == [e \in Svc \X Svc |-> e[1] \in Range(poll[k][e[2]])]

DependsOn(k) == R!TransitiveClosure(Notifies(k), Svc)

(* Invariant 4 of the spec: at every step of the wiring pass, the notifier *)
(* graph of each kind, as the polls hold it, has no cycle.  This is what   *)
(* lets svc_mark_ready / svc_mark_stopped notify sinks recursively without *)
(* ever coming back to the notifying service.                              *)
Acyclic == \A k \in Kinds, s \in Svc : ~DependsOn(k)[s, s]

(* Once wiring is over, an edge naming a known service was dropped only    *)
(* because it would have closed a loop: every configured known name is     *)
(* either in the poll or already (transitively) waits on the sink.  With   *)
(* Acyclic, the wiring keeps as much of the configuration as it can, and   *)
(* the poll never holds a name the configuration does not give.            *)
WiringMaximal ==
    todo = <<>> =>
        \A k \in Kinds, s \in Svc :
            /\ Range(poll[k][s]) \subseteq Range(conf[k][s])
            /\ \A n \in Range(conf[k][s]) \cap Svc :
                   n \in Range(poll[k][s]) \/ DependsOn(k)[s, n]

(* The order svc_mark_ready / svc_mark_stopped notify a source's sinks in *)
(* (the order of its observer list) is the repository order of the sinks: *)
(* a source's observer list holds exactly the services whose poll holds   *)
(* the source, in repository order.  The Supervisor module relies on this *)
(* to derive the notification order from the polls.                       *)
ObsrvOrder ==
    \A k \in Kinds, src \in Svc :
        obsrv[k][src] = SelectSeq(RepoOrder, LAMBDA s : src \in Range(poll[k][s]))

=============================================================================
