----------------------------- MODULE Supervisor -----------------------------
(***************************************************************************)
(* tinit's single-threaded event loop (src/init.c tinit_loop) driving the  *)
(* service state machines of src/svc.c.                                    *)
(*                                                                         *)
(*  - sv[s]: the struct svc fields that matter to control: state, child,   *)
(*    whether the service timer is armed, start_cmd and stop_cmd.  The     *)
(*    on/off handler families (and the timer callback svc_expire_on /      *)
(*    svc_expire_off) are installed together with STARTING / STOPPING by   *)
(*    svc_start / svc_stop, so they are a function of the state.           *)
(*  - proc[p]: the kernel's view of process p: free, running, hit by       *)
(*    SIGKILL, or a zombie waiting for waitid(); owner is the service that *)
(*    spawned it.                                                          *)
(*  - pending: the observer notifications svc_mark_ready/svc_mark_stopped  *)
(*    still have to make.  The code makes them by nested synchronous calls *)
(*    (depth first, in observer-list order); the model makes one per       *)
(*    Deliver step, pushing those a handler produces in front of the rest, *)
(*    and no other event is handled before the stack is empty.            *)
(*  - loop: the cursor of the synchronous loops over services of           *)
(*    tinit_target_start, tinit_target_stop and tinit_target_switch.       *)
(*  - mode and drain: the phase of tinit_loop and the signal channel's     *)
(*    count of services still to stop (struct tinit_sigchan cnt).          *)
(***************************************************************************)
EXTENDS Naturals, Sequences, SequencesExt, FiniteSets

CONSTANTS
    Svc, RepoOrder,      \* the services, in repository order
    Targets, BootTarget, \* target name -> its services in folder order
    StartNr, StopNr,     \* per service, number of start / stop commands
    HasDaemon,           \* per service, whether a daemon command is set
    StartonPoll,         \* per service, the starton notifiers wired in
    StoponPoll,          \* per service, the stopon notifiers wired in
    Pid, NoChild,        \* process IDs; the child value of "no process"
    SpawnMayFail,        \* whether vfork() may fail with free PIDs left
    Requests,            \* the control requests clients may send
    Dirs, Root, ParentDir, FsNames, FsTypes, MountMayFail,
    MountLoadMayFail,
    InitMayFail          \* whether main()'s setup steps and the loggers may fail
                         \* the mounts left at shutdown (MountTable)

ASSUME /\ Range(RepoOrder) = Svc /\ NoChild \notin Pid
       /\ BootTarget \in DOMAIN Targets
       /\ \A t \in DOMAIN Targets : Targets[t] # <<>>
       /\ Requests \subseteq {"start", "stop", "reload", "switch"}

States == {"STOPPED", "STARTING", "READY", "STOPPING"}
On == {"STARTING", "READY"}

VARIABLES sv, proc, pending, loop, mode, drain
VARIABLES mtab, kst, mi, mret, mst, mtypes   \* MountTable's
VARIABLE lg                                  \* LogLife's

Mnt == INSTANCE MountTable WITH MayFail <- MountMayFail,
                                 LoadMayFail <- MountLoadMayFail
Log == INSTANCE LogLife WITH MayFail <- InitMayFail

svars == <<sv, proc, pending, loop, mode, drain>>
mvars == <<mtab, kst, mi, mret, mst, mtypes>>
vars == <<sv, proc, pending, loop, mode, drain, mtab, kst, mi, mret, mst, mtypes, lg>>

(* A world is the part of the state a service handler changes.            *)
World(s, p, q) == [sv |-> s, proc |-> p, q |-> q]

-----------------------------------------------------------------------------
(* Observer lists: the sinks whose poll holds src, in repository order    *)
(* (NotifGraph!ObsrvOrder).                                               *)
starton_obsrv(src) == SelectSeq(RepoOrder, LAMBDA s : src \in Range(StartonPoll[s]))
stopon_obsrv(src) == SelectSeq(RepoOrder, LAMBDA s : src \in Range(StoponPoll[s]))

(* The svc_handle_notif(sink, src) calls a notifier makes, in order.     *)
Notifications(src, sinks) == [i \in DOMAIN sinks |-> [src |-> src, sink |-> sinks[i]]]

(* svc_mark_ready / svc_mark_stopped, the notifications left to Deliver.  *)
svc_mark_ready(w, s) ==
    [w EXCEPT !.sv[s].state = "READY",
              !.q = @ \o Notifications(s, starton_obsrv(s))]

svc_mark_stopped(w, s) ==
    [w EXCEPT !.sv[s].child = NoChild, !.sv[s].state = "STOPPED",
              !.q = @ \o Notifications(s, stopon_obsrv(s))]

(* svc_spawn: np is the PID vfork() returns, NoChild when it fails (the   *)
(* code stores -errno, which every test treats as "no child"); on success *)
(* the service timer is (re)armed.  The timeout is not modelled.          *)
svc_spawn(w, s, np) ==
    IF np = NoChild
    THEN [w EXCEPT !.sv[s].child = NoChild]
    ELSE [w EXCEPT !.sv[s].child = np, !.sv[s].armed = TRUE,
                   !.proc[np] = [st |-> "run", owner |-> s, status |-> "ok"]]

(* svc_may_start / svc_may_stop: every wired notifier is READY / STOPPED  *)
(* (the poll's members are distinct, so counting them down is the same).  *)
svc_may_start(w, s) == \A n \in Range(StartonPoll[s]) : w.sv[n].state = "READY"
svc_may_stop(w, s) == \A n \in Range(StoponPoll[s]) : w.sv[n].state = "STOPPED"

(* svc_spawn_start_cmd: the next start command, or once they are all done *)
(* the daemon (if any) and the service is marked READY.  start_cmd values *)
(* at or past StartNr[s] behave alike and are kept at StartNr[s].         *)
svc_spawn_start_cmd(w, s, np) ==
    LET mark == w.sv[s].start >= StartNr[s]
        args == ~mark \/ HasDaemon[s]
        w1 == IF args THEN svc_spawn(w, s, np) ELSE [w EXCEPT !.sv[s].child = NoChild]
    IN IF mark /\ ~(args /\ np = NoChild) THEN svc_mark_ready(w1, s) ELSE w1

(* Mutant: the stop sequence ends one command late (> for >=).            *)
SpawnStopCmdOffByOne(w, s, np) ==
    LET w1 == [w EXCEPT !.sv[s].stop = @ + 1]
    IN IF w1.sv[s].stop > StopNr[s] THEN svc_mark_stopped(w1, s) ELSE svc_spawn(w1, s, np)

svc_spawn_stop_cmd(w, s, np) ==
    LET w1 == [w EXCEPT !.sv[s].stop = @ + 1]
    IN IF w1.sv[s].stop >= StopNr[s] THEN svc_mark_stopped(w1, s) ELSE svc_spawn(w1, s, np)

(* svc_kill succeeds when child > 0 and the process exists (zombie too);  *)
(* only SIGKILL has a modelled effect: the process will die.              *)
svc_kill(w, s) == w.sv[s].child \in Pid /\ w.proc[w.sv[s].child].st # "free"

SigKill(w, s) ==
    LET c == w.sv[s].child
    IN IF w.proc[c].st = "run" THEN [w EXCEPT !.proc[c].st = "kill"] ELSE w

svc_start(w, s, np) ==
    LET w1 == [w EXCEPT !.sv[s].state = "STARTING", !.sv[s].start = 0]
    IN IF svc_may_start(w1, s) THEN svc_spawn_start_cmd(w1, s, np) ELSE w1

(* Mutant: svc_stop goes to the stop sequence without killing the child.  *)
SvcStopNoKill(w, s, np) ==
    LET w1 == [w EXCEPT !.sv[s].state = "STOPPING", !.sv[s].stop = -1]
    IN IF ~svc_may_stop(w1, s) THEN w1 ELSE svc_spawn_stop_cmd(w1, s, np)

(* svc_stop: the stop signal itself has no modelled effect (the process   *)
(* may exit or not, as any running process).                              *)
svc_stop(w, s, np) ==
    LET w1 == [w EXCEPT !.sv[s].state = "STOPPING", !.sv[s].stop = -1]
    IN CASE ~svc_may_stop(w1, s) -> w1
         [] svc_kill(w1, s)      -> [w1 EXCEPT !.sv[s].armed = TRUE]
         [] OTHER                -> svc_spawn_stop_cmd(w1, s, np)

(* Mutant: the flap-guard branch forgets to clear the child slot.         *)
HandleOnEvtsKeepChild(w, s, status, np) ==
    LET x == w.sv[s]
    IN CASE x.state = "STARTING" /\ status = "ok" ->
              svc_spawn_start_cmd([w EXCEPT !.sv[s].start = IF @ < StartNr[s] THEN @ + 1 ELSE @],
                                  s, np)
         [] ~x.armed ->
              svc_spawn_start_cmd([w EXCEPT !.sv[s].state = "STARTING"], s, np)
         [] OTHER -> w

(* svc_handle_on_evts for SVC_EXIT_EVT (STARTING or READY): a clean exit  *)
(* in STARTING moves to the next command; any other exit respawns at once *)
(* unless the timer is armed (flap guard): then the slot is cleared.      *)
svc_handle_on_evts(w, s, status, np) ==
    LET x == w.sv[s]
    IN CASE x.state = "STARTING" /\ status = "ok" ->
              svc_spawn_start_cmd([w EXCEPT !.sv[s].start = IF @ < StartNr[s] THEN @ + 1 ELSE @],
                                  s, np)
         [] ~x.armed ->
              svc_spawn_start_cmd([w EXCEPT !.sv[s].state = "STARTING"], s, np)
         [] OTHER -> [w EXCEPT !.sv[s].child = NoChild]

(* svc_handle_off_evts for SVC_EXIT_EVT in STOPPING (a STOPPED service    *)
(* has no child, so it never gets one).                                   *)
svc_handle_off_evts(w, s, np) == svc_spawn_stop_cmd(w, s, np)

(* Mutant: svc_stop leaves the on-handlers installed.                      *)
HandleEvtsOnUntilStopped(w, s, status, np) ==
    IF w.sv[s].state # "STOPPED" THEN svc_handle_on_evts(w, s, status, np)
                                 ELSE svc_handle_off_evts(w, s, np)

(* svc_handle_evts: the handler family installed with the state.          *)
svc_handle_evts(w, s, status, np) ==
    IF w.sv[s].state \in On THEN svc_handle_on_evts(w, s, status, np)
                            ELSE svc_handle_off_evts(w, s, np)

svc_handle_on_notif(w, s, src, np) ==
    IF /\ w.sv[s].state = "STARTING" /\ w.sv[src].state = "READY"
       /\ svc_may_start(w, s)
    THEN svc_spawn_start_cmd(w, s, np) ELSE w

svc_handle_off_notif(w, s, src, np) ==
    IF /\ w.sv[s].state = "STOPPING" /\ w.sv[src].state = "STOPPED"
       /\ svc_may_stop(w, s)
    THEN svc_spawn_stop_cmd(w, s, np) ELSE w

svc_expire_on(w, s, np) ==
    IF w.sv[s].state = "STARTING" /\ w.sv[s].child = NoChild
    THEN svc_spawn_start_cmd(w, s, np) ELSE w

(* Mutant: svc_expire_off gives up instead of sending SIGKILL.            *)
ExpireOffNoKill(w, s, np) ==
    CASE w.sv[s].state = "STOPPING" /\ svc_kill(w, s) -> w
      [] w.sv[s].state = "STOPPING" -> svc_spawn_stop_cmd(w, s, np)
      [] OTHER -> w

svc_expire_off(w, s, np) ==
    CASE w.sv[s].state = "STOPPING" /\ svc_kill(w, s) -> SigKill(w, s)
      [] w.sv[s].state = "STOPPING" -> svc_spawn_stop_cmd(w, s, np)
      [] OTHER -> w

-----------------------------------------------------------------------------
Init ==
    /\ sv = [s \in Svc |-> [state |-> "STOPPED", child |-> NoChild,
                            armed |-> FALSE, start |-> 0, stop |-> -1]]
    /\ proc = [p \in Pid |-> [st |-> "free", owner |-> CHOOSE s \in Svc : TRUE,
                              status |-> "ok"]]
    /\ pending = <<>>
    /\ loop = [op |-> "none", i |-> 1, tgt |-> BootTarget, cnt |-> 0]
    /\ mode = "main"
    /\ lg = Log!LogInit
    /\ drain = 0
    /\ Mnt!Init

Now == World(sv, proc, <<>>)

(* The outcomes vfork() may have given the current process table.         *)
SpawnChoices(pr) ==
    LET free == {p \in Pid : pr[p].st = "free"}
    IN free \cup (IF SpawnMayFail \/ free = {} THEN {NoChild} ELSE {})

(* Install the world a handler left; its notifications go in front.       *)
Apply(w) ==
    /\ sv' = w.sv
    /\ proc' = w.proc
    /\ pending' = w.q \o pending

(* The event loop dispatches an event only when no handler is running.    *)
Idle ==
    /\ pending = <<>>
    /\ loop.op = "none"
    /\ mode \in {"running", "draining"}

(* One synchronous call svc_handle_notif(sink, src) of a cascade.         *)
Deliver ==
    /\ pending # <<>>
    /\ \E np \in SpawnChoices(proc) :
          LET n == Head(pending)
              w == IF sv[n.sink].state \in On
                   THEN svc_handle_on_notif(Now, n.sink, n.src, np)
                   ELSE svc_handle_off_notif(Now, n.sink, n.src, np)
          IN /\ sv' = w.sv /\ proc' = w.proc
             /\ pending' = w.q \o Tail(pending)
    /\ UNCHANGED <<loop, mode, drain>>

(* main() up to the first tinit_poll: the loggers are set up (tinit_     *)
(* preinit_logs), the cwd and the early mounts, the loggers' multi and    *)
(* message queue part (tinit_postinit_logs), the standard I/Os, the       *)
(* environment, the repository, then in tinit_loop the poller, the signal *)
(* channel and tinit_target_start up to its first svc_start.  Nothing     *)
(* runs concurrently yet.  A failing step ends in tinit_shutdown, with no *)
(* service started.                                                       *)
Main ==
    /\ mode = "main"
    /\ LET l0 == Log!PreinitLogs(lg)
       IN \/ InitMayFail /\ lg' = l0 /\ mode' = "down" /\ UNCHANGED loop
          \/ \E l1 \in Log!PostinitLogs(l0) :
               \/ InitMayFail /\ lg' = l1 /\ mode' = "down" /\ UNCHANGED loop
               \/ /\ lg' = l1 /\ mode' = "boot"
                  /\ loop' = [loop EXCEPT !.op = "boot"]
    /\ UNCHANGED <<sv, proc, pending, drain>> /\ UNCHANGED mvars

(* tinit_target_start: svc_start on each service of the boot target in    *)
(* folder order, before the event loop polls anything.                    *)
BootStep ==
    /\ loop.op = "boot" /\ pending = <<>>
    /\ loop.i <= Len(Targets[loop.tgt])
    /\ \E np \in SpawnChoices(proc) :
          Apply(svc_start(Now, Targets[loop.tgt][loop.i], np))
    /\ loop' = [loop EXCEPT !.i = @ + 1]
    /\ UNCHANGED <<mode, drain>>

BootDone ==
    /\ loop.op = "boot" /\ pending = <<>>
    /\ loop.i > Len(Targets[loop.tgt])
    /\ loop' = [loop EXCEPT !.op = "none"]
    /\ mode' = "running"
    /\ UNCHANGED <<sv, proc, pending, drain>>

(* A process exits on its own (any status), or dies of SIGKILL.           *)
ChildExit(p) ==
    /\ proc[p].st = "run"
    /\ \E status \in {"ok", "fail"} :
          proc' = [proc EXCEPT ![p].st = "zombie", ![p].status = status]
    /\ UNCHANGED <<sv, pending, loop, mode, drain>>

KilledExit(p) ==
    /\ proc[p].st = "kill"
    /\ proc' = [proc EXCEPT ![p].st = "zombie", ![p].status = "fail"]
    /\ UNCHANGED <<sv, pending, loop, mode, drain>>

(* tinit_repo_search_bypid: the first service, in repository order, whose *)
(* child slot holds p.                                                    *)
tinit_repo_search_bypid(p) == SelectSeq(RepoOrder, LAMBDA s : sv[s].child = p)

(* Mutant: every reaped service child is counted off, stopped or not.     *)
CountReaped(w, s) == IF mode = "draining" /\ drain > 0 THEN 1 ELSE 0

(* tinit_sigchan_handle_sigchld counts the services its EXIT event left   *)
(* STOPPED; tinit_sigchan_dispatch_stopping subtracts them while draining.*)
CountStopped(w, s) == IF mode = "draining" /\ w.sv[s].state = "STOPPED" THEN 1 ELSE 0

(* One waitid() of tinit_sigchan_handle_sigchld: the zombie is reaped,    *)
(* its service, if any, handles SVC_EXIT_EVT, and when the drain count    *)
(* drops to zero the channel closes once the cascade is over.             *)
Reap(p) ==
    /\ Idle
    /\ proc[p].st = "zombie"
    /\ LET pr == [proc EXCEPT ![p].st = "free"]
           owners == tinit_repo_search_bypid(p)
       IN IF owners = <<>>
          THEN /\ proc' = pr
               /\ UNCHANGED <<sv, pending, mode, drain>>
          ELSE LET s == Head(owners)
               IN \E np \in SpawnChoices(pr) :
                    LET w == svc_handle_evts(World(sv, pr, <<>>), s, proc[p].status, np)
                        cnt == CountStopped(w, s)
                    IN /\ Apply(w)
                       /\ drain' = drain - cnt
                       /\ mode' = IF cnt = 1 /\ drain = 1 THEN "closing" ELSE mode
    /\ UNCHANGED loop

(* utimer expiry: the timer is disarmed and the callback utimer_setup    *)
(* installed with the state (svc_start / svc_stop) runs.                  *)
Expire(s) ==
    /\ Idle
    /\ sv[s].armed
    /\ \E np \in SpawnChoices(proc) :
          LET w == World([sv EXCEPT ![s].armed = FALSE], proc, <<>>)
          IN Apply(IF sv[s].state \in On THEN svc_expire_on(w, s, np)
                                         ELSE svc_expire_off(w, s, np))
    /\ UNCHANGED <<loop, mode, drain>>

(* Control requests (tinit_srv_request_start / _stop / _reload), served    *)
(* only while the control server is open, i.e. before shutdown.           *)
ReqStart(s) ==
    /\ Idle /\ mode = "running" /\ "start" \in Requests
    /\ sv[s].state \notin On
    /\ \E np \in SpawnChoices(proc) : Apply(svc_start(Now, s, np))
    /\ UNCHANGED <<loop, mode, drain>>

ReqStop(s) ==
    /\ Idle /\ mode = "running" /\ "stop" \in Requests
    /\ sv[s].state \in On
    /\ \E np \in SpawnChoices(proc) : Apply(svc_stop(Now, s, np))
    /\ UNCHANGED <<loop, mode, drain>>

(* A STOPPED or STOPPING service is started; a READY one gets svc_reload, *)
(* whose signal has no modelled effect on the process.                    *)
ReqReload(s) ==
    /\ Idle /\ mode = "running" /\ "reload" \in Requests
    /\ sv[s].state # "STARTING"
    /\ IF sv[s].state = "READY"
       THEN UNCHANGED <<sv, proc, pending>>
       ELSE \E np \in SpawnChoices(proc) : Apply(svc_start(Now, s, np))
    /\ UNCHANGED <<loop, mode, drain>>

(* tinit_target_switch: a walk of the repository that stops the active    *)
(* services out of the target and starts the inactive ones in it.         *)
ReqSwitch(t) ==
    /\ Idle /\ mode = "running" /\ "switch" \in Requests
    /\ loop' = [op |-> "switch", i |-> 1, tgt |-> t, cnt |-> 0]
    /\ UNCHANGED <<sv, proc, pending, mode, drain>>

SwitchStep ==
    /\ loop.op = "switch" /\ pending = <<>>
    /\ loop.i <= Len(RepoOrder)
    /\ LET s == RepoOrder[loop.i]
           in == s \in Range(Targets[loop.tgt])
       IN \E np \in SpawnChoices(proc) :
            CASE ~in /\ sv[s].state \in On -> Apply(svc_stop(Now, s, np))
              [] in /\ sv[s].state \notin On -> Apply(svc_start(Now, s, np))
              [] OTHER -> UNCHANGED <<sv, proc, pending>>
    /\ loop' = [loop EXCEPT !.i = @ + 1]
    /\ UNCHANGED <<mode, drain>>

SwitchDone ==
    /\ loop.op = "switch" /\ pending = <<>>
    /\ loop.i > Len(RepoOrder)
    /\ loop' = [loop EXCEPT !.op = "none"]
    /\ UNCHANGED <<sv, proc, pending, mode, drain>>

(* A shutdown signal (SIGTERM, SIGUSR1/2, SIGPWR) from a user process:    *)
(* tinit_poll returns, the control server is closed and tinit_target_stop *)
(* walks the repository.                                                  *)
Shutdown ==
    /\ Idle /\ mode = "running"
    /\ mode' = "stopping"
    /\ loop' = [op |-> "stop", i |-> 1, tgt |-> BootTarget, cnt |-> 0]
    /\ UNCHANGED <<sv, proc, pending, drain>>

(* One service of tinit_target_stop: an active service is stopped and     *)
(* counted unless svc_stop left it STOPPED; a STOPPING one is counted.    *)
StopStep ==
    /\ loop.op = "stop" /\ pending = <<>>
    /\ loop.i <= Len(RepoOrder)
    /\ LET s == RepoOrder[loop.i]
       IN \E np \in SpawnChoices(proc) :
            LET w == IF sv[s].state \in On THEN svc_stop(Now, s, np) ELSE Now
            IN /\ Apply(w)
               /\ loop' = [loop EXCEPT !.i = @ + 1,
                           !.cnt = @ + (IF w.sv[s].state = "STOPPED" THEN 0 ELSE 1)]
    /\ UNCHANGED <<mode, drain>>
(* Mutant: the channel is handed one service fewer than were counted.    *)
StopDoneOffByOne ==
    /\ loop.op = "stop" /\ pending = <<>>
    /\ loop.i > Len(RepoOrder)
    /\ loop' = [loop EXCEPT !.op = "none"]
    /\ mode' = "draining"
    /\ drain' = loop.cnt - 1
    /\ UNCHANGED <<sv, proc, pending>>


(* tinit_sigchan_stop(cnt): the channel now counts stopped services.      *)
StopDone ==
    /\ loop.op = "stop" /\ pending = <<>>
    /\ loop.i > Len(RepoOrder)
    /\ loop' = [loop EXCEPT !.op = "none"]
    /\ mode' = "draining"
    /\ drain' = loop.cnt
    /\ UNCHANGED <<sv, proc, pending>>

(* The count reached zero: once the current SIGCHLD handler is over, the  *)
(* channel is unregistered and tinit_loop returns to reboot the system.   *)
Close ==
    /\ mode = "closing" /\ pending = <<>>
    /\ mode' = "down"
    /\ UNCHANGED <<sv, proc, pending, loop, drain>>

(* tinit_loop has returned: tinit_shutdown kills every process left       *)
(* (kill(-1, SIGKILL)) and waits for each of them (tinit_killall).         *)
Killall ==
    /\ mode = "down"
    /\ proc' = [p \in Pid |-> [proc[p] EXCEPT !.st = "free"]]
    /\ lg' = Log!PrefiniLogs(lg)
    /\ mode' = "umount"
    /\ UNCHANGED <<sv, pending, loop, drain>> /\ UNCHANGED mvars

(* mnt_umount_all(MNT_FORCE), one step of it.                             *)
Unmount ==
    /\ mode = "umount"
    /\ Mnt!OpenTable \/ Mnt!Step
    /\ UNCHANGED svars /\ UNCHANGED lg

(* The end of tinit_shutdown once mnt_umount_all returned: the loggers    *)
(* are finalized (tinit_postfini_logs) and the reboot() child is forked.  *)
Reboot ==
    /\ mode = "umount" /\ mst = "done"
    /\ lg' = Log!PostfiniLogs(lg)
    /\ mode' = "halted"
    /\ UNCHANGED <<sv, proc, pending, loop, drain>> /\ UNCHANGED mvars

(* PID 1 sleeps forever after the fork, or died in the unmount loop.      *)
Halt ==
    /\ mode = "halted" \/ mst = "abort"
    /\ UNCHANGED vars

Loop ==
    \/ Deliver \/ BootStep \/ BootDone
    \/ \E p \in Pid : ChildExit(p) \/ KilledExit(p) \/ Reap(p)
    \/ \E s \in Svc : Expire(s) \/ ReqStart(s) \/ ReqStop(s) \/ ReqReload(s)
    \/ \E t \in DOMAIN Targets : ReqSwitch(t)
    \/ SwitchStep \/ SwitchDone
    \/ Shutdown \/ StopStep \/ StopDone \/ Close

Next == (Loop /\ UNCHANGED mvars /\ UNCHANGED lg) \/ Main \/ Killall \/ Unmount \/ Reboot \/ Halt

(* The loop's own steps are weakly fair; SIGKILL always kills; a zombie   *)
(* is eventually reaped and an armed timer eventually fires, even though  *)
(* other events may keep the loop busy in between.  Processes exiting on  *)
(* their own, requests and shutdown signals come from the environment.   *)
(* The loop's actions leave the mount variables alone, so their fairness *)
(* is stated on svars; the shutdown sequence after the loop (Killall,   *)
(* then the unmount loop), like main()'s setup before the loop, runs     *)
(* without waiting on anything.                                          *)
Fairness ==
    /\ WF_svars(Deliver \/ BootStep \/ BootDone \/ SwitchStep \/ SwitchDone)
    /\ WF_svars(StopStep \/ StopDone \/ Close)
    /\ WF_vars(Main \/ Killall \/ Unmount \/ Reboot)
    /\ \A p \in Pid : WF_svars(KilledExit(p)) /\ SF_svars(Reap(p))
    /\ \A s \in Svc : SF_svars(Expire(s))

Spec == Init /\ [][Next]_vars /\ Fairness

-----------------------------------------------------------------------------
Child == Pid \cup {NoChild}

TypeOK ==
    /\ sv \in [Svc -> [state : States, child : Child, armed : BOOLEAN,
                       start : Nat, stop : Int]]
    /\ \A s \in Svc : sv[s].start <= StartNr[s] /\ sv[s].stop \in -1..StopNr[s]
    /\ proc \in [Pid -> [st : {"free", "run", "kill", "zombie"}, owner : Svc,
                         status : {"ok", "fail"}]]
    /\ pending \in Seq([src : Svc, sink : Svc])
    /\ loop.op \in {"none", "boot", "switch", "stop"}
    /\ mode \in {"main", "boot", "running", "stopping", "draining", "closing",
                 "down", "umount", "halted"}
    /\ drain \in Nat
    /\ Mnt!TypeOK
    /\ Log!LogTypeOK

(* A service's child slot never names a PID that has been reaped (and may *)
(* be reused): every SVC_EXIT_EVT path of svc_handle_on_evts /            *)
(* svc_handle_off_evts rewrites child, by a spawn, by -1, or by           *)
(* svc_mark_stopped; otherwise svc_kill could signal a stranger.          *)
NoStalePid ==
    \A s \in Svc : sv[s].child \in Pid =>
        proc[sv[s].child].st # "free" /\ proc[sv[s].child].owner = s

(* Every live process tinit spawned is in its service's child slot: no    *)
(* spawn overwrites a slot whose process still runs, and no service is    *)
(* marked STOPPED while its process runs.  An untracked process is never  *)
(* stopped or killed by tinit.                                            *)
NoUntrackedChild ==
    \A p \in Pid : proc[p].st \in {"run", "kill"} => sv[proc[p].owner].child = p

(* While the signal channel drains (tinit_sigchan_dispatch_stopping), its *)
(* count is the number of services not yet STOPPED, so that it reaches    *)
(* zero exactly when the last one stops.                                  *)
DrainAccounting ==
    mode = "draining" /\ pending = <<>> =>
        drain = Cardinality({s \in Svc : sv[s].state # "STOPPED"})

(* tinit only leaves the drain loop (to kill what is left and reboot)     *)
(* once every service has stopped.                                        *)
DownMeansStopped ==
    mode \in {"closing", "down", "umount", "halted"} /\ pending = <<>> =>
        \A s \in Svc : sv[s].state = "STOPPED"

(* A shutdown request always completes: once tinit_target_stop has run,   *)
(* the drain loop eventually ends, and the filesystems are unmounted      *)
(* before the reboot.                                                     *)
ShutdownCompletes == mode = "draining" ~> mst = "done"

(* svc_reload asserts that the READY service it signals has a child       *)
(* (child > 0), and tinit_srv_request_reload calls it for every READY     *)
(* service a client names: the assertion holds only if no READY service   *)
(* is ever without a child.                                               *)
ReloadSafe == \A s \in Svc : sv[s].state = "READY" => sv[s].child \in Pid

(* The services implement ServiceLife: each step moves at most one        *)
(* service along the life cycle the spec gives, no event turns a service  *)
(* on or off, nothing is started once shutdown began, and (with fairness) *)
(* every stop sequence ends.                                              *)
Life == INSTANCE ServiceLife WITH run <- [s \in Svc |-> sv[s].state],
                                  down <- mode \notin {"main", "boot", "running"}
LifeSafety == Life!SafetySpec
LifeSpec == Life!Spec

(* LogLife's properties of the loggers main() and tinit_shutdown use.     *)
LoggerLive == Log!LoggerLive
MqDestroyedOnce == Log!MqDestroyedOnce

(* MountTable's properties of the unmount that ends the shutdown.         *)
UmountReported == Mnt!UmountReported
LeavesFirst == Mnt!LeavesFirst
MountTypesKnown == Mnt!MountTypesKnown
RootReadOnly == Mnt!RootReadOnly

=============================================================================
