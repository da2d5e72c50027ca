------------------------------ MODULE LogLife ------------------------------
(***************************************************************************)
(* The life of tinit's loggers (src/log.c): tinit_logger, the stdio logger *)
(* tinit_stdlog, the multi logger tinit_toplog and the message queue       *)
(* logger tinit_mqlog.  A record lg holds what each pointer designates and *)
(* the state of each object; the operations are operators from one record *)
(* to the records the call may leave, for main() and tinit_shutdown to     *)
(* chain.  The loggers' severity and format (tinit_parse_stdlog_arg,       *)
(* tinit_parse_mqlog_arg) are data no property reads.                     *)
(***************************************************************************)
EXTENDS Naturals

CONSTANT MayFail    \* whether registering and creating loggers may fail

VARIABLE lg

(* Static storage before tinit_preinit_logs.                              *)
LogInit == [logger |-> "none", std |-> "off", top |-> "off", subs |-> {},
            mq |-> "null", mqfree |-> 0]

(* tinit_preinit_logs                                                      *)
PreinitLogs(l) == [l EXCEPT !.std = "live", !.logger = "std", !.top = "live"]

(* tinit_create_mqueue: NULL when umq_new, ufd_fchown or                  *)
(* elog_create_mqueue_bymqd fails (the descriptor is closed); a missing   *)
(* "elogd" group only falls back to gid 0.                                *)
CreateMqueue == {"log"} \cup (IF MayFail THEN {"NULL"} ELSE {})

(* elog_register_multi_sublog: fails only when it cannot allocate.       *)
Register == {"OK"} \cup (IF MayFail THEN {"ENOMEM"} ELSE {})

(* tinit_postinit_logs: the stdio logger joins the multi logger, then the *)
(* message queue logger; the multi logger becomes tinit_logger only when *)
(* both joined.  A message queue logger that fails to join is destroyed, *)
(* but tinit_mqlog keeps pointing to it.                                  *)
PostinitLogs(l) ==
    LET withStd == [l EXCEPT !.subs = {"std"}]
    IN  { l : r \in Register \ {"OK"} }
        \cup { withStd : c \in CreateMqueue \ {"log"} }
        \cup { IF r = "OK"
               THEN [withStd EXCEPT !.subs = {"std", "mq"}, !.mq = "live", !.logger = "top"]
               ELSE [withStd EXCEPT !.mq = "freed", !.mqfree = @ + 1]
             : r \in Register }

(* Mutant: tinit_logger is left on the multi logger.                      *)
PrefiniLogsKeepTop(l) ==
    IF l.mq # "null" THEN [l EXCEPT !.mq = "freed", !.mqfree = @ + 1] ELSE l

(* tinit_prefini_logs: back to the stdio logger, then elog_destroy of     *)
(* tinit_mqlog if it is not NULL.                                          *)
PrefiniLogs(l) ==
    IF l.mq # "null" THEN [l EXCEPT !.logger = "std", !.mq = "freed", !.mqfree = @ + 1]
                     ELSE [l EXCEPT !.logger = "std"]

(* tinit_postfini_logs: elog_fini_multi, then elog_fini_stdio.            *)
PostfiniLogs(l) == [l EXCEPT !.top = "fini", !.std = "fini"]

-----------------------------------------------------------------------------
Objects == {"none", "std", "top"}

LogTypeOK ==
    lg \in [logger : Objects, std : {"off", "live", "fini"},
            top : {"off", "live", "fini"}, subs : SUBSET {"std", "mq"},
            mq : {"null", "live", "freed"}, mqfree : 0..2]

(* The object behind a logger and every logger it forwards to are live.   *)
Writable(o) ==
    \/ o = "std" /\ lg.std = "live"
    \/ /\ o = "top" /\ lg.top = "live"
       /\ "std" \in lg.subs => lg.std = "live"
       /\ "mq" \in lg.subs => lg.mq = "live"

(* Every message tinit logs, from tinit_preinit_logs until                *)
(* tinit_postfini_logs, goes through live loggers only: whatever          *)
(* registration or creation failed, and after tinit_prefini_logs has      *)
(* destroyed the message queue logger that the multi logger still lists.  *)
LoggerLive == lg.logger # "none" /\ lg.std # "fini" => Writable(lg.logger)

(* elog_destroy is called at most once on the message queue logger.       *)
MqDestroyedOnce == lg.mqfree <= 1

=============================================================================
