---------------------------- MODULE StatusCodec ----------------------------
(***************************************************************************)
(* The STATUS reply: how the server packs one record per matching service  *)
(* into a datagram (src/srv.c tinit_srv_request_status and                 *)
(* tinit_srv_append_status_reply) and how the client library walks it     *)
(* back (src/lib.c tinit_parse_status_reply, tinit_step_status and         *)
(* tinit_parse_status_data, driven by show_status in src/svctl.c).        *)
(*                                                                         *)
(* The two sides compute record offsets with two different formulas: the   *)
(* server rounds the reply size reached so far up to the record size, the  *)
(* client adds the rounded size of the record it stands on.  Byte contents *)
(* are abstracted to the record written at each offset.                    *)
(***************************************************************************)
EXTENDS Integers, Sequences, SequencesExt

CONSTANTS
    MsgSizeMax,   \* TINIT_MSG_SIZE_MAX
    NameMax,      \* NAME_MAX: bound of a conf path length
    MaxSvc,       \* most services a repository listing holds
    PathLens,     \* lengths conf_get_path() may return
    Pids          \* values of a child slot (a PID, or -1 for none)

ASSUME PathLens \subseteq 1..(NameMax - 1)

States == {"STOPPED", "STARTING", "READY", "STOPPING"}

(* Layout of the structures of src/include/tinit/tinit.h and src/proto.h.  *)
DataSz  == 8   \* sizeof(struct tinit_status_data)
PathOff == 6   \* offsetof(struct tinit_status_data, conf_path)
HeadSz  == 6   \* sizeof(struct tinit_reply_head)
ReplySz == 8   \* sizeof(struct tinit_status_reply) = offset of statuses[0]

(* stroll_round_upper / uround_upper.                                      *)
RoundUp(x, a) == ((x + a - 1) \div a) * a

(* What fnmatch() answers for one service name.                            *)
FnResults == {"match", "nomatch", "error"}

Entry == [fn : FnResults, pid : Pids, state : States, len : PathLens]

(* svc_is_on: the "on" handlers are installed in STARTING and READY.       *)
IsOn(e) == e.state \in {"STARTING", "READY"}

VARIABLES
    repo,   \* the repository listing, in order, with each name's fnmatch result
    i,      \* the server loop cursor
    buf,    \* the reply buffer: ret, bytes, record count, records written
    clnt,   \* the client iterator: step, current offset and length, rows read, result
    phase   \* "srv" while the server builds the reply, "clnt" after

vars == <<repo, i, buf, clnt, phase>>

Inputs == UNION {[1..n -> Entry] : n \in 0..MaxSvc}

-----------------------------------------------------------------------------
(* tinit_srv_build_reply: the reply shrinks to its head, carrying ret.     *)
BuildReply(err) == [buf EXCEPT !.ret = err, !.bytes = HeadSz]

Init ==
    /\ repo \in Inputs
    /\ i = 1
    \* tinit_srv_setup_status_reply
    /\ buf = [ret |-> "OK", bytes |-> ReplySz, cnt |-> 0, recs |-> <<>>]
    /\ clnt = [st |-> "load", off |-> 0, len |-> 0, got |-> <<>>, ret |-> "OK"]
    /\ phase = "srv"

Svc == repo[i]

(* FNM_NOMATCH: continue with the next service.                            *)
SrvSkip ==
    /\ phase = "srv" /\ i <= Len(repo) /\ Svc.fn = "nomatch"
    /\ i' = i + 1
    /\ UNCHANGED <<repo, buf, clnt, phase>>

(* Any other fnmatch error: the reply becomes EINVAL.                      *)
SrvGlobError ==
    /\ phase = "srv" /\ i <= Len(repo) /\ Svc.fn = "error"
    /\ buf' = BuildReply("EINVAL")
    /\ phase' = "clnt"
    /\ UNCHANGED <<repo, i, clnt>>

(* tinit_srv_append_status_reply: the next record starts at the reply size *)
(* rounded up to the record size; past TINIT_MSG_SIZE_MAX the reply       *)
(* becomes ENOSPC and the loop ends.                                       *)
(* Mutant: the record is put at the reply size, not rounded up to the     *)
(* record size.                                                            *)
RecOffNoRound == buf.bytes

RecOff == RoundUp(buf.bytes, DataSz)

AppendSize == RecOff + DataSz + Svc.len + 1

(* Mutant: the size is checked before the record's own size is added.     *)
SrvAppendCheckEarly ==
    /\ phase = "srv" /\ i <= Len(repo) /\ Svc.fn = "match"
    /\ RecOff <= MsgSizeMax
    /\ buf' = [buf EXCEPT
                 !.recs = Append(@, [off |-> RecOff,
                                     pid |-> Svc.pid, adm |-> IsOn(Svc),
                                     run |-> Svc.state, len |-> Svc.len]),
                 !.bytes = AppendSize,
                 !.cnt = @ + 1]
    /\ i' = i + 1
    /\ UNCHANGED <<repo, clnt, phase>>

SrvAppend ==
    /\ phase = "srv" /\ i <= Len(repo) /\ Svc.fn = "match"
    /\ AppendSize <= MsgSizeMax
    /\ buf' = [buf EXCEPT
                 !.recs = Append(@, [off |-> RecOff,
                                     pid |-> Svc.pid, adm |-> IsOn(Svc),
                                     run |-> Svc.state, len |-> Svc.len]),
                 !.bytes = AppendSize,
                 !.cnt = @ + 1]
    /\ i' = i + 1
    /\ UNCHANGED <<repo, clnt, phase>>

SrvNoSpace ==
    /\ phase = "srv" /\ i <= Len(repo) /\ Svc.fn = "match"
    /\ AppendSize > MsgSizeMax
    /\ buf' = BuildReply("ENOSPC")
    /\ phase' = "clnt"
    /\ UNCHANGED <<repo, i, clnt>>

(* End of the repository: no match at all is ENOENT.                       *)
SrvEnd ==
    /\ phase = "srv" /\ i > Len(repo)
    /\ buf' = IF buf.cnt = 0 THEN BuildReply("ENOENT") ELSE buf
    /\ phase' = "clnt"
    /\ UNCHANGED <<repo, i, clnt>>

-----------------------------------------------------------------------------
(* tinit_parse_status_data: the record at off of a reply ending at end.    *)
(* An offset where the server wrote no record reads whatever the buffer    *)
(* holds there: "garbage".                                                 *)
ParseStatusData(off, end) ==
    LET at == SelectSeq(buf.recs, LAMBDA r : r.off = off)
        max == IF end - (off + PathOff) < NameMax
               THEN end - (off + PathOff) ELSE NameMax
    IN IF off + PathOff >= end THEN [ret |-> "ENOENT"]
       ELSE IF at = <<>> THEN [ret |-> "garbage"]
       ELSE LET r == at[1]
                len == IF r.len < max THEN r.len ELSE max   \* strnlen
            IN IF len = 0 \/ len >= max THEN [ret |-> "EPROTO"]
               ELSE IF ~r.adm /\ r.run \in {"STOPPED", "STOPPING"}
                    THEN [ret |-> "OK", len |-> len, row |-> [r EXCEPT !.pid = 0]]
               ELSE IF r.adm /\ r.run = "STARTING"
                    THEN [ret |-> "OK", len |-> len, row |-> [r EXCEPT !.pid = 0]]
               ELSE IF r.adm /\ r.run = "READY" /\ r.pid # 0
                    THEN [ret |-> "OK", len |-> len, row |-> r]
               ELSE [ret |-> "EPROTO"]

Row(r) == [pid |-> r.pid, adm |-> r.adm, run |-> r.run, len |-> r.len]

(* tinit_parse_status_reply (tinit_load_status): a ret in the head is the  *)
(* answer; otherwise the first record must parse.                          *)
Load ==
    /\ phase = "clnt" /\ clnt.st = "load"
    /\ LET d == ParseStatusData(ReplySz, buf.bytes)
       IN clnt' = CASE buf.ret # "OK"      -> [clnt EXCEPT !.st = "done", !.ret = buf.ret]
                    [] buf.bytes < ReplySz -> [clnt EXCEPT !.st = "done", !.ret = "EPROTO"]
                    [] d.ret # "OK"        -> [clnt EXCEPT !.st = "done", !.ret = "EPROTO"]
                    [] OTHER -> [clnt EXCEPT !.st = "iter", !.off = ReplySz,
                                             !.len = d.len, !.got = <<Row(d.row)>>]
    /\ UNCHANGED <<repo, i, buf, phase>>

(* tinit_step_status, looped by show_status until it fails; ENOENT is the  *)
(* normal end of the listing.                                              *)
Step ==
    /\ phase = "clnt" /\ clnt.st = "iter"
    /\ LET nxt == clnt.off + RoundUp(DataSz + clnt.len + 1, DataSz)
           d == ParseStatusData(nxt, buf.bytes)
       IN clnt' = CASE d.ret = "ENOENT" -> [clnt EXCEPT !.st = "done", !.ret = "OK"]
                    [] d.ret # "OK"     -> [clnt EXCEPT !.st = "done", !.ret = d.ret]
                    [] OTHER -> [clnt EXCEPT !.off = nxt, !.len = d.len,
                                             !.got = Append(@, Row(d.row))]
    /\ UNCHANGED <<repo, i, buf, phase>>

Shown ==
    /\ clnt.st = "done"
    /\ UNCHANGED vars

Next == SrvSkip \/ SrvGlobError \/ SrvAppend \/ SrvNoSpace \/ SrvEnd
        \/ Load \/ Step \/ Shown

Spec == Init /\ [][Next]_vars

-----------------------------------------------------------------------------
TypeOK ==
    /\ repo \in Inputs
    /\ i \in 1..(MaxSvc + 1)
    /\ buf.bytes \in 0..MsgSizeMax
    /\ clnt.st \in {"load", "iter", "done"}
    /\ phase \in {"srv", "clnt"}

(* The reference answer: the rows a listing should show, stated over the   *)
(* whole listing with the padded record sizes summed, not walked.         *)
Shows(e) == [pid |-> IF e.state = "READY" THEN e.pid ELSE 0,
             adm |-> IsOn(e), run |-> e.state, len |-> e.len]

Expected ==
    LET step(acc, e) ==
          IF acc.closed \/ e.fn = "nomatch" THEN acc
          ELSE IF e.fn = "error" THEN [acc EXCEPT !.closed = TRUE, !.ret = "EINVAL", !.got = <<>>]
          ELSE IF acc.used + DataSz + e.len + 1 > MsgSizeMax
               THEN [acc EXCEPT !.closed = TRUE, !.ret = "ENOSPC", !.got = <<>>]
          ELSE [acc EXCEPT !.used = @ + RoundUp(DataSz + e.len + 1, DataSz),
                           !.got = Append(@, Shows(e))]
        r == FoldLeft(step, [closed |-> FALSE, ret |-> "OK", used |-> ReplySz, got |-> <<>>], repo)
    IN IF r.ret = "OK" /\ r.got = <<>> THEN [ret |-> "ENOENT", got |-> <<>>]
       ELSE [ret |-> r.ret, got |-> r.got]

(* Spec 4.6 and invariant 6: the client reads back exactly the records of  *)
(* the services matched, in repository order, with the ret the server put  *)
(* in the head (EINVAL, ENOENT or ENOSPC, the last one exactly when the    *)
(* records do not fit TINIT_MSG_SIZE_MAX): the server's offsets and the    *)
(* client's steps agree and the walk ends on the last record.              *)
StatusRoundTrip ==
    clnt.st = "done" => [ret |-> clnt.ret, got |-> clnt.got] = Expected

=============================================================================
