--------------------------- MODULE ControlServer ---------------------------
(***************************************************************************)
(* The control server's datagram transport (src/srv.c) and the clients of *)
(* the control library (src/lib.c).                                        *)
(*                                                                         *)
(* The server owns a queue of NBuf buffers, each free or busy with a reply *)
(* (struct unsk_buffq).  tinit_srv_dispatch runs on the event loop when    *)
(* the socket is readable or, once write interest is armed, writable: it   *)
(* receives requests into free buffers and turns each into a reply in      *)
(* place (tinit_srv_handle_requests), then sends the busy buffers in order *)
(* (tinit_srv_handle_replies).  The loop iterations are separate steps     *)
(* because clients are other processes and run between them.              *)
(*                                                                         *)
(* A client (tinit_named_chat, tinit_load_status) sends one request with   *)
(* the socket's sequence number, increments it, and blocks for a reply     *)
(* whose seq and type it checks.  What the request does to the services   *)
(* is the Supervisor module's business; here a request only yields its     *)
(* reply code.                                                             *)
(***************************************************************************)
EXTENDS Naturals, Sequences

CONSTANTS
    Clients,       \* client sockets
    Authorized,    \* clients with uid 0 or the admin gid (tinit_srv_are_creds_ok)
    Types,         \* request types clients use
    Args,          \* request arguments: a known or an unknown name
    NBuf,          \* TINIT_SRV_SEND_BUFF_NR
    RxMax,         \* datagrams the server socket queues (max_dgram_qlen)
    ClntQMax,      \* datagrams a client socket queues
    SeqMod,        \* 2^16: sequence numbers are uint16_t
    SeqStarts,     \* first sequence numbers callers pass to tinit_open_sock
    MaxChats,      \* requests a client sends at most
    MaxFail,       \* transient EINTR/ENOMEM failures the kernel returns at most
    SendFails      \* failures tinit_srv_send may return: a subset of {"EINTR","ENOMEM"}

ASSUME /\ Authorized \subseteq Clients
       /\ NBuf \in Nat \ {0} /\ MaxChats < SeqMod
       /\ SeqStarts \subseteq 0..(SeqMod - 1)
       /\ SendFails \subseteq {"EINTR", "ENOMEM"}

Errs == {"OK", "ENOENT", "EPROTO", "EINTR"}

VARIABLES
    rx,      \* the server socket's receive queue
    free,    \* free buffers of the server's queue
    busy,    \* busy buffers, each a reply, in send order
    out,     \* EPOLLOUT watched (upoll_enable_watch / upoll_disable_watch)
    pc,      \* where the server is: "idle", "req" (handle_requests), "rep" (handle_replies)
    cq,      \* cq[c]: client c's receive queue
    cl,      \* cl[c]: the client's socket and the chat in progress
    fails    \* transient failures returned so far

vars == <<rx, free, busy, out, pc, cq, cl, fails>>

-----------------------------------------------------------------------------
(* tinit_srv_request_{start,stop,reload,switch}: ENOENT for an unknown     *)
(* name, success otherwise; RESTART is not implemented and always         *)
(* succeeds; a STATUS reply's records are StatusCodec's subject.          *)
RequestRet(type, arg) ==
    IF type # "restart" /\ arg = "unknown" THEN "ENOENT" ELSE "OK"

(* tinit_srv_build_reply: the reply overwrites the request in the same     *)
(* buffer, so it carries the request's seq and type.                       *)
BuildReply(d) ==
    [to |-> d.from, seq |-> d.seq, type |-> d.type, ret |-> RequestRet(d.type, d.arg)]

(* Mutant: the reply's sequence number is not compared.                    *)
ParseReplyNoSeq(r, req) ==
    IF r.type # req.type THEN "EPROTO" ELSE r.ret

(* tinit_parse_named_reply / tinit_parse_status_reply head check.          *)
ParseReply(r, req) ==
    IF r.seq # req.seq \/ r.type # req.type THEN "EPROTO" ELSE r.ret

Init ==
    /\ rx = <<>>
    /\ free = NBuf
    /\ busy = <<>>
    /\ out = FALSE
    /\ pc = "idle"
    /\ cq = [c \in Clients |-> <<>>]
    /\ cl = [c \in Clients |->
               [st |-> "closed", seqno |-> 0, req |-> <<>>, chats |-> 0, res |-> "OK"]]
    /\ fails = 0

-----------------------------------------------------------------------------
(* Level-triggered readiness: the socket is readable, or writable while    *)
(* write interest is armed.                                                *)
Dispatch ==
    /\ pc = "idle"
    /\ rx # <<>> \/ out
    /\ pc' = IF rx # <<>> THEN "req" ELSE "rep"
    /\ UNCHANGED <<rx, free, busy, out, cq, cl, fails>>

(* Mutant: EAGAIN from the request loop ends the dispatch, replies unsent. *)
RecvAgainNoReplies ==
    /\ pc = "req" /\ free > 0 /\ rx = <<>>
    /\ pc' = "idle"
    /\ UNCHANGED <<rx, free, busy, out, cq, cl, fails>>

(* One iteration of tinit_srv_handle_requests with a free buffer: recv     *)
(* and process.  No datagram is EAGAIN: go on with the replies.           *)
RecvAgain ==
    /\ pc = "req" /\ free > 0 /\ rx = <<>>
    /\ pc' = "rep"
    /\ UNCHANGED <<rx, free, busy, out, cq, cl, fails>>

(* EINTR or ENOMEM: the buffer is released and the error makes            *)
(* tinit_srv_dispatch return at once, replies unsent; the datagram stays.  *)
RecvFail ==
    /\ pc = "req" /\ free > 0 /\ rx # <<>> /\ fails < MaxFail
    /\ pc' = "idle"
    /\ fails' = fails + 1
    /\ UNCHANGED <<rx, free, busy, out, cq, cl>>

(* Mutant: the rejected datagram's buffer is not released.                *)
RecvRejectLeak ==
    /\ pc = "req" /\ free > 0 /\ rx # <<>>
    /\ Head(rx).from \notin Authorized
    /\ rx' = Tail(rx)
    /\ free' = free - 1
    /\ UNCHANGED <<busy, out, pc, cq, cl, fails>>

(* Rejected credentials (EACCES): the datagram is dropped unanswered.      *)
RecvReject ==
    /\ pc = "req" /\ free > 0 /\ rx # <<>>
    /\ Head(rx).from \notin Authorized
    /\ rx' = Tail(rx)
    /\ UNCHANGED <<free, busy, out, pc, cq, cl, fails>>

(* Mutant: the loop takes a buffer without asking whether one is free.    *)
RecvRequestNoFree ==
    /\ pc = "req" /\ rx # <<>>
    /\ Head(rx).from \in Authorized
    /\ rx' = Tail(rx)
    /\ free' = free - 1
    /\ busy' = Append(busy, BuildReply(Head(rx)))
    /\ UNCHANGED <<out, pc, cq, cl, fails>>

(* Accepted: the request is processed and its buffer queued busy.          *)
RecvRequest ==
    /\ pc = "req" /\ free > 0 /\ rx # <<>>
    /\ Head(rx).from \in Authorized
    /\ rx' = Tail(rx)
    /\ free' = free - 1
    /\ busy' = Append(busy, BuildReply(Head(rx)))
    /\ UNCHANGED <<out, pc, cq, cl, fails>>

(* No free buffer left: the request loop ends and replies are sent.        *)
RequestsFull ==
    /\ pc = "req" /\ free = 0
    /\ pc' = "rep"
    /\ UNCHANGED <<rx, free, busy, out, cq, cl, fails>>

-----------------------------------------------------------------------------
(* tinit_srv_handle_replies, one send of the head busy buffer.             *)
Rcpt == Head(busy).to

(* Sent, or ECONNREFUSED for a closed client: the buffer is released.      *)
SendDone ==
    /\ pc = "rep" /\ busy # <<>>
    /\ cl[Rcpt].st = "gone" \/ Len(cq[Rcpt]) < ClntQMax
    /\ cq' = IF cl[Rcpt].st = "gone" THEN cq
             ELSE [cq EXCEPT ![Rcpt] = Append(@, Head(busy))]
    /\ busy' = Tail(busy)
    /\ free' = free + 1
    /\ UNCHANGED <<rx, out, pc, cl, fails>>

(* EAGAIN: the client's queue is full; the buffer is requeued at the head, *)
(* write interest armed and applied, and the dispatch ends.               *)
SendAgain ==
    /\ pc = "rep" /\ busy # <<>>
    /\ cl[Rcpt].st # "gone" /\ Len(cq[Rcpt]) = ClntQMax
    /\ out' = TRUE
    /\ pc' = "idle"
    /\ UNCHANGED <<rx, free, busy, cq, cl, fails>>

(* EINTR: requeued at the head; ENOMEM: released.  Either returns from    *)
(* tinit_srv_handle_replies before it changes write interest, so the      *)
(* unsk_async_svc_apply_watch of tinit_srv_dispatch leaves it as it was.  *)
SendFail(err) ==
    /\ pc = "rep" /\ busy # <<>> /\ fails < MaxFail
    /\ cl[Rcpt].st # "gone"
    /\ busy' = IF err = "EINTR" THEN busy ELSE Tail(busy)
    /\ free' = IF err = "EINTR" THEN free ELSE free + 1
    /\ pc' = "idle"
    /\ fails' = fails + 1
    /\ UNCHANGED <<rx, out, cq, cl>>

(* Every reply is sent: write interest is dropped and applied.             *)
RepliesDone ==
    /\ pc = "rep" /\ busy = <<>>
    /\ out' = FALSE
    /\ pc' = "idle"
    /\ UNCHANGED <<rx, free, busy, cq, cl, fails>>

-----------------------------------------------------------------------------
(* tinit_open_sock: the caller chooses the first sequence number.          *)
Open(c) ==
    /\ cl[c].st = "closed"
    /\ \E s \in SeqStarts : cl' = [cl EXCEPT ![c].st = "idle", ![c].seqno = s]
    /\ UNCHANGED <<rx, free, busy, out, pc, cq, fails>>

(* tinit_named_chat / tinit_load_status, first half: the request is sent   *)
(* (the blocking send waits while the server's queue is full) and the     *)
(* sequence number incremented.                                           *)
Send(c) ==
    /\ cl[c].st = "idle" /\ cl[c].chats < MaxChats
    /\ Len(rx) < RxMax
    /\ \E t \in Types, a \in Args :
         LET req == [from |-> c, seq |-> cl[c].seqno, type |-> t, arg |-> a]
         IN /\ rx' = Append(rx, req)
            /\ cl' = [cl EXCEPT ![c].st = "wait", ![c].req = req,
                                ![c].seqno = (@ + 1) % SeqMod, ![c].chats = @ + 1]
    /\ UNCHANGED <<free, busy, out, pc, cq, fails>>

(* Second half: the blocking recv returns the next datagram, whose head is *)
(* checked against the request.                                            *)
Recv(c) ==
    /\ cl[c].st = "wait" /\ cq[c] # <<>>
    /\ cl' = [cl EXCEPT ![c].st = "idle", ![c].res = ParseReply(Head(cq[c]), cl[c].req)]
    /\ cq' = [cq EXCEPT ![c] = Tail(@)]
    /\ UNCHANGED <<rx, free, busy, out, pc, fails>>

(* A signal interrupts the blocking recv: the chat returns EINTR and its   *)
(* reply, if it comes, stays queued on the socket.                         *)
RecvIntr(c) ==
    /\ cl[c].st = "wait"
    /\ cl' = [cl EXCEPT ![c].st = "idle", ![c].res = "EINTR"]
    /\ UNCHANGED <<rx, free, busy, out, pc, cq, fails>>

(* tinit_close_sock, or the client process dies: the socket is gone.       *)
Close(c) ==
    /\ cl[c].st \in {"idle", "wait"}
    /\ cl' = [cl EXCEPT ![c].st = "gone"]
    /\ cq' = [cq EXCEPT ![c] = <<>>]
    /\ UNCHANGED <<rx, free, busy, out, pc, fails>>

Server ==
    \/ Dispatch \/ RecvAgain \/ RecvFail \/ RecvReject \/ RecvRequest
    \/ RequestsFull \/ SendDone \/ SendAgain \/ RepliesDone
    \/ \E err \in SendFails : SendFail(err)

Client(c) == Open(c) \/ Send(c) \/ Recv(c) \/ RecvIntr(c) \/ Close(c)

Next == Server \/ \E c \in Clients : Client(c)

(* The event loop serves the socket whenever it is ready, and a client     *)
(* blocked in recv takes a reply queued for it.                            *)
Fairness ==
    /\ WF_vars(Server)
    /\ \A c \in Clients : WF_vars(Recv(c))

Spec == Init /\ [][Next]_vars /\ Fairness

-----------------------------------------------------------------------------
Reply == [to : Clients, seq : 0..(SeqMod - 1), type : Types, ret : Errs]

TypeOK ==
    /\ rx \in Seq([from : Clients, seq : 0..(SeqMod - 1), type : Types, arg : Args])
    /\ Len(rx) <= RxMax
    /\ free \in 0..NBuf
    /\ busy \in Seq(Reply)
    /\ out \in BOOLEAN
    /\ pc \in {"idle", "req", "rep"}
    /\ \A c \in Clients : cq[c] \in Seq(Reply) /\ Len(cq[c]) <= ClntQMax
    /\ fails \in 0..MaxFail

(* No buffer of the server's queue is ever lost or counted twice: every   *)
(* one is free or holds a reply waiting to be sent, across the EAGAIN,    *)
(* EINTR, ENOMEM, EACCES and ECONNREFUSED paths of both loops.            *)
BuffersConserved == free + Len(busy) = NBuf

(* A chat returns success or a server error only for its own request: a   *)
(* stale reply, left on the socket by an interrupted chat, is refused.    *)
(* Stated against the reply code the server computes for the request.     *)
OwnReply ==
    \A c \in Clients :
        cl[c].st = "idle" /\ cl[c].chats > 0 /\ cl[c].res \notin {"EPROTO", "EINTR"}
            => cl[c].res = RequestRet(cl[c].req.type, cl[c].req.arg)

(* Every request of an authorized client is eventually answered, unless   *)
(* the client gives up (EINTR) or goes away.                              *)
Answered ==
    \A c \in Authorized : cl[c].st = "wait" ~> cl[c].st # "wait"

=============================================================================
