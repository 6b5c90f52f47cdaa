------------------------- MODULE DownstreamRequest -------------------------
(***************************************************************************)
(* One call of downstream::Request::Execute: its RequestContext, the       *)
(* outgoing http_conn_t and http_req_t it allocates for each attempt, the  *)
(* timers of the connection, and the retries, up to the single call of     *)
(* response_handler.  All of it runs in the event loop of one worker       *)
(* thread, whose handlers are called directly (not posted): pc is "loop"   *)
(* between two handlers, and elsewhere inside the call that is running.    *)
(*                                                                         *)
(* A response is cut into pieces: 1 and 2 are the first line, 3 and 4 the  *)
(* headers, the others the body.  A timer that is set may expire whenever  *)
(* the thread is in its loop.                                              *)
(***************************************************************************)
EXTENDS Integers

CONSTANTS
  MaxRetryReq,  \* Option::max_retry_req_num
  MaxRetryCon,  \* Option::max_retry_con_num, hc->retry_max
  BodyLen,      \* pieces of the body
  Kinds,        \* responses the peer may give, see Kind
  PeerFaults,   \* the peer and the network fail: refuse, close, reset
  WriteBlocks,  \* the request may not fit into the socket buffer
  SyncConnect   \* connect(2) may succeed at once

(* "ok" and "other" have a body and a status of 200 or not; "nobody" has   *)
(* status 204; "empty" has status 200 and Content-Length: 0; the others    *)
(* have a malformed first line or header.                                  *)
Kind == {"ok", "other", "nobody", "empty", "badline", "badhead"}

ASSUME DownstreamAssumption ==
  /\ MaxRetryReq \in Nat /\ MaxRetryCon \in Nat
  /\ BodyLen \in Nat \ {0}
  /\ Kinds \subseteq Kind /\ Kinds # {}
  /\ PeerFaults \in BOOLEAN /\ WriteBlocks \in BOOLEAN
  /\ SyncConnect \in BOOLEAN

VARIABLES
  pc,         \* "loop", or the function that is running
  qec,        \* argument of http_retry_connect or HandlerResponse
  ctx,        \* the RequestContext: "live" or "deleted"
  retry_num,  \* ctx->retry_num
  err_code,   \* ctx->err_code
  hc,         \* what ctx->hc points to: nothing, a live or a freed object
  hc_req,     \* hc->req is not NULL
  live,       \* number of allocated http_conn_t (with their conn_t)
  reqs,       \* number of allocated http_req_t
  detached,   \* requests a caller up the stack frees when it returns
  making,     \* http_make_request is on the stack and has sent at once
  first,      \* the running http_conn_connect was called by it
  status,     \* hc->status
  retry_cnt,  \* hc->retry_cnt
  outgoing,   \* hc->flags & HTTP_FLAGS_OUTGOING
  whandler,   \* hc->write_event_handler
  rhandler,   \* hc->read_event_handler is conn_read_handler
  hooked,     \* the handlers of c->read and c->write are set
  fd,         \* c->fd is open
  wtimer, rtimer,   \* c->write and c->read are in the timer tree
  kind,       \* the response the peer gives on this connection
  sent, got,  \* pieces the peer has sent, pieces read
  eof, reset, \* the peer has closed or reset the connection
  edge,       \* epoll has an unreported EPOLLIN
  calls, result, whole,   \* history: calls of response_handler, its code,
                          \* and whether the response had arrived entirely
  why,        \* history: reason of the latest failure
  connects,   \* history: calls of http_conn_connect
  lost,       \* history: http_send_done has freed an outgoing connection
  synced,     \* history: connect(2) has succeeded at once
  fault       \* history: undefined behaviour met

cvars == <<ctx, retry_num, err_code>>
ovars == <<hc, hc_req, live, reqs>>
hvars == <<status, retry_cnt, outgoing, whandler, rhandler, hooked, fd>>
tvars == <<wtimer, rtimer>>
pvars == <<kind, sent, got, eof, reset, edge>>
rvars == <<calls, result, whole>>
stack == <<detached, making, first>>
odd == <<lost, synced>>
vars == <<pc, qec, cvars, ovars, stack, hvars, tvars, pvars, rvars, why,
          connects, odd, fault>>

Code == {"OK", "INVALID_HEADER", "INVALID_BODY", "READ_TIMEOUT", "READ_EOF",
         "WRITE_TIMEOUT", "WRITE_EOF", "CONNECT_TIMEOUT", "CONNECT_FAIL",
         "CALLER_ERROR"}
ErrCode == Code \cup {"BAD_REQUEST", "BAD_RESPONSE", "NONE"}
Reading == {"first", "headers", "body"}

StateType ==
  /\ pc \in {"loop", "execute", "connect", "retry_connect", "send",
             "response", "return"}
  /\ qec \in Code /\ err_code \in ErrCode
  /\ ctx \in {"live", "deleted"} /\ hc \in {"null", "live", "freed"}
  /\ status \in Reading \cup {"disconnected", "connecting", "idle", "writing"}
  /\ whandler \in {"null", "wait_connect", "write"}
  /\ kind \in Kind /\ result \in ErrCode /\ why \in ErrCode
  /\ fault \in SUBSET {"double_free", "freed_ctx", "null_handler", "timer"}
CountType ==
  /\ retry_num \in 0..MaxRetryReq /\ retry_cnt \in 0..MaxRetryCon
  /\ live \in Nat /\ reqs \in Nat /\ detached \in Nat
  /\ sent \in 0..(4 + BodyLen) /\ got \in 0..sent
  /\ calls \in Nat /\ connects \in Nat
FlagType ==
  {hc_req, making, first, outgoing, rhandler, hooked, fd, wtimer, rtimer,
   eof, reset, edge, whole, lost, synced} \subseteq BOOLEAN
TypeOK == StateType /\ CountType /\ FlagType

(* Request::Execute(server, handler) has built the context. *)
Init ==
  /\ pc = "execute" /\ qec = "OK"
  /\ ctx = "live" /\ retry_num = 0 /\ err_code = "OK"
  /\ hc = "null" /\ hc_req = FALSE /\ live = 0 /\ reqs = 0
  /\ detached = 0 /\ making = FALSE /\ first = FALSE
  /\ status = "disconnected" /\ retry_cnt = 0 /\ outgoing = FALSE
  /\ whandler = "null" /\ rhandler = FALSE /\ hooked = FALSE /\ fd = FALSE
  /\ wtimer = FALSE /\ rtimer = FALSE
  /\ kind \in Kinds /\ sent = 0 /\ got = 0
  /\ eof = FALSE /\ reset = FALSE /\ edge = FALSE
  /\ calls = 0 /\ result = "NONE" /\ whole = FALSE /\ why = "NONE"
  /\ connects = 0 /\ lost = FALSE /\ synced = FALSE /\ fault = {}

-----------------------------------------------------------------------------
(* Objects.                                                                *)

(* Mutant: the request that is attached to the connection is kept. *)
FreeConnOnly(n, m) ==
  /\ reqs' = n + reqs
  /\ live' = m + (IF hc = "live" THEN live - 1 ELSE live)
  /\ wtimer' = (wtimer /\ ~fd) /\ rtimer' = (rtimer /\ ~fd)
  /\ UNCHANGED fault

(* http_conn_free(ctx->hc), if ctx->hc is not NULL: the request that is    *)
(* still attached goes with it, and conn_close takes the timers out of the *)
(* tree if the descriptor is open.  n requests and m connections are       *)
(* allocated after it.                                                     *)
FreeConn(n, m) ==
  /\ reqs' = n + (IF hc = "live" /\ hc_req THEN reqs - 1 ELSE reqs)
  /\ live' = m + (IF hc = "live" THEN live - 1 ELSE live)
  /\ fault' = fault
       \cup (IF hc = "freed" THEN {"double_free"} ELSE {})
       \cup (IF hc = "live" /\ ~fd /\ (wtimer \/ rtimer)
             THEN {"timer"} ELSE {})
  /\ wtimer' = (wtimer /\ ~fd) /\ rtimer' = (rtimer /\ ~fd)

(* The number of pieces of the response. *)
End == IF kind \in {"ok", "other"} THEN 4 + BodyLen ELSE 4

(* Mutant: the context survives its answer. *)
AnswerNoDelete(ec) ==
  /\ calls' = calls + 1 /\ result' = ec /\ whole' = (got = End)
  /\ FreeConn(0, 0)
  /\ hc' = "null" /\ hc_req' = FALSE /\ fd' = FALSE
  /\ pc' = "return"
  /\ UNCHANGED <<ctx, status, retry_cnt, outgoing, whandler, rhandler, hooked>>

(* ctx->response_handler(ec, response); delete ctx. *)
Answer(ec) ==
  /\ calls' = calls + 1
  /\ result' = ec
  /\ whole' = (got = End)
  /\ FreeConn(0, 0)
  /\ hc' = "null" /\ hc_req' = FALSE /\ fd' = FALSE
  /\ ctx' = "deleted"
  /\ pc' = "return"
  /\ UNCHANGED <<status, retry_cnt, outgoing, whandler, rhandler, hooked>>

(* A caller takes the request from its connection, calls HandlerResponse,  *)
(* and frees the request afterwards: http_conn_fail of an outgoing         *)
(* connection and the end of http_retry_connect.                           *)
Fail(ec) ==
  /\ hc_req' = FALSE
  /\ detached' = detached + 1
  /\ qec' = ec
  /\ pc' = "response"

-----------------------------------------------------------------------------
(* Request::Execute(ctx), http_make_request and http_conn_connect.         *)

(* No host can be selected, or the connection pool is empty. *)
ExecuteFails ==
  /\ pc = "execute"
  /\ Answer("BAD_REQUEST")
  /\ UNCHANGED <<qec, retry_num, err_code, stack, pvars, why, connects, odd>>

Execute ==
  /\ pc = "execute"
  /\ FreeConn(1, 1)
  /\ hc' = "live" /\ hc_req' = TRUE
  /\ retry_cnt' = 0 /\ outgoing' = FALSE
  /\ whandler' = "null" /\ rhandler' = FALSE /\ fd' = FALSE
  /\ first' = TRUE
  /\ pc' = "connect"
  /\ hooked' = FALSE
  /\ UNCHANGED <<qec, cvars, detached, making, status, pvars, rvars, why,
                 connects, odd>>

(* http_conn_connect up to connect(2).  conn_set_default clears the two    *)
(* events: one that was still in the timer tree would corrupt the tree.    *)
NewSocket ==
  /\ pc = "connect"
  /\ connects' = connects + 1
  /\ outgoing' = TRUE
  /\ kind' \in Kinds /\ sent' = 0 /\ got' = 0
  /\ eof' = FALSE /\ reset' = FALSE /\ edge' = FALSE
  /\ fault' = fault \cup (IF wtimer \/ rtimer THEN {"timer"} ELSE {})

(* SHS_ERROR: http_make_request gives up, http_retry_connect goes on. *)
ConnectFails ==
  /\ NewSocket
  /\ fd' = FALSE /\ status' = "connecting" /\ hooked' = FALSE
  /\ \/ /\ first
        /\ err_code' = "CONNECT_FAIL" /\ qec' = "CALLER_ERROR"
        /\ pc' = "response"
     \/ /\ ~first
        /\ qec' = "CONNECT_FAIL" /\ err_code' = err_code
        /\ pc' = "retry_connect"
  /\ UNCHANGED <<ctx, retry_num, ovars, stack, retry_cnt, whandler, rhandler,
                 tvars, rvars, why, odd>>

(* Mutant: the code of the attempt before stays. *)
CodeKept == err_code

(* Execute clears ctx->err_code when http_make_request has returned. *)
CodeCleared == IF first THEN "OK" ELSE err_code

(* EINPROGRESS: handlers and the connect timer are set. *)
ConnectBegins ==
  /\ NewSocket
  /\ fd' = TRUE /\ status' = "connecting"
  /\ hooked' = TRUE
  /\ whandler' = "wait_connect" /\ wtimer' = TRUE
  /\ err_code' = CodeCleared
  /\ pc' = "return"
  /\ UNCHANGED <<qec, ctx, retry_num, ovars, stack, retry_cnt, rhandler,
                 rtimer, rvars, why, odd>>

(* connect(2) has succeeded: the request is sent at once, and neither      *)
(* caller sets the handlers of the two events.                             *)
ConnectsAtOnce ==
  /\ SyncConnect
  /\ NewSocket
  /\ fd' = TRUE /\ status' = "idle" /\ hooked' = FALSE
  /\ making' = (making \/ first)
  /\ synced' = TRUE
  /\ pc' = "send"
  /\ UNCHANGED <<qec, cvars, ovars, detached, first, retry_cnt, whandler,
                 rhandler, tvars, rvars, why, lost>>

(* http_retry_connect. *)
RetryConnect ==
  /\ pc = "retry_connect"
  /\ \/ /\ retry_cnt < MaxRetryCon
        /\ retry_cnt' = retry_cnt + 1
        /\ first' = FALSE
        /\ pc' = "connect"
        /\ UNCHANGED <<qec, hc_req, detached, status>>
     \/ /\ retry_cnt >= MaxRetryCon
        /\ status' = "disconnected"
        /\ Fail(qec)
        /\ UNCHANGED <<retry_cnt, first>>
  /\ UNCHANGED <<cvars, hc, live, reqs, making, outgoing, whandler, rhandler,
                 hooked, fd, tvars, pvars, rvars, why, connects, odd, fault>>

-----------------------------------------------------------------------------
(* Sending.                                                                *)

(* http_send_request_done.  Taking EPOLLOUT out of the interest set is an  *)
(* EPOLL_CTL_MOD, after which epoll reports what is readable once more.    *)
SendRequestDone ==
  /\ whandler' = "null" /\ rhandler' = TRUE
  /\ status' = "first"
  /\ rtimer' = TRUE /\ wtimer' = FALSE
  /\ edge' = (sent > got \/ eof \/ reset)
  /\ pc' = "return"
  /\ UNCHANGED <<qec, ovars, detached, fd, odd, fault>>

(* http_send_done, meant for replies: the request says HTTP/1.0 and has no *)
(* input headers, so the connection is closed and freed with the request.  *)
SendDone ==
  /\ FreeConn(0, 0)
  /\ hc' = "freed" /\ hc_req' = FALSE /\ fd' = FALSE
  /\ lost' = TRUE /\ UNCHANGED synced
  /\ pc' = "return"
  /\ UNCHANGED <<qec, detached, status, whandler, rhandler, edge>>

(* Mutant: the write timer is not set. *)
WriteBlockedNoTimer ==
  /\ WriteBlocks
  /\ status' = "writing" /\ whandler' = "write"
  /\ pc' = "return"
  /\ UNCHANGED <<qec, ovars, detached, rhandler, fd, tvars, edge, odd, fault>>

(* http_write_buffer could not write everything: the write timer is set    *)
(* with timeout_send, which is 0 for an outgoing connection.               *)
WriteBlocked ==
  /\ WriteBlocks
  /\ status' = "writing" /\ whandler' = "write" /\ wtimer' = TRUE
  /\ pc' = "return"
  /\ UNCHANGED <<qec, ovars, detached, rhandler, fd, rtimer, edge, odd, fault>>

WriteFails ==
  /\ PeerFaults
  /\ status' = "writing" /\ wtimer' = FALSE
  /\ Fail("WRITE_EOF")
  /\ UNCHANGED <<hc, live, reqs, whandler, rhandler, fd, rtimer, edge, odd,
                 fault>>

SendUnchanged ==
  UNCHANGED <<cvars, making, first, retry_cnt, hooked, kind, sent, got, eof,
              reset, rvars, why, connects>>

(* http_conn_stop_detectclose: HTTP_FLAGS_CLOSEDETECT is 0x0003, that is   *)
(* HTTP_FLAGS_INCOMING | HTTP_FLAGS_OUTGOING.                              *)
StopDetectClose(flag) == FALSE

(* http_send_request, called from conn_wait_connect_handler or after a     *)
(* connect(2) that succeeded at once.                                      *)
SendRequest ==
  /\ pc = "send"
  /\ outgoing' = StopDetectClose(outgoing)
  /\ SendRequestDone \/ WriteBlocked \/ WriteFails
  /\ SendUnchanged

(* conn_wait_connect_handler: EPOLLOUT while connecting. *)
WaitConnect ==
  /\ pc = "loop" /\ fd /\ hooked /\ whandler = "wait_connect"
  /\ wtimer' = FALSE
  /\ \/ /\ PeerFaults
        /\ qec' = "CONNECT_FAIL" /\ pc' = "retry_connect"
        /\ UNCHANGED <<retry_cnt, status>>
     \/ /\ retry_cnt' = 0 /\ status' = "idle" /\ pc' = "send"
        /\ UNCHANGED qec
  /\ UNCHANGED <<cvars, ovars, stack, outgoing, whandler, rhandler, hooked, fd,
                 rtimer, pvars, rvars, why, connects, odd, fault>>

(* conn_write_handler: EPOLLOUT after a partial write. *)
WriteHandler ==
  /\ pc = "loop" /\ fd /\ hooked /\ whandler = "write"
  /\ \/ IF outgoing THEN SendRequestDone ELSE SendDone
     \/ WriteBlocked
     \/ WriteFails
  /\ UNCHANGED outgoing
  /\ SendUnchanged

-----------------------------------------------------------------------------
(* Receiving: conn_read_handler.                                           *)

(* http_conn_done: the callback gets HTTP_CODE_OK whatever has arrived. *)
Done(st) ==
  /\ status' = IF outgoing THEN "idle"
               ELSE IF st = "disconnected" THEN st ELSE "writing"
  /\ hc_req' = ~outgoing
  /\ detached' = IF outgoing THEN detached + 1 ELSE detached
  /\ qec' = "OK"
  /\ pc' = "response"

Wait(st) ==
  /\ status' = st
  /\ pc' = "return"
  /\ UNCHANGED <<qec, hc_req, detached>>

ReadFails(ec) == UNCHANGED status /\ Fail(ec)

(* Bytes read before, and not yet consumed by the parser. *)
Consumed == CASE status = "first" -> 0
              [] status = "headers" -> 2
              [] OTHER -> got

(* Mutants: the body is complete one piece early; the handler does not     *)
(* read again.                                                             *)
ReadBodyEarly ==
  \/ sent >= End - 1 /\ Done("body")
  \/ sent < End - 1 /\ eof /\ Done("disconnected")
  \/ sent < End - 1 /\ ~eof /\ Wait("body")
ReadBodyOnce == IF sent = End THEN Done("body") ELSE Wait("body")

(* http_read_body: it calls conn_read_handler again until recv says EAGAIN *)
(* or end of file.                                                         *)
ReadBody ==
  \/ sent = End /\ Done("body")
  \/ sent < End /\ eof /\ Done("disconnected")
  \/ sent < End /\ ~eof /\ Wait("body")

(* http_read_firstline, http_read_header, http_get_body: each goes on with *)
(* the next as far as the data reach.                                      *)
Parse ==
  \/ sent < 2 /\ Wait("first")
  \/ sent >= 2 /\ kind = "badline" /\ ReadFails("INVALID_HEADER")
  \/ sent \in {2, 3} /\ kind # "badline" /\ Wait("headers")
  \/ /\ sent >= 4
     /\ \/ kind = "badhead" /\ ReadFails("INVALID_HEADER")
        \/ kind = "nobody" /\ Done("headers")
        \/ kind = "empty" /\ ReadFails("INVALID_BODY")
        \/ kind \in {"ok", "other"} /\ ReadBody

ReadHandler ==
  /\ pc = "loop" /\ fd /\ hooked /\ edge /\ rhandler
  /\ edge' = FALSE
  /\ rtimer' = FALSE
  /\ got' = sent
  /\ \/ reset /\ ReadFails("READ_EOF")
     \/ ~reset /\ sent = Consumed /\ eof /\ Done("disconnected")
     \/ ~reset /\ sent # Consumed /\ Parse
  /\ UNCHANGED <<cvars, hc, live, reqs, making, first, retry_cnt, outgoing,
                 whandler, rhandler, hooked, fd, wtimer, kind, sent, eof,
                 reset, rvars, why, connects, odd, fault>>

(* EPOLLIN that finds no handler: none of c->read, or none of hc. *)
ReadIgnored ==
  /\ pc = "loop" /\ fd /\ edge /\ (~hooked \/ ~rhandler)
  /\ edge' = FALSE
  /\ UNCHANGED <<pc, qec, cvars, ovars, stack, hvars, tvars, kind, sent, got,
                 eof, reset, rvars, why, connects, odd, fault>>

-----------------------------------------------------------------------------
(* The callback and the way back to the loop.                              *)

ResponseCode == IF got < 2 \/ kind = "badline" THEN 0
                ELSE CASE kind = "other" -> 500
                       [] kind = "nobody" -> 204
                       [] OTHER -> 200

(* ConvertToErrCode; rsp is NULL only for HTTP_CODE_CALLER_ERROR. *)
ConvertToErrCode ==
  IF qec = "OK" THEN (IF ResponseCode = 200 THEN "OK" ELSE "BAD_RESPONSE")
  ELSE IF err_code # "OK" THEN err_code ELSE qec

(* RequestContext::TryAgain's test. *)
TryAgain(ec) == ec # "OK" /\ retry_num < MaxRetryReq

HandlerResponse ==
  LET ec == ConvertToErrCode IN
  /\ pc = "response"
  /\ why' = CASE qec = "OK" -> "BAD_RESPONSE"
              [] qec = "CALLER_ERROR" -> "CONNECT_FAIL"
              [] OTHER -> qec
  /\ err_code' = IF ec = "OK" THEN err_code ELSE ec
  /\ \/ /\ TryAgain(ec)
        /\ retry_num' = retry_num + 1
        /\ pc' = "execute"
        /\ UNCHANGED <<ctx, ovars, hvars, tvars, rvars, fault>>
     \/ /\ ~TryAgain(ec)
        /\ Answer(ec)
        /\ UNCHANGED retry_num
  /\ UNCHANGED <<qec, stack, pvars, connects, odd>>

(* The callers return: http_conn_fail and http_retry_connect free the      *)
(* request they had detached, and Execute, when http_make_request had sent *)
(* at once, clears ctx->err_code.                                          *)
Return ==
  /\ pc = "return"
  /\ reqs' = reqs - detached
  /\ detached' = 0
  /\ making' = FALSE
  /\ err_code' = IF making THEN "OK" ELSE err_code
  /\ fault' = fault \cup (IF making /\ ctx = "deleted" THEN {"freed_ctx"}
                          ELSE {})
  /\ pc' = "loop"
  /\ UNCHANGED <<qec, ctx, retry_num, hc, hc_req, live, first, hvars, tvars,
                 pvars, rvars, why, connects, odd>>

-----------------------------------------------------------------------------
(* Timers and the peer.                                                    *)

(* event_timers_expire calls ev->handler without a test. *)
TimerUnhooked ==
  /\ pc = "loop" /\ ~hooked /\ (wtimer \/ rtimer) /\ fault = {}
  /\ fault' = fault \cup {"null_handler"}
  /\ UNCHANGED <<pc, qec, cvars, ovars, stack, hvars, tvars, pvars, rvars, why,
                 connects, odd>>

WriteTimer ==
  /\ pc = "loop" /\ hooked /\ wtimer
  /\ wtimer' = FALSE
  /\ \/ /\ whandler = "wait_connect"
        /\ qec' = "CONNECT_TIMEOUT" /\ pc' = "retry_connect"
        /\ UNCHANGED <<hc_req, detached>>
     \/ whandler = "write" /\ Fail("WRITE_TIMEOUT")
  /\ UNCHANGED <<cvars, hc, live, reqs, making, first, hvars, rtimer, pvars,
                 rvars, why, connects, odd, fault>>

ReadTimer ==
  /\ pc = "loop" /\ hooked /\ rtimer /\ rhandler
  /\ rtimer' = FALSE
  /\ Fail("READ_TIMEOUT")
  /\ UNCHANGED <<cvars, hc, live, reqs, making, first, hvars, wtimer, pvars,
                 rvars, why, connects, odd, fault>>

PeerUnchanged ==
  UNCHANGED <<pc, qec, cvars, ovars, stack, hvars, tvars, kind, got, rvars,
              why, connects, odd, fault>>

PeerSend ==
  /\ pc = "loop" /\ fd /\ status \in Reading /\ sent < End /\ ~eof /\ ~reset
  /\ sent' = sent + 1
  /\ edge' = TRUE
  /\ PeerUnchanged /\ UNCHANGED <<eof, reset>>

PeerClose ==
  /\ PeerFaults
  /\ pc = "loop" /\ fd /\ status \in Reading \cup {"writing"}
  /\ ~eof /\ ~reset
  /\ \/ eof' = TRUE /\ UNCHANGED reset
     \/ reset' = TRUE /\ UNCHANGED eof
  /\ edge' = TRUE
  /\ PeerUnchanged /\ UNCHANGED sent

-----------------------------------------------------------------------------
Running ==
  \/ ExecuteFails \/ Execute
  \/ ConnectFails \/ ConnectBegins \/ ConnectsAtOnce
  \/ RetryConnect \/ SendRequest \/ HandlerResponse \/ Return

Next ==
  \/ Running
  \/ WaitConnect \/ WriteHandler \/ ReadHandler \/ ReadIgnored
  \/ TimerUnhooked \/ WriteTimer \/ ReadTimer
  \/ PeerSend \/ PeerClose

SafeSpec == Init /\ [][Next]_vars

(* A call that runs goes on, an event that epoll reports is handled, and a *)
(* timer that is set again and again goes off in the end: the write timer  *)
(* has a timeout of 0.  Nothing is assumed of the peer.                    *)
Spec ==
  /\ SafeSpec
  /\ WF_vars(Running) /\ WF_vars(ReadHandler)
  /\ SF_vars(WriteTimer) /\ WF_vars(ReadTimer)

-----------------------------------------------------------------------------
(* Properties. *)

(* response_handler is called once, with the context that is then deleted: *)
(* never before a retry, never again by a later event, never not at all    *)
(* when the context goes.  Until then the retries of the request and those *)
(* of the connection multiply, no more.                                    *)
CalledOnce ==
  /\ calls = (IF ctx = "deleted" THEN 1 ELSE 0)
  /\ connects <= (MaxRetryReq + 1) * (MaxRetryCon + 1)

(* Between two events the context owns exactly one connection with its     *)
(* request, and a deleted context leaves nothing behind, although requests *)
(* are freed by three different callers and connections by two.  No        *)
(* connection is freed twice, and no event is cleared or freed while it is *)
(* in the timer tree; only when connect(2) succeeds at once can a deleted  *)
(* context be written to or an event without handler expire.  (The types   *)
(* of the variables are part of it.)                                       *)
Owned ==
  /\ TypeOK
  /\ pc = "loop" =>
       /\ live = (IF hc = "live" THEN 1 ELSE 0)
       /\ reqs = live
       /\ hc = "live" <=> (ctx = "live" /\ ~lost)
       /\ (wtimer \/ rtimer) => hc = "live" /\ fd
  /\ fault = {} \/ (synced /\ fault \subseteq {"freed_ctx", "null_handler"})

(* The code handed to the caller is the reason of the last failure, not of *)
(* one before the last retry (ctx->err_code takes precedence over the code *)
(* of the attempt in ConvertToErrCode).  A connect that succeeds at once    *)
(* and then fails inside Execute is not counted.                           *)
LastReason == (calls = 1 /\ ~synced /\ result \notin {"OK", "BAD_REQUEST"})
                => result = why

(* A response that is handed over as OK is the whole response, unless the  *)
(* peer has closed the connection in the middle of it.                     *)
WholeUnlessClosed == (calls = 1 /\ result = "OK") => whole \/ eof

(* A request that waits for the peer waits with a timer, until the first   *)
(* bytes of the response have arrived; from then on nothing limits it.     *)
Unlimited == status \in Reading /\ got > 0

(* Every request is answered, whatever the peer does, unless it was lost   *)
(* after a partial write or waits without a timer.                         *)
Answered == (ctx = "live") ~> (ctx = "deleted" \/ lost \/ synced \/ Unlimited)

(* End of file was read together with an incomplete head of the response:  *)
(* no event will follow.                                                   *)
Deaf == eof /\ ~edge /\ status \in {"first", "headers"}

(* With a peer that sends its response to the end or closes, only a        *)
(* partial write or an incomplete head keeps a request from its answer.    *)
AnsweredByPeer ==
  WF_vars(PeerSend) =>
    ((ctx = "live") ~> (ctx = "deleted" \/ lost \/ synced \/ Deaf))
=============================================================================
