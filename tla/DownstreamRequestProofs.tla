---------------------- MODULE DownstreamRequestProofs ----------------------
(***************************************************************************)
(* Proofs about DownstreamRequest, for every limit on the retries, every   *)
(* length of the body, every set of responses, with or without failures of *)
(* the peer, partial writes and connects that succeed at once.             *)
(***************************************************************************)
EXTENDS DownstreamRequest, TLAPS

USE DownstreamAssumption DEF Kind

Timers == wtimer \/ rtimer

-----------------------------------------------------------------------------
(* The inductive invariants.                                               *)

(* The objects, at every point of the running call: a connection is        *)
(* attached to the context or it is gone, and every request is attached to *)
(* that connection or waits for a caller up the stack to free it.          *)
Objects ==
  /\ live = (IF hc = "live" THEN 1 ELSE 0)
  /\ reqs = detached + (IF hc = "live" /\ hc_req THEN 1 ELSE 0)
  /\ hc = "null" => ctx = "deleted" \/ (pc = "execute" /\ ~fd)
  /\ ctx = "deleted" => hc = "null" /\ pc \in {"return", "loop"}
  /\ lost <=> hc = "freed"
  /\ hc = "freed" => pc \in {"return", "loop"}
  /\ pc = "loop" => detached = 0 /\ ~making
  /\ (pc \notin {"execute", "response"} /\ hc = "live") => hc_req

(* The descriptor and the timers: only an open descriptor of a live        *)
(* connection has timers, none is set when a connect begins, and only a    *)
(* connect that succeeded at once leaves events without handlers.          *)
Events ==
  /\ fd => hc = "live"
  /\ Timers => fd
  /\ pc \in {"connect", "retry_connect", "send"} => ~Timers
  /\ pc = "send" => fd
  /\ whandler = "wait_connect" => ~rtimer
  /\ ~synced => (Timers \/ pc = "send" => hooked)
  /\ making => synced
  /\ fault = {} \/ (synced /\ fault \subseteq {"freed_ctx", "null_handler"})

(* The connects that n attempts of a request may make. *)
Spent(n) == n * (MaxRetryCon + 1)

(* How many of them the running attempt has made; conn_wait_connect_handler *)
(* sets hc->retry_cnt to 0, after which the attempt makes no other.         *)
Connects ==
  /\ connects <= Spent(retry_num) + MaxRetryCon + 1
  /\ pc = "execute" => connects <= Spent(retry_num)
  /\ pc = "connect" => connects <= Spent(retry_num) + retry_cnt
  /\ pc = "retry_connect" => connects <= Spent(retry_num) + retry_cnt + 1
  /\ (pc \in {"return", "loop"} /\ hc = "live" /\ whandler = "wait_connect")
       => connects <= Spent(retry_num) + retry_cnt + 1
  /\ calls = (IF ctx = "deleted" THEN 1 ELSE 0)

(* ctx->err_code is clear while an attempt goes on, so that it takes       *)
(* precedence in ConvertToErrCode only where http_make_request has set it. *)
Reasons ==
  /\ pc = "retry_connect" => qec \in {"CONNECT_FAIL", "CONNECT_TIMEOUT"}
  /\ ~synced =>
    /\ (pc \in {"retry_connect", "send"} \/ (pc = "connect" /\ ~first)
        \/ (pc \in {"return", "loop"} /\ ctx = "live")) => err_code = "OK"
    /\ pc = "response" /\ qec = "CALLER_ERROR" => err_code = "CONNECT_FAIL"
    /\ pc = "response" /\ qec \notin {"OK", "CALLER_ERROR"}
         => err_code = "OK"

(* HandlerResponse is called with HTTP_CODE_OK only when everything has    *)
(* arrived or the peer has closed.                                         *)
Arrived == pc = "response" /\ qec = "OK" => got = End \/ eof \/ kind = "nobody"

-----------------------------------------------------------------------------
(* Every step keeps the control state, the codes and the pointers in range. *)
LEMMA StateTypeStep ==
  ASSUME TypeOK, [Next]_vars PROVE StateType'
<1> USE DEF TypeOK, StateType, Code, ErrCode, Reading, cvars, ovars, stack,
      hvars, tvars, pvars, rvars, odd
<1>1. CASE ExecuteFails
    BY <1>1 DEF ExecuteFails, Answer, FreeConn
<1>2. CASE Execute
    BY <1>2 DEF Execute, FreeConn
<1>3. CASE ConnectFails
    BY <1>3 DEF ConnectFails, NewSocket
<1>4. CASE ConnectBegins
    BY <1>4 DEF ConnectBegins, NewSocket, CodeCleared
<1>5. CASE ConnectsAtOnce
    BY <1>5 DEF ConnectsAtOnce, NewSocket
<1>6. CASE RetryConnect
    BY <1>6 DEF RetryConnect, Fail
<1>7. CASE SendRequest
  <2>1. CASE SendRequestDone
    BY <1>7, <2>1 DEF SendRequest, SendRequestDone, SendUnchanged,
      StopDetectClose
  <2>2. CASE WriteBlocked
    BY <1>7, <2>2 DEF SendRequest, WriteBlocked, SendUnchanged,
      StopDetectClose
  <2>3. CASE WriteFails
    BY <1>7, <2>3 DEF SendRequest, WriteFails, Fail, SendUnchanged,
      StopDetectClose
  <2> QED BY <1>7, <2>1, <2>2, <2>3 DEF SendRequest
<1>8. CASE HandlerResponse
    BY <1>8 DEF HandlerResponse, ConvertToErrCode, TryAgain, Answer, FreeConn
<1>9. CASE Return
    BY <1>9 DEF Return
<1>10. CASE WaitConnect
    BY <1>10 DEF WaitConnect
<1>11. CASE WriteHandler
  <2>1. CASE SendRequestDone
    BY <1>11, <2>1 DEF WriteHandler, SendRequestDone, SendUnchanged
  <2>2. CASE SendDone
    BY <1>11, <2>2 DEF WriteHandler, SendDone, FreeConn, SendUnchanged
  <2>3. CASE WriteBlocked
    BY <1>11, <2>3 DEF WriteHandler, WriteBlocked, SendUnchanged
  <2>4. CASE WriteFails
    BY <1>11, <2>4 DEF WriteHandler, WriteFails, Fail, SendUnchanged
  <2> QED BY <1>11, <2>1, <2>2, <2>3, <2>4 DEF WriteHandler
<1>12. CASE ReadHandler
    BY <1>12 DEF ReadHandler, ReadFails, Done, Parse, Fail, Wait, ReadBody
<1>13. CASE TimerUnhooked
    BY <1>13 DEF TimerUnhooked
<1>14. CASE WriteTimer
  <2>1. CASE whandler = "wait_connect"
    BY <1>14, <2>1 DEF WriteTimer
  <2>2. CASE whandler # "wait_connect"
    BY <1>14, <2>2 DEF WriteTimer, Fail
  <2> QED BY <1>14, <2>1, <2>2 DEF WriteTimer
<1>15. CASE ReadTimer
    BY <1>15 DEF ReadTimer, Fail
<1>16. CASE ReadIgnored \/ PeerSend \/ PeerClose
  <2>1. UNCHANGED <<pc, qec, ctx, err_code, hc, live, first, status,
      whandler, kind, result, why, fault>>
    BY <1>16 DEF ReadIgnored, PeerSend, PeerUnchanged, PeerClose, cvars,
      ovars, stack, hvars, tvars, pvars, rvars, odd
  <2> QED BY <2>1
<1>17. CASE UNCHANGED vars
    BY <1>17 DEF vars, cvars, ovars, stack, hvars, tvars, pvars, rvars, odd
<1> QED BY <1>1, <1>2, <1>3, <1>4, <1>5, <1>6, <1>7, <1>8, <1>9, <1>10,
      <1>11, <1>12, <1>13, <1>14, <1>15, <1>16, <1>17 DEF Next, Running

(* Every step keeps the counters in range; none drops below 0. *)
LEMMA CountTypeStep ==
  ASSUME TypeOK, Objects, [Next]_vars PROVE CountType'
<1> USE DEF TypeOK, CountType, Objects, End, cvars, ovars, stack, hvars,
      tvars, pvars, rvars, odd
<1>1. CASE ExecuteFails
    BY <1>1 DEF ExecuteFails, Answer, FreeConn
<1>2. CASE Execute
    BY <1>2 DEF Execute, FreeConn
<1>3. CASE ConnectFails
    BY <1>3 DEF ConnectFails, NewSocket
<1>4. CASE ConnectBegins
    BY <1>4 DEF ConnectBegins, NewSocket, CodeCleared
<1>5. CASE ConnectsAtOnce
    BY <1>5 DEF ConnectsAtOnce, NewSocket
<1>6. CASE RetryConnect
  <2>1. CASE retry_cnt < MaxRetryCon
    BY <1>6, <2>1 DEF RetryConnect
  <2>2. CASE retry_cnt >= MaxRetryCon
    BY <1>6, <2>2 DEF RetryConnect, Fail
  <2> QED BY <1>6, <2>1, <2>2 DEF RetryConnect
<1>7. CASE SendRequest
  <2>1. CASE SendRequestDone
    BY <1>7, <2>1 DEF SendRequest, SendRequestDone, SendUnchanged,
      StopDetectClose
  <2>2. CASE WriteBlocked
    BY <1>7, <2>2 DEF SendRequest, WriteBlocked, SendUnchanged,
      StopDetectClose
  <2>3. CASE WriteFails
    BY <1>7, <2>3 DEF SendRequest, WriteFails, Fail, SendUnchanged,
      StopDetectClose
  <2> QED BY <1>7, <2>1, <2>2, <2>3 DEF SendRequest
<1>8. CASE HandlerResponse
    BY <1>8 DEF HandlerResponse, ConvertToErrCode, TryAgain, Answer, FreeConn
<1>9. CASE Return
    BY <1>9 DEF Return
<1>10. CASE WaitConnect
    BY <1>10 DEF WaitConnect
<1>11. CASE WriteHandler
  <2>1. CASE SendRequestDone
    BY <1>11, <2>1 DEF WriteHandler, SendRequestDone, SendUnchanged
  <2>2. CASE SendDone
    BY <1>11, <2>2 DEF WriteHandler, SendDone, FreeConn, SendUnchanged
  <2>3. CASE WriteBlocked
    BY <1>11, <2>3 DEF WriteHandler, WriteBlocked, SendUnchanged
  <2>4. CASE WriteFails
    BY <1>11, <2>4 DEF WriteHandler, WriteFails, Fail, SendUnchanged
  <2> QED BY <1>11, <2>1, <2>2, <2>3, <2>4 DEF WriteHandler
<1>12. CASE ReadHandler
    BY <1>12 DEF ReadHandler, ReadFails, Done, Parse, Fail, Wait, ReadBody
<1>13. CASE WriteTimer
  <2>1. CASE whandler = "wait_connect"
    BY <1>13, <2>1 DEF WriteTimer
  <2>2. CASE whandler # "wait_connect"
    BY <1>13, <2>2 DEF WriteTimer, Fail
  <2> QED BY <1>13, <2>1, <2>2 DEF WriteTimer
<1>14. CASE ReadTimer
    BY <1>14 DEF ReadTimer, Fail
<1>15. CASE PeerSend
    BY <1>15 DEF PeerSend, PeerUnchanged
<1>16. CASE ReadIgnored \/ TimerUnhooked \/ PeerClose
  <2>1. UNCHANGED <<retry_num, live, reqs, detached, retry_cnt, sent, got,
      calls, connects>>
    BY <1>16 DEF ReadIgnored, TimerUnhooked, PeerClose, PeerUnchanged, cvars,
      ovars, stack, hvars, tvars, pvars, rvars, odd
  <2> QED BY <2>1
<1>17. CASE UNCHANGED vars
    BY <1>17 DEF vars, cvars, ovars, stack, hvars, tvars, pvars, rvars, odd
<1> QED BY <1>1, <1>2, <1>3, <1>4, <1>5, <1>6, <1>7, <1>8, <1>9, <1>10,
      <1>11, <1>12, <1>13, <1>14, <1>15, <1>16, <1>17 DEF Next, Running

(* Every step keeps the flags Boolean. *)
LEMMA FlagTypeStep ==
  ASSUME TypeOK, [Next]_vars PROVE FlagType'
<1> USE DEF TypeOK, FlagType, cvars, ovars, stack, hvars, tvars, pvars,
      rvars, odd
<1>1. CASE ExecuteFails
    BY <1>1 DEF ExecuteFails, Answer, FreeConn
<1>2. CASE Execute
    BY <1>2 DEF Execute, FreeConn
<1>3. CASE ConnectFails
    BY <1>3 DEF ConnectFails, NewSocket
<1>4. CASE ConnectBegins
    BY <1>4 DEF ConnectBegins, NewSocket, CodeCleared
<1>5. CASE ConnectsAtOnce
    BY <1>5 DEF ConnectsAtOnce, NewSocket
<1>6. CASE RetryConnect
  <2>1. /\ hc_req' \in BOOLEAN
        /\ first' \in BOOLEAN
    BY <1>6 DEF RetryConnect, Fail
  <2>2. UNCHANGED <<making, outgoing, rhandler, hooked, fd, wtimer, rtimer,
          eof, reset, edge, whole, lost, synced>>
    BY <1>6 DEF RetryConnect
  <2> QED BY <2>1, <2>2
<1>7. CASE SendRequest
    BY <1>7 DEF SendRequest, StopDetectClose, SendRequestDone, WriteBlocked,
      WriteFails, SendUnchanged, Fail
<1>8. CASE HandlerResponse
    BY <1>8 DEF HandlerResponse, ConvertToErrCode, TryAgain, Answer, FreeConn
<1>9. CASE Return
    BY <1>9 DEF Return
<1>10. CASE WaitConnect
    BY <1>10 DEF WaitConnect
<1>11. CASE WriteHandler
    BY <1>11 DEF WriteHandler, SendRequestDone, SendDone, WriteBlocked,
      WriteFails, SendUnchanged, FreeConn, Fail
<1>12. CASE ReadHandler
  <2>1. /\ hc_req' \in BOOLEAN
        /\ edge' = FALSE
        /\ rtimer' = FALSE
    BY <1>12 DEF ReadHandler, ReadFails, Done, Parse, Fail, Wait, ReadBody
  <2>2. UNCHANGED <<making, first, outgoing, rhandler, hooked, fd, wtimer,
          eof, reset, whole, lost, synced>>
    BY <1>12 DEF ReadHandler
  <2> QED BY <2>1, <2>2
<1>13. CASE ReadIgnored
    BY <1>13 DEF ReadIgnored
<1>14. CASE WriteTimer
  <2>1. /\ hc_req' \in BOOLEAN
        /\ wtimer' = FALSE
    BY <1>14 DEF WriteTimer, Fail
  <2>2. UNCHANGED <<making, first, outgoing, rhandler, hooked, fd, rtimer,
          eof, reset, edge, whole, lost, synced>>
    BY <1>14 DEF WriteTimer
  <2> QED BY <2>1, <2>2
<1>15. CASE ReadTimer
    BY <1>15 DEF ReadTimer, Fail
<1>16. CASE PeerSend
    BY <1>16 DEF PeerSend, PeerUnchanged
<1>17. CASE PeerClose
    BY <1>17 DEF PeerClose, PeerUnchanged
<1>18. CASE TimerUnhooked
  <2>1. UNCHANGED <<hc_req, making, first, outgoing, rhandler, hooked, fd,
      wtimer, rtimer, eof, reset, edge, whole, lost, synced>>
    BY <1>18 DEF TimerUnhooked, cvars, ovars, stack, hvars, tvars, pvars,
      rvars, odd
  <2> QED BY <2>1
<1>19. CASE UNCHANGED vars
    BY <1>19 DEF vars, cvars, ovars, stack, hvars, tvars, pvars, rvars, odd
<1> QED BY <1>1, <1>2, <1>3, <1>4, <1>5, <1>6, <1>7, <1>8, <1>9, <1>10,
      <1>11, <1>12, <1>13, <1>14, <1>15, <1>16, <1>17, <1>18, <1>19 DEF Next,
      Running

(* Every step keeps the objects owned. *)
LEMMA ObjectsStep ==
  ASSUME TypeOK, Objects, Events, [Next]_vars PROVE Objects'
<1> USE DEF TypeOK, StateType, CountType, FlagType, Objects, Events, Timers,
      cvars, ovars, stack, hvars, tvars, pvars, rvars, odd
<1>1. CASE ExecuteFails
    BY <1>1 DEF ExecuteFails, Answer, FreeConn
<1>2. CASE Execute
    BY <1>2 DEF Execute, FreeConn
<1>3. CASE ConnectFails
    BY <1>3 DEF ConnectFails, NewSocket
<1>4. CASE ConnectBegins
    BY <1>4 DEF ConnectBegins, NewSocket, CodeCleared
<1>5. CASE ConnectsAtOnce
    BY <1>5 DEF ConnectsAtOnce, NewSocket
<1>6. CASE RetryConnect
  <2>1. CASE retry_cnt < MaxRetryCon
    BY <1>6, <2>1 DEF RetryConnect
  <2>2. CASE retry_cnt >= MaxRetryCon
    BY <1>6, <2>2 DEF RetryConnect, Fail
  <2> QED BY <1>6, <2>1, <2>2 DEF RetryConnect
<1>7. CASE SendRequest
  <2>1. CASE SendRequestDone
    BY <1>7, <2>1 DEF SendRequest, SendRequestDone, SendUnchanged,
      StopDetectClose
  <2>2. CASE WriteBlocked
    BY <1>7, <2>2 DEF SendRequest, WriteBlocked, SendUnchanged,
      StopDetectClose
  <2>3. CASE WriteFails
    BY <1>7, <2>3 DEF SendRequest, WriteFails, Fail, SendUnchanged,
      StopDetectClose
  <2> QED BY <1>7, <2>1, <2>2, <2>3 DEF SendRequest
<1>8. CASE HandlerResponse
    BY <1>8 DEF HandlerResponse, ConvertToErrCode, TryAgain, Answer, FreeConn
<1>9. CASE Return
    BY <1>9 DEF Return
<1>10. CASE WaitConnect
    BY <1>10 DEF WaitConnect
<1>11. CASE WriteHandler
  <2>1. CASE SendRequestDone
    BY <1>11, <2>1 DEF WriteHandler, SendRequestDone, SendUnchanged
  <2>2. CASE SendDone
    BY <1>11, <2>2 DEF WriteHandler, SendDone, FreeConn, SendUnchanged
  <2>3. CASE WriteBlocked
    BY <1>11, <2>3 DEF WriteHandler, WriteBlocked, SendUnchanged
  <2>4. CASE WriteFails
    BY <1>11, <2>4 DEF WriteHandler, WriteFails, Fail, SendUnchanged
  <2> QED BY <1>11, <2>1, <2>2, <2>3, <2>4 DEF WriteHandler
<1>12. CASE ReadHandler
  <2>1. \/ hc_req' = FALSE /\ detached' = detached + 1 /\ pc' = "response"
        \/ UNCHANGED <<hc_req, detached>> /\ pc' \in {"response", "return"}
    BY <1>12 DEF ReadHandler, ReadFails, Done, Parse, Fail, Wait, ReadBody
  <2>2. UNCHANGED <<ctx, hc, fd, live, reqs, making, lost>>
    BY <1>12 DEF ReadHandler
  <2>3. pc = "loop" /\ hc = "live" /\ hc_req
    BY <1>12 DEF ReadHandler
  <2>4. CASE hc_req' = FALSE /\ detached' = detached + 1 /\ pc' = "response"
    BY <2>2, <2>3, <2>4
  <2>5. CASE UNCHANGED <<hc_req, detached>> /\ pc' \in {"response", "return"}
    BY <2>2, <2>3, <2>5
  <2> QED BY <2>1, <2>4, <2>5
<1>13. CASE WriteTimer
  <2>1. \/ hc_req' = FALSE /\ detached' = detached + 1 /\ pc' = "response"
        \/ UNCHANGED <<hc_req, detached>> /\ pc' = "retry_connect"
    BY <1>13 DEF WriteTimer, Fail
  <2>2. UNCHANGED <<ctx, hc, fd, live, reqs, making, lost>>
    BY <1>13 DEF WriteTimer
  <2>3. pc = "loop" /\ hc = "live" /\ hc_req
    BY <1>13 DEF WriteTimer
  <2>4. CASE hc_req' = FALSE /\ detached' = detached + 1 /\ pc' = "response"
    BY <2>2, <2>3, <2>4
  <2>5. CASE UNCHANGED <<hc_req, detached>> /\ pc' = "retry_connect"
    BY <2>2, <2>3, <2>5
  <2> QED BY <2>1, <2>4, <2>5
<1>14. CASE ReadTimer
    BY <1>14 DEF ReadTimer, Fail
<1>15. CASE ReadIgnored \/ TimerUnhooked \/ PeerSend \/ PeerClose
  <2>1. UNCHANGED <<pc, ctx, hc, hc_req, live, reqs, detached, making, fd,
      lost>>
    BY <1>15 DEF ReadIgnored, TimerUnhooked, PeerSend, PeerUnchanged,
      PeerClose, cvars, ovars, stack, hvars, tvars, pvars, rvars, odd
  <2> QED BY <2>1
<1>16. CASE UNCHANGED vars
    BY <1>16 DEF vars, cvars, ovars, stack, hvars, tvars, pvars, rvars, odd
<1> QED BY <1>1, <1>2, <1>3, <1>4, <1>5, <1>6, <1>7, <1>8, <1>9, <1>10,
      <1>11, <1>12, <1>13, <1>14, <1>15, <1>16 DEF Next, Running

(* Every step keeps timers on open descriptors of live connections only. *)
LEMMA EventsStep ==
  ASSUME TypeOK, Objects, Events, [Next]_vars PROVE Events'
<1> USE DEF TypeOK, StateType, CountType, FlagType, Objects, Events, Timers,
      cvars, ovars, stack, hvars, tvars, pvars, rvars, odd
<1>1. CASE ExecuteFails
    BY <1>1 DEF ExecuteFails, Answer, FreeConn
<1>2. CASE Execute
    BY <1>2 DEF Execute, FreeConn
<1>3. CASE ConnectFails
    BY <1>3 DEF ConnectFails, NewSocket
<1>4. CASE ConnectBegins
    BY <1>4 DEF ConnectBegins, NewSocket, CodeCleared
<1>5. CASE ConnectsAtOnce
    BY <1>5 DEF ConnectsAtOnce, NewSocket
<1>6. CASE RetryConnect
  <2>1. CASE retry_cnt < MaxRetryCon
    BY <1>6, <2>1 DEF RetryConnect
  <2>2. CASE retry_cnt >= MaxRetryCon
    BY <1>6, <2>2 DEF RetryConnect, Fail
  <2> QED BY <1>6, <2>1, <2>2 DEF RetryConnect
<1>7. CASE SendRequest
  <2>1. hc = "live"
    BY <1>7 DEF SendRequest
  <2>2. whandler' = "wait_connect" => ~rtimer'
    BY <1>7 DEF SendRequest, SendRequestDone, WriteBlocked, WriteFails, Fail
  <2>3. pc' \notin {"connect", "retry_connect", "send"}
    BY <1>7 DEF SendRequest, SendRequestDone, WriteBlocked, WriteFails, Fail
  <2>4. UNCHANGED <<hc, fd, hooked, making, synced, fault>>
    BY <1>7 DEF SendRequest, SendRequestDone, WriteBlocked, WriteFails,
      SendUnchanged
  <2> QED BY <1>7, <2>1, <2>2, <2>3, <2>4 DEF SendRequest
<1>8. CASE HandlerResponse
    BY <1>8 DEF HandlerResponse, ConvertToErrCode, TryAgain, Answer, FreeConn
<1>9. CASE Return
    BY <1>9 DEF Return
<1>10. CASE WaitConnect
    BY <1>10 DEF WaitConnect
<1>11. CASE WriteHandler
  <2>1. CASE SendRequestDone
    BY <1>11, <2>1 DEF WriteHandler, SendRequestDone, SendUnchanged
  <2>2. CASE SendDone
    BY <1>11, <2>2 DEF WriteHandler, SendDone, FreeConn, SendUnchanged
  <2>3. CASE WriteBlocked
    BY <1>11, <2>3 DEF WriteHandler, WriteBlocked, SendUnchanged
  <2>4. CASE WriteFails
    BY <1>11, <2>4 DEF WriteHandler, WriteFails, Fail, SendUnchanged
  <2> QED BY <1>11, <2>1, <2>2, <2>3, <2>4 DEF WriteHandler
<1>12. CASE ReadHandler
    BY <1>12 DEF ReadHandler, ReadFails, Done, Parse, Fail, Wait, ReadBody
<1>13. CASE TimerUnhooked
    BY <1>13 DEF TimerUnhooked
<1>14. CASE WriteTimer
  <2>1. CASE whandler = "wait_connect"
    BY <1>14, <2>1 DEF WriteTimer
  <2>2. CASE whandler # "wait_connect"
    BY <1>14, <2>2 DEF WriteTimer, Fail
  <2> QED BY <1>14, <2>1, <2>2 DEF WriteTimer
<1>15. CASE ReadTimer
    BY <1>15 DEF ReadTimer, Fail
<1>16. CASE ReadIgnored \/ PeerSend \/ PeerClose
  <2>1. UNCHANGED <<pc, hc, live, making, whandler, hooked, fd, wtimer,
      rtimer, synced, fault>>
    BY <1>16 DEF ReadIgnored, PeerSend, PeerUnchanged, PeerClose, cvars,
      ovars, stack, hvars, tvars, pvars, rvars, odd
  <2> QED BY <2>1
<1>17. CASE UNCHANGED vars
    BY <1>17 DEF vars, cvars, ovars, stack, hvars, tvars, pvars, rvars, odd
<1> QED BY <1>1, <1>2, <1>3, <1>4, <1>5, <1>6, <1>7, <1>8, <1>9, <1>10,
      <1>11, <1>12, <1>13, <1>14, <1>15, <1>16, <1>17 DEF Next, Running

(* Every step keeps ctx->err_code clear until the attempt fails. *)
LEMMA ReasonsStep ==
  ASSUME TypeOK, Objects, Events, Reasons, [Next]_vars PROVE Reasons'
<1> USE DEF TypeOK, StateType, CountType, FlagType, Objects, Events, Timers,
      Reasons, cvars, ovars, stack, hvars, tvars, pvars, rvars, odd
<1>1. CASE ExecuteFails
    BY <1>1 DEF ExecuteFails, Answer, FreeConn
<1>2. CASE Execute
    BY <1>2 DEF Execute, FreeConn
<1>3. CASE ConnectFails
    BY <1>3 DEF ConnectFails, NewSocket
<1>4. CASE ConnectBegins
    BY <1>4 DEF ConnectBegins, NewSocket, CodeCleared
<1>5. CASE ConnectsAtOnce
    BY <1>5 DEF ConnectsAtOnce, NewSocket
<1>6. CASE RetryConnect
  <2>1. CASE retry_cnt < MaxRetryCon
    BY <1>6, <2>1 DEF RetryConnect
  <2>2. CASE retry_cnt >= MaxRetryCon
    BY <1>6, <2>2 DEF RetryConnect, Fail
  <2> QED BY <1>6, <2>1, <2>2 DEF RetryConnect
<1>7. CASE SendRequest
  <2>1. CASE SendRequestDone
    BY <1>7, <2>1 DEF SendRequest, SendRequestDone, SendUnchanged,
      StopDetectClose
  <2>2. CASE WriteBlocked
    BY <1>7, <2>2 DEF SendRequest, WriteBlocked, SendUnchanged,
      StopDetectClose
  <2>3. CASE WriteFails
    BY <1>7, <2>3 DEF SendRequest, WriteFails, Fail, SendUnchanged,
      StopDetectClose
  <2> QED BY <1>7, <2>1, <2>2, <2>3 DEF SendRequest
<1>8. CASE HandlerResponse
    BY <1>8 DEF HandlerResponse, ConvertToErrCode, TryAgain, Answer, FreeConn
<1>9. CASE Return
    BY <1>9 DEF Return
<1>10. CASE WaitConnect
    BY <1>10 DEF WaitConnect
<1>11. CASE WriteHandler
  <2>1. CASE SendRequestDone
    BY <1>11, <2>1 DEF WriteHandler, SendRequestDone, SendUnchanged
  <2>2. CASE SendDone
    BY <1>11, <2>2 DEF WriteHandler, SendDone, FreeConn, SendUnchanged
  <2>3. CASE WriteBlocked
    BY <1>11, <2>3 DEF WriteHandler, WriteBlocked, SendUnchanged
  <2>4. CASE WriteFails
    BY <1>11, <2>4 DEF WriteHandler, WriteFails, Fail, SendUnchanged
  <2> QED BY <1>11, <2>1, <2>2, <2>3, <2>4 DEF WriteHandler
<1>12. CASE ReadHandler
    BY <1>12 DEF ReadHandler, ReadFails, Done, Parse, Fail, Wait, ReadBody
<1>13. CASE WriteTimer
  <2>1. CASE whandler = "wait_connect"
    BY <1>13, <2>1 DEF WriteTimer
  <2>2. CASE whandler # "wait_connect"
    BY <1>13, <2>2 DEF WriteTimer, Fail
  <2> QED BY <1>13, <2>1, <2>2 DEF WriteTimer
<1>14. CASE ReadTimer
    BY <1>14 DEF ReadTimer, Fail
<1>15. CASE ReadIgnored \/ TimerUnhooked \/ PeerSend \/ PeerClose
  <2>1. UNCHANGED <<pc, qec, ctx, err_code, live, first, synced>>
    BY <1>15 DEF ReadIgnored, TimerUnhooked, PeerSend, PeerUnchanged,
      PeerClose, cvars, ovars, stack, hvars, tvars, pvars, rvars, odd
  <2> QED BY <2>1
<1>16. CASE UNCHANGED vars
    BY <1>16 DEF vars, cvars, ovars, stack, hvars, tvars, pvars, rvars, odd
<1> QED BY <1>1, <1>2, <1>3, <1>4, <1>5, <1>6, <1>7, <1>8, <1>9, <1>10,
      <1>11, <1>12, <1>13, <1>14, <1>15, <1>16 DEF Next, Running

(* Every step keeps HTTP_CODE_OK for what has arrived. *)
LEMMA ArrivedStep ==
  ASSUME TypeOK, Reasons, Arrived, [Next]_vars PROVE Arrived'
<1> USE DEF TypeOK, StateType, CountType, FlagType, Reasons, Arrived, End,
      cvars, ovars, stack, hvars, tvars, pvars, rvars, odd
<1>1. CASE ExecuteFails
    BY <1>1 DEF ExecuteFails, Answer, FreeConn
<1>2. CASE Execute
    BY <1>2 DEF Execute, FreeConn
<1>3. CASE ConnectFails
    BY <1>3 DEF ConnectFails, NewSocket
<1>4. CASE ConnectBegins
    BY <1>4 DEF ConnectBegins, NewSocket, CodeCleared
<1>5. CASE ConnectsAtOnce
    BY <1>5 DEF ConnectsAtOnce, NewSocket
<1>6. CASE RetryConnect
  <2>1. CASE retry_cnt < MaxRetryCon
    BY <1>6, <2>1 DEF RetryConnect
  <2>2. CASE retry_cnt >= MaxRetryCon
    BY <1>6, <2>2 DEF RetryConnect, Fail
  <2> QED BY <1>6, <2>1, <2>2 DEF RetryConnect
<1>7. CASE SendRequest
  <2>1. CASE SendRequestDone
    BY <1>7, <2>1 DEF SendRequest, SendRequestDone, SendUnchanged,
      StopDetectClose
  <2>2. CASE WriteBlocked
    BY <1>7, <2>2 DEF SendRequest, WriteBlocked, SendUnchanged,
      StopDetectClose
  <2>3. CASE WriteFails
    BY <1>7, <2>3 DEF SendRequest, WriteFails, Fail, SendUnchanged,
      StopDetectClose
  <2> QED BY <1>7, <2>1, <2>2, <2>3 DEF SendRequest
<1>8. CASE HandlerResponse
    BY <1>8 DEF HandlerResponse, ConvertToErrCode, TryAgain, Answer, FreeConn
<1>9. CASE Return
    BY <1>9 DEF Return
<1>10. CASE WaitConnect
    BY <1>10 DEF WaitConnect
<1>11. CASE WriteHandler
  <2>1. CASE SendRequestDone
    BY <1>11, <2>1 DEF WriteHandler, SendRequestDone, SendUnchanged
  <2>2. CASE SendDone
    BY <1>11, <2>2 DEF WriteHandler, SendDone, FreeConn, SendUnchanged
  <2>3. CASE WriteBlocked
    BY <1>11, <2>3 DEF WriteHandler, WriteBlocked, SendUnchanged
  <2>4. CASE WriteFails
    BY <1>11, <2>4 DEF WriteHandler, WriteFails, Fail, SendUnchanged
  <2> QED BY <1>11, <2>1, <2>2, <2>3, <2>4 DEF WriteHandler
<1>12. CASE ReadHandler
    BY <1>12 DEF ReadHandler, ReadFails, Done, Parse, Fail, Wait, ReadBody
<1>13. CASE WriteTimer
  <2>1. CASE whandler = "wait_connect"
    BY <1>13, <2>1 DEF WriteTimer
  <2>2. CASE whandler # "wait_connect"
    BY <1>13, <2>2 DEF WriteTimer, Fail
  <2> QED BY <1>13, <2>1, <2>2 DEF WriteTimer
<1>14. CASE ReadTimer
    BY <1>14 DEF ReadTimer, Fail
<1>15. CASE PeerClose
    BY <1>15 DEF PeerClose, PeerUnchanged
<1>16. CASE ReadIgnored \/ TimerUnhooked \/ PeerSend
  <2>1. UNCHANGED <<pc, qec, kind, got, eof>>
    BY <1>16 DEF ReadIgnored, TimerUnhooked, PeerSend, PeerUnchanged, cvars,
      ovars, stack, hvars, tvars, pvars, rvars, odd
  <2> QED BY <2>1 DEF End
<1>17. CASE UNCHANGED vars
    BY <1>17 DEF vars, cvars, ovars, stack, hvars, tvars, pvars, rvars, odd,
      End
<1> QED BY <1>1, <1>2, <1>3, <1>4, <1>5, <1>6, <1>7, <1>8, <1>9, <1>10,
      <1>11, <1>12, <1>13, <1>14, <1>15, <1>16, <1>17 DEF Next, Running

(* One attempt more may make MaxRetryCon + 1 connects more. *)
LEMMA SpentNext ==
  ASSUME NEW n \in Nat
  PROVE  /\ Spent(n) \in Nat
         /\ Spent(n + 1) = Spent(n) + MaxRetryCon + 1
  BY DEF Spent

(* The attempts that are allowed make no more than their product. *)
LEMMA SpentBound ==
  ASSUME NEW n \in 0..MaxRetryReq
  PROVE  Spent(n) + MaxRetryCon + 1 <= (MaxRetryReq + 1) * (MaxRetryCon + 1)
<1> DEFINE b == MaxRetryCon + 1
           d == MaxRetryReq - n
<1>1. b \in Nat /\ d \in Nat /\ MaxRetryReq = n + d
    OBVIOUS
<1>2. d * b \in Nat
    BY <1>1
<1>3. (MaxRetryReq + 1) * b = n * b + d * b + b
    BY <1>1
<1> QED BY <1>1, <1>2, <1>3 DEF Spent

(* Every step keeps the connects of an attempt within its retries. *)
LEMMA ConnectsStep ==
  ASSUME TypeOK, Objects, Events, Connects, [Next]_vars PROVE Connects'
<1> USE DEF TypeOK, StateType, CountType, FlagType, Objects, Events, Timers,
      Connects, cvars, ovars, stack, hvars, tvars, pvars, rvars, odd
<1>a. /\ Spent(retry_num) \in Nat
      /\ Spent(retry_num + 1) = Spent(retry_num) + MaxRetryCon + 1
    BY SpentNext
<1>1. CASE ExecuteFails
    BY <1>1, <1>a DEF ExecuteFails, Answer, FreeConn
<1>2. CASE Execute
    BY <1>2, <1>a DEF Execute, FreeConn
<1>3. CASE ConnectFails
    BY <1>3, <1>a DEF ConnectFails, NewSocket
<1>4. CASE ConnectBegins
    BY <1>4, <1>a DEF ConnectBegins, NewSocket, CodeCleared
<1>5. CASE ConnectsAtOnce
    BY <1>5, <1>a DEF ConnectsAtOnce, NewSocket
<1>6. CASE RetryConnect
  <2>1. CASE retry_cnt < MaxRetryCon
    BY <1>6, <2>1, <1>a DEF RetryConnect
  <2>2. CASE retry_cnt >= MaxRetryCon
    BY <1>6, <2>2, <1>a DEF RetryConnect, Fail
  <2> QED BY <1>6, <2>1, <2>2 DEF RetryConnect
<1>7. CASE SendRequest
  <2>1. CASE SendRequestDone
    BY <1>7, <2>1, <1>a DEF SendRequest, SendRequestDone, SendUnchanged,
      StopDetectClose
  <2>2. CASE WriteBlocked
    BY <1>7, <2>2, <1>a DEF SendRequest, WriteBlocked, SendUnchanged,
      StopDetectClose
  <2>3. CASE WriteFails
    BY <1>7, <2>3, <1>a DEF SendRequest, WriteFails, Fail, SendUnchanged,
      StopDetectClose
  <2> QED BY <1>7, <2>1, <2>2, <2>3 DEF SendRequest
<1>8. CASE HandlerResponse
  <2>1. CASE TryAgain(ConvertToErrCode)
    BY <1>8, <1>a, <2>1 DEF HandlerResponse
  <2>2. CASE ~TryAgain(ConvertToErrCode)
    BY <1>8, <1>a, <2>2 DEF HandlerResponse, Answer
  <2> QED BY <2>1, <2>2
<1>9. CASE Return
    BY <1>9, <1>a DEF Return
<1>10. CASE WaitConnect
    BY <1>10, <1>a DEF WaitConnect
<1>11. CASE WriteHandler
  <2>1. CASE SendRequestDone
    BY <1>11, <2>1, <1>a DEF WriteHandler, SendRequestDone, SendUnchanged
  <2>2. CASE SendDone
    BY <1>11, <2>2, <1>a DEF WriteHandler, SendDone, FreeConn, SendUnchanged
  <2>3. CASE WriteBlocked
    BY <1>11, <2>3, <1>a DEF WriteHandler, WriteBlocked, SendUnchanged
  <2>4. CASE WriteFails
    BY <1>11, <2>4, <1>a DEF WriteHandler, WriteFails, Fail, SendUnchanged
  <2> QED BY <1>11, <2>1, <2>2, <2>3, <2>4 DEF WriteHandler
<1>12. CASE ReadHandler
    BY <1>12, <1>a DEF ReadHandler, ReadFails, Done, Parse, Fail, Wait,
      ReadBody
<1>13. CASE WriteTimer
  <2>1. CASE whandler = "wait_connect"
    BY <1>13, <2>1, <1>a DEF WriteTimer
  <2>2. CASE whandler # "wait_connect"
    BY <1>13, <2>2, <1>a DEF WriteTimer, Fail
  <2> QED BY <1>13, <2>1, <2>2 DEF WriteTimer
<1>14. CASE ReadTimer
    BY <1>14, <1>a DEF ReadTimer, Fail
<1>15. CASE ReadIgnored \/ TimerUnhooked \/ PeerSend \/ PeerClose
  <2>1. UNCHANGED <<pc, ctx, retry_num, hc, live, retry_cnt, whandler, calls,
      connects>>
    BY <1>15 DEF ReadIgnored, TimerUnhooked, PeerSend, PeerUnchanged,
      PeerClose, cvars, ovars, stack, hvars, tvars, pvars, rvars, odd
  <2> QED BY <2>1
<1>16. CASE UNCHANGED vars
    BY <1>16 DEF vars, cvars, ovars, stack, hvars, tvars, pvars, rvars, odd
<1> QED BY <1>1, <1>2, <1>3, <1>4, <1>5, <1>6, <1>7, <1>8, <1>9, <1>10,
      <1>11, <1>12, <1>13, <1>14, <1>15, <1>16 DEF Next, Running

(* Every step keeps the answer the reason of the last failure. *)
LEMMA LastReasonStep ==
  ASSUME TypeOK, Objects, Reasons, Connects, LastReason, [Next]_vars
  PROVE  LastReason'
<1> USE DEF TypeOK, StateType, CountType, FlagType, Objects, Reasons,
      Connects, LastReason, Code, cvars, ovars, stack, hvars, tvars, pvars,
      rvars, odd
<1>1. CASE ExecuteFails
    BY <1>1 DEF ExecuteFails, Answer, FreeConn
<1>2. CASE ConnectsAtOnce
    BY <1>2 DEF ConnectsAtOnce, NewSocket
<1>3. CASE HandlerResponse
    BY <1>3 DEF HandlerResponse, ConvertToErrCode, TryAgain, Answer, FreeConn
<1>4. CASE Execute \/ ConnectFails \/ ConnectBegins \/ RetryConnect \/
           SendRequest \/ Return \/ WaitConnect \/ WriteHandler \/
           ReadHandler \/ ReadIgnored \/ TimerUnhooked \/ WriteTimer \/
           ReadTimer \/ PeerSend \/ PeerClose
  <2>1. UNCHANGED <<calls, result, why, synced>>
    BY <1>4 DEF Execute, FreeConn, ConnectFails, NewSocket, ConnectBegins,
      CodeCleared, RetryConnect, Fail, SendRequest, StopDetectClose,
      SendRequestDone, WriteBlocked, WriteFails, SendUnchanged, Return,
      WaitConnect, WriteHandler, SendDone, ReadHandler, ReadFails, Done,
      Parse, Wait, ReadBody, ReadIgnored, TimerUnhooked, WriteTimer,
      ReadTimer, PeerSend, PeerUnchanged, PeerClose, cvars, ovars, stack,
      hvars, tvars, pvars, rvars, odd
  <2> QED BY <2>1
<1>5. CASE UNCHANGED vars
    BY <1>5 DEF vars, cvars, ovars, stack, hvars, tvars, pvars, rvars, odd
<1> QED BY <1>1, <1>2, <1>3, <1>4, <1>5 DEF Next, Running

(* Every step keeps an answer of OK whole. *)
LEMMA WholeStep ==
  ASSUME TypeOK, Objects, Events, Connects, Arrived, WholeUnlessClosed,
         [Next]_vars
  PROVE  WholeUnlessClosed'
<1> USE DEF TypeOK, StateType, CountType, FlagType, Objects, Events,
      Connects, Arrived, WholeUnlessClosed, cvars, ovars, stack, hvars,
      tvars, pvars, rvars, odd
<1>1. CASE ExecuteFails
    BY <1>1 DEF ExecuteFails, Answer, FreeConn
<1>2. CASE ConnectFails
    BY <1>2 DEF ConnectFails, NewSocket
<1>3. CASE ConnectBegins
    BY <1>3 DEF ConnectBegins, NewSocket, CodeCleared
<1>4. CASE ConnectsAtOnce
    BY <1>4 DEF ConnectsAtOnce, NewSocket
<1>5. CASE HandlerResponse
  <2>1. CASE TryAgain(ConvertToErrCode)
    BY <1>5, <2>1 DEF HandlerResponse
  <2>2. CASE ~TryAgain(ConvertToErrCode) /\ ConvertToErrCode = "OK"
    <3>1. qec = "OK" /\ ResponseCode = 200
      BY <2>2 DEF ConvertToErrCode
    <3>2. got = End \/ eof
      BY <1>5, <3>1 DEF HandlerResponse, ResponseCode
    <3>3. whole' = (got = End) /\ eof' = eof
      BY <1>5, <2>2 DEF HandlerResponse, Answer
    <3> QED BY <3>2, <3>3
  <2>3. CASE ~TryAgain(ConvertToErrCode) /\ ConvertToErrCode # "OK"
    BY <1>5, <2>3 DEF HandlerResponse, Answer
  <2> QED BY <2>1, <2>2, <2>3
<1>6. CASE PeerClose
    BY <1>6 DEF PeerClose, PeerUnchanged
<1>7. CASE Execute \/ RetryConnect \/ SendRequest \/ Return \/ WaitConnect \/
           WriteHandler \/ ReadHandler \/ ReadIgnored \/ TimerUnhooked \/
           WriteTimer \/ ReadTimer \/ PeerSend
  <2>1. UNCHANGED <<eof, calls, result, whole>>
    BY <1>7 DEF Execute, FreeConn, RetryConnect, Fail, SendRequest,
      StopDetectClose, SendRequestDone, WriteBlocked, WriteFails,
      SendUnchanged, Return, WaitConnect, WriteHandler, SendDone,
      ReadHandler, ReadFails, Done, Parse, Wait, ReadBody, ReadIgnored,
      TimerUnhooked, WriteTimer, ReadTimer, PeerSend, PeerUnchanged, cvars,
      ovars, stack, hvars, tvars, pvars, rvars, odd
  <2> QED BY <2>1
<1>8. CASE UNCHANGED vars
    BY <1>8 DEF vars, cvars, ovars, stack, hvars, tvars, pvars, rvars, odd
<1> QED BY <1>1, <1>2, <1>3, <1>4, <1>5, <1>6, <1>7, <1>8 DEF Next, Running

-----------------------------------------------------------------------------
(* The inductive invariant. *)
Safe ==
  /\ TypeOK /\ Objects /\ Events /\ Connects /\ Reasons /\ Arrived
  /\ LastReason /\ WholeUnlessClosed

(* A context that Execute has just built satisfies it. *)
LEMMA SafeInit == Init => Safe
<1> SUFFICES ASSUME Init PROVE Safe
    OBVIOUS
<1> USE DEF Init
<1>1. StateType
    BY DEF StateType, Code, ErrCode, Reading
<1>2. CountType
    BY DEF CountType
<1>3. FlagType
    BY DEF FlagType
<1>4. Objects /\ Events
    BY DEF Objects, Events, Timers
<1>5. Connects
    BY DEF Connects, Spent
<1>6. Reasons /\ Arrived /\ LastReason /\ WholeUnlessClosed
    BY DEF Reasons, Arrived, LastReason, WholeUnlessClosed
<1> QED BY <1>1, <1>2, <1>3, <1>4, <1>5, <1>6 DEF Safe, TypeOK

(* Every step of the call, of the event loop and of the peer keeps it. *)
LEMMA SafeStep == Safe /\ [Next]_vars => Safe'
<1> SUFFICES ASSUME Safe, [Next]_vars PROVE Safe'
    OBVIOUS
<1> USE DEF Safe
<1>1. TypeOK'
    BY StateTypeStep, CountTypeStep, FlagTypeStep DEF TypeOK
<1>2. Objects' /\ Events'
    BY ObjectsStep, EventsStep
<1>3. Connects' /\ Reasons' /\ Arrived'
    BY ConnectsStep, ReasonsStep, ArrivedStep
<1>4. LastReason' /\ WholeUnlessClosed'
    BY LastReasonStep, WholeStep
<1> QED BY <1>1, <1>2, <1>3, <1>4

(* It always holds. *)
LEMMA SafeAlways == SafeSpec => []Safe
<1> QED BY SafeInit, SafeStep, PTL DEF SafeSpec

(* response_handler is called exactly once, with the context that          *)
(* HandlerResponse deletes, and one Request::Execute makes at most         *)
(* (max_retry_req_num + 1) * (max_retry_con_num + 1) connects, for every   *)
(* value of the two options: although conn_wait_connect_handler sets       *)
(* hc->retry_cnt back to 0, an attempt that has connected makes no other.  *)
THEOREM CalledOnceAlways == SafeSpec => []CalledOnce
<1>1. Safe => CalledOnce
  <2> SUFFICES ASSUME Safe PROVE CalledOnce
      OBVIOUS
  <2>1. retry_num \in 0..MaxRetryReq /\ connects \in Nat
      BY DEF Safe, TypeOK, CountType
  <2>2. connects <= Spent(retry_num) + MaxRetryCon + 1
      BY DEF Safe, Connects
  <2>3. Spent(retry_num) \in Nat
      BY <2>1, SpentNext
  <2>4. Spent(retry_num) + MaxRetryCon + 1
          <= (MaxRetryReq + 1) * (MaxRetryCon + 1)
      BY <2>1, SpentBound
  <2>5. connects <= (MaxRetryReq + 1) * (MaxRetryCon + 1)
      BY <2>1, <2>2, <2>3, <2>4
  <2> QED BY <2>5 DEF CalledOnce, Safe, Connects
<1> QED BY <1>1, SafeAlways, PTL

(* Between two events the context owns one connection with its request and *)
(* a deleted one leaves nothing behind, whichever of http_conn_fail,       *)
(* http_retry_connect, http_send_done, Execute and ~RequestContext has     *)
(* freed what; nothing is freed twice, and no event is cleared or freed    *)
(* while it is in the timer tree.                                          *)
THEOREM OwnedAlways == SafeSpec => []Owned
<1>1. Safe => Owned
    BY DEF Safe, Objects, Events, Timers, Owned, TypeOK, StateType, CountType,
      FlagType
<1> QED BY <1>1, SafeAlways, PTL

(* What response_handler gets is the reason of the last failure: a code    *)
(* that an earlier attempt left in ctx->err_code is never reported for a   *)
(* later one, as long as connect(2) does not succeed at once.              *)
THEOREM LastReasonAlways == SafeSpec => []LastReason
<1>1. Safe => LastReason
    BY DEF Safe
<1> QED BY <1>1, SafeAlways, PTL

(* A response handed over as OK is whole or was cut off by the peer's      *)
(* close, for every length of the body and every way to cut the stream.    *)
THEOREM WholeAlways == SafeSpec => []WholeUnlessClosed
<1>1. Safe => WholeUnlessClosed
    BY DEF Safe
<1> QED BY <1>1, SafeAlways, PTL
=============================================================================
