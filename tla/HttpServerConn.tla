--------------------------- MODULE HttpServerConn ---------------------------
(***************************************************************************)
(* One incoming connection of the http server: the http_conn_t, the        *)
(* http_req_t objects that succeed each other on it, and the replies that  *)
(* the framework owes.  All of it runs in the main thread of a worker      *)
(* process, which posts the events of one epoll_wait and then calls their  *)
(* handlers, the read event of a connection before its write event.  pc is *)
(* "loop" between two handlers, and elsewhere inside the running call.     *)
(*                                                                         *)
(* A request arrives in pieces: 1 and 2 make its first line, 3 completes   *)
(* its headers, 4 and 5 are the body of a POST.  Piece n of the client's   *)
(* request r is <<r, n>>.  The framework calls back once for every Invoke, *)
(* which is what InvokeService promises.                                   *)
(***************************************************************************)
EXTENDS Integers, Sequences, FiniteSetsExt, Functions

CONSTANTS
  MaxReq,       \* requests the client sends
  Kinds,        \* kinds of requests, see Kind
  MaxPiped,     \* bound: the client sends its first MaxPiped requests, and
                \* more while an error page waits to be written, without
                \* waiting for replies if it likes
  ClientFaults, \* the client closes or resets the connection at any moment
  Blocks,       \* bound: how often the socket buffer is full before one
                \* reply has been written
  Slow          \* the client may leave a reply unread until timeout_send

(* "get" and "post" are served by a module; "sync" is answered inside the  *)
(* request handler (a bad URI, an unknown module); "status" is served by   *)
(* stat_cb, which asks the one module there is; the others are malformed   *)
(* in the first line or later.                                             *)
Kind == {"get", "post", "sync", "status", "badline", "badhead"}

ASSUME HttpServerAssumption ==
  /\ MaxReq \in Nat \ {0}
  /\ Kinds \subseteq Kind /\ Kinds # {}
  /\ Blocks \in Nat
  /\ MaxPiped \in Nat
  /\ {ClientFaults, Slow} \subseteq BOOLEAN

(* Objects of type http_req_t, in the order of their allocation. *)
Obj == 1..(MaxReq + 1)
Req == 1..MaxReq
Piece == Req \X (1..5)

VARIABLES
  pc,       \* "accept", "loop", or the function that is running
  ec,       \* argument of http_conn_fail
  clear,    \* object whose uri http_handle_request clears when its callback
            \* has returned, 0: none
  wnext,    \* the write event of the connection is posted, too
  open,     \* the http_conn_t exists and its socket is open
  status,   \* hc->status
  hreq,     \* hc->req, 0: NULL
  obj,      \* the http_req_t objects
  pending,  \* callbacks the framework owes for an object
  whandler, \* hc->write_event_handler is conn_write_handler
  wactive,  \* c->write->active: EPOLLOUT is registered
  wtimer,   \* c->write is in the timer tree
  buf,      \* req->in of hc->req
  sock,     \* pieces in the socket
  edge, wedge,      \* unreported EPOLLIN and EPOLLOUT edges
  blocked,  \* the socket's send buffer is full
  eof, reset,       \* the client has closed its side, has reset
  kind, keep,       \* of each request: its kind, no "Connection: close"
  creq, cpiece,     \* the client's position: request and piece sent last
  piped,    \* history: a request was sent before the reply of another one
  replies,  \* history: requests whose replies have been sent, in order
  cut,      \* history: requests handled before they had arrived entirely
  late,     \* history: end of file was read with a request in progress
  fault     \* history: undefined behaviour, with the kind of the request

call == <<ec, clear, wnext>>
hvars == <<open, status, hreq>>
wvars == <<whandler, wactive, wtimer>>
svars == <<sock, edge, wedge, blocked, eof, reset>>
clvars == <<kind, keep, creq, cpiece, piped>>
hist == <<replies, cut, late, fault>>
vars == <<pc, call, hvars, obj, pending, wvars, buf, svars, clvars, hist>>

Code == {"INVALID", "READ_EOF", "WRITE_EOF", "WRITE_TIMEOUT"}

(* The state of the running call, of the connection and of its flags. *)
CallType ==
  /\ pc \in {"accept", "loop", "read", "write", "handle", "flush", "fail",
             "return"}
  /\ ec \in Code /\ clear \in Obj \cup {0}
  /\ status \in {"first", "headers", "body", "writing", "disconnected"}
  /\ hreq \in Obj \cup {0}

FlagType ==
  {wnext, open, whandler, wactive, wtimer, edge, wedge, blocked, eof, reset,
   piped, late} \subseteq BOOLEAN

(* A http_req_t; resp: its kind is SHS_HTTP_KIND_RESPONSE. *)
Request ==
  [state: {"new", "live", "freed"}, attached: BOOLEAN, uri: BOOLEAN,
   resp: BOOLEAN, userdone: BOOLEAN, close: BOOLEAN, req: Req \cup {0},
   last: 0..5, out: Seq(Req \cup {0}), blocks: 0..Blocks]

ObjType == obj \in [Obj -> Request] /\ pending \in [Obj -> Nat]

(* The bytes, the client and what has been seen. *)
DataType ==
  /\ buf \in Seq(Piece) /\ sock \in Seq(Piece)
  /\ kind \in [Req -> Kind] /\ keep \in [Req -> BOOLEAN]
  /\ creq \in Req \cup {0} /\ cpiece \in 0..5
  /\ replies \in Seq(Req \cup {0}) /\ cut \subseteq Req
  /\ fault \subseteq {"clear", "reply"} \X Kind

TypeOK == CallType /\ FlagType /\ ObjType /\ DataType

NewReq == [state |-> "live", attached |-> TRUE, uri |-> FALSE, resp |-> FALSE,
           userdone |-> TRUE, close |-> FALSE, req |-> 0, last |-> 0,
           out |-> <<>>, blocks |-> 0]

Init ==
  /\ pc = "accept"
  /\ ec = "INVALID" /\ clear = 0 /\ wnext = FALSE
  /\ open = FALSE /\ status = "first" /\ hreq = 0
  /\ obj = [o \in Obj |-> [NewReq EXCEPT !.state = "new", !.attached = FALSE]]
  /\ pending = [o \in Obj |-> 0]
  /\ whandler = FALSE /\ wactive = FALSE /\ wtimer = FALSE
  /\ buf = <<>> /\ sock = <<>>
  /\ edge = FALSE /\ wedge = FALSE /\ blocked = FALSE
  /\ eof = FALSE /\ reset = FALSE
  /\ kind = [r \in Req |-> "get"] /\ keep = [r \in Req |-> TRUE]
  /\ creq = 0 /\ cpiece = 0 /\ piped = FALSE
  /\ replies = <<>> /\ cut = {} /\ late = FALSE /\ fault = {}

-----------------------------------------------------------------------------
(* Accepting, and events.                                                  *)

(* http_accept_handler: the connection pool may be empty. *)
Accept ==
  /\ pc = "accept"
  /\ pc' = "loop"
  /\ \/ /\ open' = TRUE /\ hreq' = 1
        /\ obj' = [obj EXCEPT ![1] = NewReq]
     \/ UNCHANGED <<open, hreq, obj>>
  /\ UNCHANGED <<call, status, pending, wvars, buf, svars, clvars, hist>>

(* epoll_wait reports everything that is ready once there is an edge, and  *)
(* the handlers of both events are posted.                                 *)
Event ==
  LET in  == edge \/ sock # <<>> \/ eof \/ reset
      out == wactive /\ ~blocked
  IN
  /\ pc = "loop" /\ open /\ (edge \/ wedge)
  /\ edge' = FALSE /\ wedge' = FALSE
  /\ pc' = IF in THEN "read" ELSE "write"
  /\ wnext' = (in /\ out)
  /\ UNCHANGED <<ec, clear, hvars, obj, pending, wvars, buf, sock,
                 blocked, eof, reset, clvars, hist>>

(* event_process_posted skips the write event of a closed connection.      *)
(* Before, http_handle_request has cleared the uri of its request, if the  *)
(* callback was req_cb.                                                    *)
Return ==
  /\ pc = "return"
  /\ IF clear = 0 THEN UNCHANGED <<obj, fault>>
     ELSE IF obj[clear].state = "freed"
          THEN /\ fault' = fault \cup {<<"clear", kind[obj[clear].req]>>}
               /\ UNCHANGED obj
          ELSE /\ obj' = [obj EXCEPT ![clear].uri = FALSE]
               /\ UNCHANGED fault
  /\ clear' = 0
  /\ wnext' = FALSE
  /\ pc' = IF wnext /\ open THEN "write" ELSE "loop"
  /\ UNCHANGED <<ec, hvars, pending, wvars, buf, svars, clvars, replies,
                 cut, late>>

-----------------------------------------------------------------------------
(* Reading: conn_read_handler.                                             *)

Reader == UNCHANGED <<clear, wnext, open, hreq, pending, wvars, edge,
                      wedge, blocked, eof, reset, clvars, replies, cut, fault>>

(* The request, in some state of arrival, is not complete: wait. *)
Wait(st, rest, o) ==
  /\ status' = st /\ buf' = rest /\ obj' = [obj EXCEPT ![hreq] = o]
  /\ pc' = "return" /\ UNCHANGED ec

Invalid(st, rest, o) ==
  /\ status' = st /\ buf' = rest /\ obj' = [obj EXCEPT ![hreq] = o]
  /\ ec' = "INVALID" /\ pc' = "fail"

(* http_conn_done calls http_handle_request. *)
Done(st, rest, o) ==
  /\ status' = IF st = "disconnected" THEN st ELSE "writing"
  /\ buf' = rest /\ obj' = [obj EXCEPT ![hreq] = o]
  /\ pc' = "handle" /\ UNCHANGED ec

(* Mutant: the body is complete with its first piece. *)
ReadBodyEarly(rest, o) ==
  LET last == Max({o.last} \cup {rest[i][2] : i \in DOMAIN rest})
      p == [o EXCEPT !.last = last]
  IN IF last >= 4 \/ eof THEN Done("body", <<>>, p) ELSE Wait("body", <<>>, p)

(* http_get_body, http_read_body: everything in the buffer is taken, and   *)
(* the handler reads again until there is nothing left or end of file.     *)
(* What an answered object takes for a body has any length.                *)
ReadBody(rest, o) ==
  LET mine == {i \in DOMAIN rest : rest[i][1] = o.req}
      p == IF o.resp THEN o
           ELSE [o EXCEPT !.last = Max({o.last} \cup {rest[i][2] : i \in mine})]
  IN \/ (o.resp \/ p.last = 5) /\ Done("body", <<>>, p)
     \/ (o.resp \/ p.last < 5) /\ ~eof /\ Wait("body", <<>>, p)
     \/ (o.resp \/ p.last < 5) /\ eof /\ Done("disconnected", <<>>, p)

(* The first line in the buffer ends with piece 2, or with a piece 3 that  *)
(* is taken for a first line.                                              *)
LineEnds(b) == {i \in DOMAIN b : b[i][2] \in {2, 3}}

Remains(b, i) == SubSeq(b, i + 1, Len(b))

(* http_read_header of an object that has been answered, whose reply has   *)
(* not been written: the lines are read as headers of a response, and may  *)
(* end them, be none, or announce a body.                                  *)
ReadResponse(rest, o) ==
  \/ LineEnds(rest) = {} /\ Wait("headers", rest, o)
  \/ \E i \in LineEnds(rest) :
       \/ i = Max(LineEnds(rest)) /\ Wait("headers", Remains(rest, i), o)
       \/ \E st \in {"headers", "body"} : Invalid(st, Remains(rest, i), o)
       \/ Done("headers", Remains(rest, i), o)
       \/ ReadBody(Remains(rest, i), o)

(* http_read_header: headers may be malformed, or those of a POST give no  *)
(* length of its body.                                                     *)
ReadHeader(rest, o) ==
  \/ o.resp /\ ReadResponse(rest, o)
  \/ ~o.resp /\ rest = <<>> /\ Wait("headers", rest, o)
  \/ /\ ~o.resp /\ rest # <<>>
     /\ LET h == [o EXCEPT !.close = ~keep[o.req], !.last = 3] IN
        CASE kind[o.req] = "badhead" -> \E st \in {"headers", "body"} :
                                           Invalid(st, Tail(rest), h)
          [] kind[o.req] = "post"    -> ReadBody(Tail(rest), h)
          [] OTHER                   -> Done("headers", Tail(rest), h)

(* http_parse_request_line accepts the line that the first i pieces make. *)
RequestLine(b, i) ==
  /\ SubSeq(b, 1, i) = <<<<b[i][1], 1>>, <<b[i][1], 2>>>>
  /\ kind[b[i][1]] # "badline"

(* http_read_firstline: a line of an object that has been answered is      *)
(* parsed as that of a response, which never sets the uri.  A request line *)
(* is none; what was no request line, headers or a body can look like one. *)
ReadFirstline(b) ==
  \/ LineEnds(b) = {} /\ Wait("first", b, obj[hreq])
  \/ /\ LineEnds(b) # {}
     /\ LET i == Min(LineEnds(b))
            line == [obj[hreq] EXCEPT !.req = b[i][1]]
        IN \/ /\ ~line.resp /\ RequestLine(b, i)
              /\ ReadHeader(Remains(b, i), [line EXCEPT !.uri = TRUE, !.last = 2])
           \/ /\ line.resp /\ ~RequestLine(b, i)
              /\ ReadHeader(Remains(b, i), line)
           \/ /\ line.resp \/ ~RequestLine(b, i)
              /\ Invalid("first", Remains(b, i), line)

(* The switch at the end of conn_read_handler. *)
ReadByStatus(b) ==
  CASE status = "first"   -> ReadFirstline(b)
    [] status = "headers" -> ReadHeader(b, obj[hreq])
    [] status = "body"    -> ReadBody(b, obj[hreq])
    [] OTHER              -> Wait(status, b, obj[hreq])

(* Mutant: end of file is ignored while a request is served. *)
EndIgnored == Wait(status, <<>>, obj[hreq])

(* End of file and nothing in the buffer. *)
EndOfFile == Done("disconnected", <<>>, obj[hreq])

(* conn_read_handler *)
ReadHandler ==
  LET b == buf \o sock IN
  /\ pc = "read"
  /\ sock' = <<>>
  /\ \/ /\ reset
        /\ ec' = "READ_EOF" /\ pc' = "fail"
        /\ UNCHANGED <<status, buf, obj, late>>
     \/ /\ ~reset
        /\ late' = (late \/ (eof /\ (b # <<>> \/ obj[hreq].uri)))
        /\ \/ b = <<>> /\ eof /\ EndOfFile
           \/ b = <<>> /\ ~eof /\ Wait(status, b, obj[hreq])
           \/ b # <<>> /\ ReadByStatus(b)
  /\ Reader

-----------------------------------------------------------------------------
(* Handling a request and replying.                                        *)

Pieces(k) == IF k = "post" THEN 5 ELSE 3

(* Framework::Invoke with this request's callback. *)
Invoke(o) == pending' = [pending EXCEPT ![o] = @ + 1]

(* http_handle_request sets userdone to false and clears uri after req_cb, *)
(* not after stat_cb.                                                      *)
InHands(o) == [obj EXCEPT ![o].userdone = FALSE,
                          ![o].uri = (kind[obj[o].req] = "status")]

(* http_make_header: status line, headers and body of the reply to r are   *)
(* added to what is in out.                                                *)
MakeHeader(out, r) == Append(out, r)

(* http_response_code makes the object a response; http_send. *)
Prepare(o) == [obj EXCEPT ![o].resp = TRUE,
                          ![o].userdone = TRUE,
                          ![o].out = MakeHeader(@, obj[o].req)]

(* http_send_page adds "Connection: close". *)
SendPage(o) == [Prepare(o) EXCEPT ![o].close = TRUE]

(* stat_cb answers at once: HttpStatsHandler, which is that of the monitor *)
(* process, or HttpStatusHandler without its file or refused by the module.*)
StatsPage(o) == Prepare(o)

(* http_request_free: every field is cleared and the pool destroyed. *)
RequestFree(o) == [obj EXCEPT ![o].state = "freed"]

(* http_handle_request with a request that has been parsed. *)
HandleRequest ==
  LET r == obj[hreq].req IN
  /\ pc = "handle" /\ obj[hreq].uri
  /\ cut' = IF obj[hreq].last < Pieces(kind[r]) THEN cut \cup {r} ELSE cut
  /\ \/ /\ kind[r] # "sync"
        /\ Invoke(hreq)
        /\ obj' = InHands(hreq)
        /\ pc' = "return"
        /\ UNCHANGED clear
     \/ /\ kind[r] = "sync"
        /\ obj' = Prepare(hreq)
        /\ clear' = hreq
        /\ pc' = "flush"
        /\ UNCHANGED pending
     \/ /\ \/ kind[r] = "status" /\ obj' = StatsPage(hreq)
           \/ kind[r] = "sync" /\ obj' = SendPage(hreq)  \* no req_cb: 404
        /\ pc' = "flush"
        /\ UNCHANGED <<clear, pending>>
  /\ UNCHANGED <<ec, wnext, hvars, wvars, buf, svars, clvars, replies, late,
                 fault>>

(* http_handle_request with nothing parsed, or not any more: the client    *)
(* has gone, or it gets a page that says so and "Connection: close".       *)
HandleNothing ==
  /\ pc = "handle" /\ ~obj[hreq].uri
  /\ \/ /\ status = "disconnected"
        /\ ec' = "READ_EOF" /\ pc' = "fail"
        /\ UNCHANGED obj
     \/ /\ status # "disconnected"
        /\ obj' = SendPage(hreq)
        /\ pc' = "flush"
        /\ UNCHANGED ec
  /\ UNCHANGED <<clear, wnext, hvars, pending, wvars, buf, svars, clvars, hist>>

(* Mutant: a reply to a client that has gone frees nothing. *)
ReplyForgets(o) == UNCHANGED obj

(* http_send_reply when the connection has gone before. *)
ReplyToNobody(o) == obj' = RequestFree(o)

(* The framework calls InvokeReply or StatusReply: http_send_reply. *)
Reply(o) ==
  /\ pc = "loop" /\ pending[o] > 0
  /\ pending' = [pending EXCEPT ![o] = @ - 1]
  /\ \/ /\ obj[o].state = "freed"
        /\ fault' = fault \cup {<<"reply", kind[obj[o].req]>>}
        /\ UNCHANGED <<pc, obj>>
     \/ /\ obj[o].state = "live" /\ ~obj[o].attached
        /\ ReplyToNobody(o)
        /\ UNCHANGED <<pc, fault>>
     \/ /\ obj[o].state = "live" /\ obj[o].attached
        /\ obj' = Prepare(o)
        /\ pc' = "flush"
        /\ UNCHANGED fault
  /\ UNCHANGED <<call, hvars, wvars, buf, svars, clvars, replies, cut, late>>

-----------------------------------------------------------------------------
(* Writing, and the end of a request or of the connection.                 *)

(* Mutant: the connection is kept although the client asked to close it. *)
KeepAlways(o) == FALSE

(* http_send_done's need_close. *)
NeedClose(o) == obj[o].close

(* http_send_done: the request is freed, and the connection with it or     *)
(* given a new one.                                                        *)
SendDone ==
  LET f == RequestFree(hreq) IN
  /\ replies' = replies \o obj[hreq].out
  /\ \/ /\ NeedClose(hreq)
        /\ obj' = f
        /\ open' = FALSE /\ hreq' = 0 /\ wtimer' = FALSE
        /\ UNCHANGED <<status, buf>>
     \/ /\ ~NeedClose(hreq)
        /\ hreq' = hreq + 1
        /\ obj' = [f EXCEPT ![hreq + 1] = NewReq]
        /\ status' = "first" /\ buf' = <<>>
        /\ UNCHANGED <<open, wtimer>>
  /\ pc' = "return"
  /\ UNCHANGED <<ec, whandler, wactive, blocked>>

(* Mutant: no timer for a client that does not read. *)
BlockedUntimed == UNCHANGED wtimer

BlockedTimed == wtimer' = TRUE

(* EAGAIN: event_handle_write registers EPOLLOUT. *)
WriteBlocked ==
  /\ whandler' = TRUE /\ wactive' = TRUE
  /\ BlockedTimed
  /\ blocked' = TRUE
  /\ obj' = IF blocked THEN obj ELSE [obj EXCEPT ![hreq].blocks = @ + 1]
  /\ pc' = "return"
  /\ UNCHANGED <<ec, hvars, buf, replies>>

WriteFails ==
  /\ ec' = "WRITE_EOF" /\ pc' = "fail"
  /\ UNCHANGED <<hvars, obj, wvars, buf, blocked, replies>>

(* A reply from a module may be large; an error page does not fit only if  *)
(* an earlier reply is unread, and a client that waits has read it.        *)
MayBlock ==
  /\ obj[hreq].blocks < Blocks
  /\ (piped /\ replies # <<>>) \/ kind[obj[hreq].req] \in {"get", "post"}

(* http_write_buffer; conn_send returns 0 when there is nothing to send. *)
Flush ==
  /\ pc = "flush"
  /\ IF obj[hreq].out = <<>> \/ reset THEN WriteFails
     ELSE \/ ~blocked /\ SendDone
          \/ (blocked \/ MayBlock) /\ WriteBlocked
  /\ UNCHANGED <<clear, wnext, pending, sock, edge, wedge, eof, reset, clvars,
                 cut, late, fault>>

(* conn_write_handler, if hc->write_event_handler is set. *)
WriteHandler ==
  /\ pc = "write"
  /\ IF whandler THEN wtimer' = FALSE /\ pc' = "flush"
     ELSE pc' = "return" /\ UNCHANGED wtimer
  /\ UNCHANGED <<call, hvars, obj, pending, whandler, wactive, buf, svars,
                 clvars, hist>>

(* conn_write_handler when the timer has expired. *)
WriteTimer ==
  /\ Slow
  /\ pc = "loop" /\ wtimer
  /\ wtimer' = FALSE
  /\ ec' = "WRITE_TIMEOUT" /\ pc' = "fail"
  /\ UNCHANGED <<clear, wnext, hvars, obj, pending, whandler, wactive, buf,
                 svars, clvars, hist>>

(* http_incoming_fail leaves a request that is being served to its reply. *)
Detach(o) == ~obj[o].userdone

(* http_conn_fail, http_incoming_fail and http_conn_free. *)
ConnFail ==
  /\ pc = "fail"
  /\ \/ /\ ec = "INVALID"
        /\ obj' = [obj EXCEPT ![hreq].uri = FALSE]
        /\ pc' = "handle"
        /\ UNCHANGED <<open, hreq, wtimer>>
     \/ /\ ec # "INVALID"
        /\ obj' = IF Detach(hreq) THEN [obj EXCEPT ![hreq].attached = FALSE]
                  ELSE RequestFree(hreq)
        /\ open' = FALSE /\ hreq' = 0 /\ wtimer' = FALSE
        /\ pc' = "return"
  /\ UNCHANGED <<call, status, pending, whandler, wactive, buf, svars, clvars,
                 hist>>

-----------------------------------------------------------------------------
(* The client.                                                             *)

ClientUnchanged ==
  UNCHANGED <<pc, call, hvars, obj, pending, wvars, buf, hist>>

(* The client has read the replies to all it has sent. *)
Waited == Len(replies) >= creq /\ ~blocked

(* The client has sent request r entirely. *)
Sent(r) == r < creq \/ (r = creq /\ cpiece = Pieces(kind[r]))

(* An error page waits to be written.  What is sent now meets an object    *)
(* that is a response, which tells it apart by its first line only: bound  *)
(* on the requests that are sent.                                          *)
Behind == blocked /\ status \in {"first", "headers", "body"}

ClientSend ==
  /\ pc = "loop" /\ open /\ ~eof /\ ~reset
  /\ IF creq > 0 /\ cpiece < Pieces(kind[creq])
     THEN /\ creq' = creq /\ cpiece' = cpiece + 1
          /\ UNCHANGED <<kind, keep, piped>>
     ELSE /\ creq < MaxReq
          /\ creq < MaxPiped \/ Waited \/ Behind
          /\ piped' = (piped \/ ~Waited)
          /\ creq' = creq + 1 /\ cpiece' = 1
          /\ \E k \in Kinds, b \in BOOLEAN :
               /\ Behind => k \in {"get", "badline"} /\ b
               /\ kind' = [kind EXCEPT ![creq + 1] = k]
               /\ keep' = [keep EXCEPT ![creq + 1] = b]
  /\ sock' = Append(sock, <<creq', cpiece'>>)
  /\ edge' = TRUE
  /\ UNCHANGED <<wedge, blocked, eof, reset>>
  /\ ClientUnchanged

(* The client reads, and the reply has room again. *)
ClientReads ==
  /\ pc = "loop" /\ open /\ blocked /\ ~reset
  /\ blocked' = FALSE /\ wedge' = TRUE
  /\ UNCHANGED <<sock, edge, eof, reset, clvars>>
  /\ ClientUnchanged

ClientLeaves ==
  /\ ClientFaults
  /\ pc = "loop" /\ open /\ ~reset
  /\ \/ ~eof /\ eof' = TRUE /\ UNCHANGED reset
     \/ reset' = TRUE /\ UNCHANGED eof
  /\ edge' = TRUE
  /\ UNCHANGED <<sock, wedge, blocked, clvars>>
  /\ ClientUnchanged

-----------------------------------------------------------------------------
Running ==
  \/ Accept \/ Return \/ ReadHandler \/ HandleRequest \/ HandleNothing
  \/ Flush \/ WriteHandler \/ ConnFail

Next ==
  \/ Running
  \/ Event \/ WriteTimer
  \/ \E o \in Obj : Reply(o)
  \/ ClientSend \/ ClientReads \/ ClientLeaves

SafeSpec == Init /\ [][Next]_vars

(* The main thread goes on, serves events and timers, and the framework    *)
(* calls back once for every Invoke (InvokeService).                       *)
Spec ==
  /\ SafeSpec
  /\ WF_vars(Running) /\ WF_vars(Event) /\ WF_vars(WriteTimer)
  /\ \A o \in Obj : WF_vars(Reply(o))

-----------------------------------------------------------------------------
(* Properties. *)

(* Between two handlers every request object that is allocated either      *)
(* belongs to the connection or is owed a reply that will free it, and a   *)
(* connection that is open has exactly one: none is leaked, whether the    *)
(* reply, the client's leaving or a timeout comes first.  Nor does any of  *)
(* them make a callback find a request that has gone: a request is used    *)
(* after it was freed in two ways only.  Clearing the uri after the        *)
(* callback hits a request that was answered inside the callback; and a    *)
(* second status callback comes after the reply of the first.  Nothing     *)
(* that arrives behind an error page adds a third: it is parsed as a       *)
(* response on the object of the page, and no module is called.  (The      *)
(* types of the variables are part of it.)                                 *)
Owned ==
  /\ TypeOK
  /\ pc = "loop" =>
       /\ open = (hreq # 0)
       /\ open => obj[hreq].state = "live" /\ obj[hreq].attached
       /\ \A o \in Obj : obj[o].state = "live" /\ o # hreq
                           => ~obj[o].attached /\ pending[o] > 0
  /\ fault \subseteq {<<"clear", "sync">>, <<"reply", "status">>}

(* A client that waits for each reply gets one reply for each request, in  *)
(* order: never a second page, never one that belongs to another request.  *)
InOrder == ~piped => /\ \A i \in DOMAIN replies : replies[i] = i
                     /\ Len(replies) <= creq

(* A request is handed to a module or answered before it has arrived       *)
(* entirely only if the client has closed the connection.                  *)
WholeUnlessClosed == cut # {} => eof

(* Every request of a client that waits for replies is answered or its     *)
(* connection closed, however slow the client: nothing waits for ever.     *)
Settled == \A r \in Req : Sent(r) ~> (r \in Range(replies) \/ ~open \/ eof \/ piped)

(* The connection of a client that has left is closed, unless end of file  *)
(* was read together with data or in the middle of a request: then no      *)
(* event will tell the server again.                                       *)
LeaverClosed == (eof \/ reset) ~> (~open \/ late)
=============================================================================
