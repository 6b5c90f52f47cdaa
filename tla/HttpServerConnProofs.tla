------------------------ MODULE HttpServerConnProofs ------------------------
(***************************************************************************)
(* Proofs about HttpServerConn, for every number and every kind of         *)
(* requests, however the client pipelines them, cuts them into pieces,     *)
(* leaves or is slow, and however often the socket is full.                *)
(***************************************************************************)
EXTENDS HttpServerConn, SequenceTheorems, WellFoundedInduction, TLAPS

USE HttpServerAssumption

(* What has arrived and has not been consumed, in the buffer of the        *)
(* request or still in the socket.                                         *)
Unread == buf \o sock

-----------------------------------------------------------------------------
(* The inductive invariants.                                               *)

(* Who owns a request object, at every point of the running call.  A       *)
(* request that the modules have in hand is owed a callback, which is what *)
(* lets http_incoming_fail leave the object to it.                         *)
OwnInv ==
  /\ (open <=> hreq # 0) /\ (wtimer => open)
  /\ pc = "accept" => ~open /\ \A o \in Obj : pending[o] = 0
  /\ pc \in {"read", "write", "handle", "flush", "fail"} => open
  /\ \A o \in Obj :
       /\ o = hreq => obj[o].state = "live" /\ obj[o].attached
       /\ obj[o].state = "live" /\ o # hreq
            => ~obj[o].attached /\ pending[o] > 0
       /\ obj[o].state = "live" /\ ~obj[o].userdone => pending[o] > 0
       /\ hreq # 0 /\ o > hreq => pending[o] = 0

(* A piece belongs to the request that is being sent or to an earlier one. *)
(* In a sequence of pieces the requests are in order, and piece 1 begins a *)
(* new one; every request object has a request before those pieces.        *)
Sorted(b) ==
  \A i, j \in DOMAIN b :
    i < j => b[i][1] <= b[j][1] /\ (b[j][2] = 1 => b[i][1] < b[j][1])

(* The pieces b come after the request r. *)
After(b, r) ==
  \A i \in DOMAIN b : b[i][1] >= r /\ (b[i][2] = 1 => b[i][1] > r)

OrderInv ==
  /\ creq > 0 => cpiece >= 1
  /\ Sorted(Unread)
  /\ \A i \in DOMAIN Unread : Unread[i][1] <= creq
  /\ \A o \in Obj : obj[o].req <= creq /\ After(Unread, obj[o].req)

(* The first lines that are still to come are of requests that no object   *)
(* has had: the n-th object cannot get a request before the n-th.          *)
HasRequest ==
  \/ obj[hreq].uri \/ pending[hreq] > 0
  \/ status \in {"headers", "body"} /\ ~obj[hreq].resp
  \/ (obj[hreq].out # <<>> /\ ~obj[hreq].close)

RankInv ==
  hreq # 0 =>
    /\ hreq <= creq + 1
    /\ \A i \in DOMAIN Unread : Unread[i][2] = 1 => Unread[i][1] >= hreq
    /\ HasRequest => obj[hreq].req >= hreq

(* An object is a response from its first page or reply on. *)
RespInv == \A o \in Obj : obj[o].resp <=> obj[o].out # <<>>

(* hc->status and the request object: only in the first line, the headers  *)
(* or the body is something read, and then no module has the request.      *)
(* What is read while a page waits is never dispatched: the object has no  *)
(* uri, and closes the connection.                                         *)
StatusInv ==
  /\ pc = "accept" => status = "first"
  /\ hreq # 0 =>
      /\ status \in {"first", "headers", "body"} => pending[hreq] = 0
      /\ status = "first" => ~obj[hreq].uri
      /\ status \in {"first", "headers", "body"} /\ obj[hreq].resp
           => ~obj[hreq].uri /\ obj[hreq].close
      /\ status \in {"headers", "body"} /\ ~obj[hreq].uri /\ ~obj[hreq].resp
           => pc \in {"handle", "fail"} /\ kind[obj[hreq].req] = "badhead"
      /\ pc = "handle" /\ status = "writing"
           => /\ obj[hreq].uri \/ (obj[hreq].resp /\ obj[hreq].close)
              /\ pending[hreq] = 0
      /\ pc = "handle" /\ status \in {"first", "headers", "body"} => ~obj[hreq].uri
      /\ pc = "fail" /\ ec = "INVALID" =>
           \/ status = "first"
           \/ /\ status \in {"headers", "body"}
              /\ kind[obj[hreq].req] = "badhead" \/ obj[hreq].resp

(* A request in the hands of a module has nothing to send yet; only a      *)
(* status request may be handed over twice.                                *)
HandsInv ==
  /\ \A o \in Obj :
       pending[o] > 0 =>
         /\ obj[o].req # 0
         /\ \/ kind[obj[o].req] = "status"
            \/ /\ obj[o].state = "live" /\ ~obj[o].userdone
               /\ obj[o].out = <<>> /\ pending[o] = 1
  /\ hreq # 0 =>
       /\ pending[hreq] > 0 /\ obj[hreq].uri
            => kind[obj[hreq].req] = "status"
       /\ obj[hreq].uri /\ kind[obj[hreq].req] \notin {"status", "sync"}
            => obj[hreq].out = <<>>

(* The uri that is cleared last is that of a request that was answered     *)
(* inside the callback.                                                    *)
ClearInv ==
  clear # 0 =>
    /\ kind[obj[clear].req] = "sync" /\ obj[clear].req # 0
    /\ pc \in {"flush", "fail", "return"}
    /\ pc \in {"flush", "fail"} => clear = hreq
    /\ pc = "fail" => ec # "INVALID"
    /\ clear = hreq => status \in {"writing", "disconnected"}

(* The faults that are known: see Owned. *)
FaultInv == fault \subseteq {<<"clear", "sync">>, <<"reply", "status">>}

(* http_handle_request is called for a whole request or at end of file. *)
WholeInv ==
  /\ cut # {} => eof
  /\ pc = "handle" /\ obj[hreq].uri
       => eof \/ obj[hreq].last >= Pieces(kind[obj[hreq].req])

(* Nothing is sent before the connection is accepted. *)
StartInv == pc = "accept" => creq = 0 /\ buf = <<>> /\ sock = <<>>

(* A client that waits: the replies it has read are those of the requests  *)
(* it has sent, but for the last.                                          *)
ReplyInv ==
  ~piped => /\ \A i \in DOMAIN replies : replies[i] = i
            /\ Len(replies) <= creq /\ creq <= Len(replies) + 1

(* The client waits for its replies, and the connection is not about to be *)
(* closed.                                                                 *)
Patient == ~piped /\ hreq # 0 /\ ~(pc = "fail" /\ ec # "INVALID")

(* Nothing of an answered request is left over: the next one finds an      *)
(* empty buffer and a new object.                                          *)
Fresh ==
  /\ Unread = <<>>
  /\ obj[hreq].out = <<>> /\ ~obj[hreq].uri /\ pending[hreq] = 0
  /\ status \in {"first", "disconnected"}
  /\ status = "first" => obj[hreq].last = 0
  /\ status = "disconnected" => eof
  /\ pc = "handle" => status = "disconnected"
  /\ pc # "fail"
  /\ creq > 0 => eof \/ cpiece = Pieces(kind[creq])

QuietInv == Patient /\ creq = Len(replies) => Fresh

(* The one request that is not answered yet: its pieces that have not been *)
(* consumed are the last ones sent.                                        *)
Rest(b, n) == Len(b) <= n /\ \A i \in DOMAIN b : b[i] = <<creq, (n - Len(b)) + i>>

Arrived == Unread = <<>> /\ (eof \/ cpiece = Pieces(kind[creq]))

Bytes ==
  /\ cpiece <= Pieces(kind[creq]) /\ Rest(Unread, cpiece)
  /\ status \in {"writing", "disconnected"} => Arrived

(* Its object has no page of another request to send.                      *)
Page ==
  /\ obj[hreq].out \in {<<>>, <<creq>>}
  /\ status # "first" => obj[hreq].req = creq
  /\ blocked => obj[hreq].out # <<>> /\ kind[creq] \in {"get", "post"}

(* Where no request is being handled: how much of it has been consumed.    *)
Between ==
  pc \in {"loop", "read", "write", "return"} =>
    /\ status \in {"first", "headers", "body"}
         => obj[hreq].last + Len(Unread) = cpiece /\ obj[hreq].out = <<>>
    /\ status = "first" => obj[hreq].last = 0
    /\ status = "headers" => obj[hreq].last = 2 /\ obj[hreq].uri
    /\ status = "body" => obj[hreq].last >= 3 /\ kind[creq] = "post"
    /\ obj[hreq].out # <<>> => /\ ~obj[hreq].uri /\ pending[hreq] = 0
                               /\ kind[creq] \in {"get", "post"}

(* It has arrived entirely, or is malformed, when it is answered.          *)
Handled ==
  /\ pc = "fail" => /\ obj[hreq].req = creq /\ obj[hreq].out = <<>>
                    /\ kind[creq] \in {"badline", "badhead"}
  /\ pc = "handle" =>
       \/ /\ obj[hreq].req = creq /\ obj[hreq].out = <<>>
          /\ status \in {"first", "headers", "body"} => kind[creq] \in {"badline", "badhead"}
       \/ status = "disconnected" /\ ~obj[hreq].uri
  /\ pc = "flush" /\ obj[hreq].out # <<>> =>
       /\ obj[hreq].req = creq
       /\ \/ status \in {"writing", "disconnected"}
          \/ obj[hreq].close /\ kind[creq] \in {"badline", "badhead"}
       /\ kind[creq] \in {"get", "post"} => ~obj[hreq].uri /\ pending[hreq] = 0

Served == Bytes /\ Page /\ Between /\ Handled

BusyInv == Patient /\ creq > Len(replies) => Served

Inv ==
  /\ TypeOK /\ OwnInv /\ OrderInv /\ RankInv /\ RespInv /\ StatusInv
  /\ HandsInv
  /\ ClearInv /\ FaultInv /\ WholeInv /\ StartInv /\ ReplyInv /\ QuietInv
  /\ BusyInv

-----------------------------------------------------------------------------
(* The operators of the model.                                             *)

(* Max of some piece numbers is the greatest of them. *)
LEMMA GreatestOf ==
  ASSUME NEW S, S \subseteq 0..5, S # {}
  PROVE  Max(S) \in S /\ \A y \in S : Max(S) >= y
<1>1. \E x \in S : \A y \in S : x >= y
  <2>1. CASE 5 \in S
    BY <2>1
  <2>2. CASE 5 \notin S /\ 4 \in S
    BY <2>2
  <2>3. CASE 5 \notin S /\ 4 \notin S /\ 3 \in S
    BY <2>3
  <2>4. CASE 5 \notin S /\ 4 \notin S /\ 3 \notin S /\ 2 \in S
    BY <2>4
  <2>5. CASE S \subseteq {0, 1}
    <3>1. CASE 1 \in S
      BY <2>5, <3>1
    <3>2. CASE S = {0}
      BY <3>2
    <3> QED BY <2>5, <3>1, <3>2
  <2> QED BY <2>1, <2>2, <2>3, <2>4, <2>5
<1> QED BY <1>1 DEF Max

(* Min of some positions of a sequence is the first of them. *)
LEMMA FirstOf ==
  ASSUME NEW S, S \subseteq Nat, S # {}
  PROVE  Min(S) \in S /\ \A y \in S : Min(S) <= y
<1>1. PICK x \in S : \A y \in S : ~(<<y, x>> \in OpToRel(<, Nat))
  BY NatLessThanWellFounded, WFMin
<1>2. \A y \in S : ~(y < x)
  BY <1>1 DEF OpToRel
<1>3. \A y \in S : x =< y
  BY <1>2
<1> QED BY <1>3 DEF Min

(* rest is what is left of b after some of its pieces. *)
Suffix(rest, b) ==
  /\ rest \in Seq(Piece)
  /\ \E k \in 0..Len(b) : /\ Len(rest) = Len(b) - k
                         /\ \A i \in 1..Len(rest) : rest[i] = b[i + k]

LEMMA PieceParts ==
  ASSUME NEW b \in Seq(Piece), NEW i \in DOMAIN b
  PROVE  b[i] = <<b[i][1], b[i][2]>> /\ b[i][1] \in Req /\ b[i][2] \in 1..5
<1>1. b[i] \in Req \X (1..5)
  BY DEF Piece
<1> QED BY <1>1

LEMMA SuffixSelf ==
  ASSUME NEW b \in Seq(Piece)
  PROVE  Suffix(b, b) /\ Suffix(<<>>, b)
<1>1. Len(b) \in Nat /\ 0 \in 0..Len(b) /\ Len(b) \in 0..Len(b)
  OBVIOUS
<1>2. Suffix(b, b)
  BY <1>1 DEF Suffix
<1>3. Suffix(<<>>, b)
  BY <1>1 DEF Suffix
<1> QED BY <1>2, <1>3

LEMMA SuffixTail ==
  ASSUME NEW b \in Seq(Piece), b # <<>>
  PROVE  Suffix(Tail(b), b)
<1>1. Len(b) \in Nat /\ 1 \in 0..Len(b)
  OBVIOUS
<1>2. Tail(b) \in Seq(Piece) /\ Len(Tail(b)) = Len(b) - 1
      /\ \A i \in 1..Len(Tail(b)) : Tail(b)[i] = b[i + 1]
  BY HeadTailProperties
<1> QED BY <1>1, <1>2 DEF Suffix

LEMMA SuffixSub ==
  ASSUME NEW b \in Seq(Piece), NEW k \in 0..Len(b)
  PROVE  /\ Suffix(SubSeq(b, k + 1, Len(b)), b)
         /\ Len(SubSeq(b, k + 1, Len(b))) = Len(b) - k
         /\ \A i \in 1..(Len(b) - k) : SubSeq(b, k + 1, Len(b))[i] = b[i + k]
<1>1. /\ SubSeq(b, k + 1, Len(b)) \in Seq(Piece)
      /\ Len(SubSeq(b, k + 1, Len(b))) = Len(b) - k
      /\ \A i \in 1..(Len(b) - k) : SubSeq(b, k + 1, Len(b))[i] = b[i + k]
  <2>1. k + 1 \in Int /\ Len(b) \in Int /\ \A i \in (k + 1)..Len(b) : b[i] \in Piece
    OBVIOUS
  <2>2. /\ SubSeq(b, k + 1, Len(b)) \in Seq(Piece)
        /\ Len(SubSeq(b, k + 1, Len(b)))
             = IF k + 1 <= Len(b) THEN Len(b) - (k + 1) + 1 ELSE 0
        /\ \A i \in 1..(Len(b) - (k + 1) + 1) :
             SubSeq(b, k + 1, Len(b))[i] = b[k + 1 + i - 1]
    BY <2>1, SubSeqProperties
  <2>3. Len(b) - (k + 1) + 1 = Len(b) - k /\ (~(k + 1 <= Len(b)) => Len(b) - k = 0)
        /\ \A i \in 1..(Len(b) - k) : k + 1 + i - 1 = i + k
    OBVIOUS
  <2>4. Len(SubSeq(b, k + 1, Len(b))) = Len(b) - k
    BY <2>2, <2>3
  <2>5. ASSUME NEW i \in 1..(Len(b) - k) PROVE SubSeq(b, k + 1, Len(b))[i] = b[i + k]
    BY <2>2, <2>3
  <2> QED BY <2>2, <2>4, <2>5
<1> QED BY <1>1 DEF Suffix

LEMMA SuffixTwice ==
  ASSUME NEW b \in Seq(Piece), NEW c, NEW d, Suffix(c, b), Suffix(d, c)
  PROVE  Suffix(d, b)
<1>1. PICK k \in 0..Len(b) : /\ Len(c) = Len(b) - k
                            /\ \A i \in 1..Len(c) : c[i] = b[i + k]
  BY DEF Suffix
<1>2. PICK m \in 0..Len(c) : /\ Len(d) = Len(c) - m
                            /\ \A i \in 1..Len(d) : d[i] = c[i + m]
  BY DEF Suffix
<1>3. Len(b) \in Nat /\ Len(c) \in Nat /\ Len(d) \in Nat /\ d \in Seq(Piece)
  BY DEF Suffix
<1>4. k + m \in 0..Len(b) /\ Len(d) = Len(b) - (k + m)
  BY <1>1, <1>2, <1>3
<1>5. \A i \in 1..Len(d) : i + m \in 1..Len(c) /\ d[i] = b[i + (k + m)]
  BY <1>1, <1>2, <1>3
<1> QED BY <1>3, <1>4, <1>5 DEF Suffix

(* What holds of all pieces, or of their order, holds of those left. *)
LEMMA SuffixKeeps ==
  ASSUME NEW b \in Seq(Piece), NEW c, Suffix(c, b)
  PROVE  /\ c \in Seq(Piece)
         /\ Sorted(b) => Sorted(c)
         /\ \A r \in Nat : After(b, r) => After(c, r)
         /\ \A i \in DOMAIN c : \E j \in DOMAIN b : c[i] = b[j]
<1>1. PICK k \in 0..Len(b) : /\ Len(c) = Len(b) - k
                            /\ \A i \in 1..Len(c) : c[i] = b[i + k]
  BY DEF Suffix
<1>2. Len(b) \in Nat /\ Len(c) \in Nat /\ c \in Seq(Piece)
      /\ DOMAIN b = 1..Len(b) /\ DOMAIN c = 1..Len(c)
  BY DEF Suffix
<1>3. \A i \in 1..Len(c) : i + k \in 1..Len(b) /\ c[i] = b[i + k]
  BY <1>1, <1>2
<1>4. \A i, j \in 1..Len(c) : i < j => i + k < j + k
  BY <1>1, <1>2
<1>5. Sorted(b) => Sorted(c)
  <2> SUFFICES ASSUME Sorted(b), NEW i \in 1..Len(c), NEW j \in 1..Len(c), i < j
               PROVE  c[i][1] <= c[j][1] /\ (c[j][2] = 1 => c[i][1] < c[j][1])
    BY <1>2 DEF Sorted
  <2>1. /\ i + k \in DOMAIN b /\ j + k \in DOMAIN b /\ i + k < j + k
        /\ c[i] = b[i + k] /\ c[j] = b[j + k]
    BY <1>2, <1>3, <1>4
  <2>2. PICK x \in DOMAIN b, y \in DOMAIN b : x = i + k /\ y = j + k /\ x < y
    BY <2>1
  <2>3. b[x][1] <= b[y][1] /\ (b[y][2] = 1 => b[x][1] < b[y][1])
    BY <2>2 DEF Sorted
  <2> QED BY <2>1, <2>2, <2>3
<1>6. \A r \in Nat : After(b, r) => After(c, r)
  BY <1>2, <1>3 DEF After
<1>7. \A i \in DOMAIN c : \E j \in DOMAIN b : c[i] = b[j]
  BY <1>2, <1>3
<1> QED BY <1>2, <1>5, <1>6, <1>7

(* A field of a request object takes another value of its type. *)
LEMMA SetField ==
  ASSUME NEW o \in Request
  PROVE  /\ \A v \in BOOLEAN : [o EXCEPT !.uri = v] \in Request
         /\ \A v \in BOOLEAN : [o EXCEPT !.resp = v] \in Request
         /\ \A v \in BOOLEAN : [o EXCEPT !.close = v] \in Request
         /\ \A v \in BOOLEAN : [o EXCEPT !.userdone = v] \in Request
         /\ \A v \in BOOLEAN : [o EXCEPT !.attached = v] \in Request
         /\ \A n \in 0..5 : [o EXCEPT !.last = n] \in Request
         /\ \A r \in Req \cup {0} : [o EXCEPT !.req = r] \in Request
         /\ \A n \in 0..Blocks : [o EXCEPT !.blocks = n] \in Request
         /\ \A s \in Seq(Req \cup {0}) : [o EXCEPT !.out = s] \in Request
         /\ [o EXCEPT !.state = "freed"] \in Request
  BY DEF Request

-----------------------------------------------------------------------------
(* What conn_read_handler does.                                            *)

(* The fields of a request object that reading leaves alone. *)
Kept(p, o) ==
  /\ p \in Request
  /\ p.state = o.state /\ p.attached = o.attached /\ p.resp = o.resp
  /\ p.userdone = o.userdone /\ p.out = o.out /\ p.blocks = o.blocks

(* The first line of the request has been read, now or before: o is its    *)
(* object, rest what follows.                                              *)
Started(o, rest) ==
  \/ status \in {"headers", "body"} /\ o = obj[hreq] /\ rest = Unread
  \/ /\ status = "first" /\ Len(Unread) >= 2
     /\ Unread[1] = <<o.req, 1>> /\ Unread[2] = <<o.req, 2>>
     /\ o.req \in Req /\ kind[o.req] # "badline"
     /\ Suffix(rest, Unread) /\ Len(rest) = Len(Unread) - 2
     /\ Kept(o, obj[hreq]) /\ o.uri /\ o.last = 2

(* The last piece of the request in sight, h pieces of rest being its      *)
(* headers.                                                                *)
LastSeen(p, o, rest, h) ==
  /\ p.last >= (IF h = 1 THEN 3 ELSE o.last)
  /\ \/ p.last = (IF h = 1 THEN 3 ELSE o.last)
     \/ \E i \in DOMAIN rest : rest[i] = <<o.req, p.last>>
  /\ \A i \in DOMAIN rest : i > h /\ rest[i][1] = o.req => p.last >= rest[i][2]

HeaderWait(p, o, rest) ==
  /\ status # "body" /\ rest = <<>> /\ p = o
  /\ status' = "headers" /\ pc' = "return"

HeaderBad(p, o, rest) ==
  /\ status # "body" /\ kind[o.req] = "badhead"
  /\ status' \in {"headers", "body"} /\ pc' = "fail" /\ ec' = "INVALID"

HeaderDone(p, o, rest) ==
  /\ status # "body" /\ rest # <<>> /\ kind[o.req] \notin {"post", "badhead"}
  /\ p.last = 3 /\ Unread' = Tail(rest)
  /\ status' = "writing" /\ pc' = "handle"

BodyRead(p, o, rest) ==
  /\ Unread' = <<>>
  /\ \/ status = "body" /\ LastSeen(p, o, rest, 0)
     \/ /\ status # "body" /\ rest # <<>> /\ kind[o.req] = "post"
        /\ LastSeen(p, o, rest, 1)
  /\ \/ p.last = 5 /\ status' = "writing" /\ pc' = "handle"
     \/ p.last < 5 /\ ~eof /\ status' = "body" /\ pc' = "return"
     \/ p.last < 5 /\ eof /\ status' = "disconnected" /\ pc' = "handle"

ReadOn ==
  \E o, rest, p :
    /\ ~obj[hreq].resp
    /\ Started(o, rest)
    /\ Kept(p, o) /\ p.req = o.req /\ p.uri = o.uri
    /\ obj' = [obj EXCEPT ![hreq] = p]
    /\ Suffix(Unread', rest) /\ buf' = Unread'
    /\ \/ HeaderWait(p, o, rest) \/ HeaderBad(p, o, rest)
       \/ HeaderDone(p, o, rest) \/ BodyRead(p, o, rest)

ReadReset ==
  /\ reset /\ pc' = "fail" /\ ec' = "READ_EOF"
  /\ UNCHANGED <<status, buf, obj>>

ReadQuiet ==
  /\ UNCHANGED <<status, obj>> /\ Unread' = Unread /\ buf' = Unread'
  /\ pc' = "return"
  /\ status \in {"headers", "body"} => Unread = <<>>
  /\ status = "first" => LineEnds(Unread) = {}

ReadEnd ==
  /\ eof /\ Unread = <<>> /\ Unread' = <<>> /\ buf' = Unread'
  /\ status' = "disconnected" /\ UNCHANGED obj /\ pc' = "handle"

ReadBadLine ==
  \E i \in LineEnds(Unread) :
    /\ status = "first" /\ status' = "first" /\ pc' = "fail" /\ ec' = "INVALID"
    /\ obj' = [obj EXCEPT ![hreq].req = Unread[i][1]]
    /\ Unread' = SubSeq(Unread, i + 1, Len(Unread)) /\ buf' = Unread'
    /\ \A j \in LineEnds(Unread) : i <= j
    /\ \/ kind[Unread[i][1]] = "badline" \/ obj[hreq].resp
       \/ SubSeq(Unread, 1, i) # <<<<Unread[i][1], 1>>, <<Unread[i][1], 2>>>>

(* What arrives behind the reply of an object is read as a response, whose *)
(* first line may be one that has just been read.                          *)
RespLine(p, rest) ==
  \/ p = obj[hreq] /\ rest = Unread
  \/ \E i \in LineEnds(Unread) : /\ p = [obj[hreq] EXCEPT !.req = Unread[i][1]]
                                 /\ rest = SubSeq(Unread, i + 1, Len(Unread))

RespEnds ==
  \/ status' \in {"headers", "body"} /\ pc' = "return"
  \/ status' \in {"headers", "body"} /\ pc' = "fail" /\ ec' = "INVALID"
  \/ status' = "writing" /\ pc' = "handle"
  \/ eof /\ status' = "disconnected" /\ pc' = "handle"

ReadResp ==
  \E p, rest :
    /\ obj[hreq].resp /\ status \in {"first", "headers", "body"}
    /\ RespLine(p, rest)
    /\ p \in Request /\ obj' = [obj EXCEPT ![hreq] = p]
    /\ Suffix(Unread', rest) /\ buf' = Unread'
    /\ RespEnds

LEMMA UnreadType == TypeOK => Unread \in Seq(Piece)
  BY ConcatProperties DEF TypeOK, DataType, Unread

LEMMA BodyFacts ==
  ASSUME NEW o \in Request, NEW rest \in Seq(Piece), TypeOK, ~o.resp,
         sock' = <<>>, ReadBody(rest, o)
  PROVE  \E p :
    /\ Kept(p, o) /\ p.req = o.req /\ p.uri = o.uri /\ p.close = o.close
    /\ obj' = [obj EXCEPT ![hreq] = p]
    /\ buf' = <<>> /\ ec' = ec
    /\ LastSeen(p, o, rest, 0)
    /\ \/ p.last = 5 /\ status' = "writing" /\ pc' = "handle"
       \/ p.last < 5 /\ ~eof /\ status' = "body" /\ pc' = "return"
       \/ p.last < 5 /\ eof /\ status' = "disconnected" /\ pc' = "handle"
<1> DEFINE mine == {i \in DOMAIN rest : rest[i][1] = o.req}
           S == {o.last} \cup {rest[i][2] : i \in mine}
<1>1. S \subseteq 0..5 /\ S # {}
  <2>1. o.last \in 0..5
    BY DEF Request
  <2>2. \A i \in DOMAIN rest : rest[i][2] \in 1..5
    BY PieceParts
  <2> QED BY <2>1, <2>2
<1>2. Max(S) \in S /\ \A y \in S : Max(S) >= y
  BY <1>1, GreatestOf
<1> DEFINE m == Max(S)
           p == [o EXCEPT !.last = m]
<1>3. m \in 0..5
  BY <1>1, <1>2
<1>4. Kept(p, o) /\ p.req = o.req /\ p.uri = o.uri /\ p.close = o.close /\ p.last = m
  <2> HIDE DEF m
  <2> QED BY <1>3 DEF Kept, Request
<1>5. LastSeen(p, o, rest, 0)
  <2>1. o.last \in S /\ \A i \in mine : rest[i][2] \in S
    OBVIOUS
  <2>2. p.last >= o.last
    BY <1>2, <1>4, <2>1
  <2>3. \A i \in DOMAIN rest : rest[i][1] = o.req => p.last >= rest[i][2]
    BY <1>2, <1>4, <2>1
  <2>4. p.last = o.last \/ \E i \in DOMAIN rest : rest[i] = <<o.req, p.last>>
    <3>1. p.last \in S
      BY <1>2, <1>4
    <3>2. CASE p.last = o.last
      BY <3>2
    <3>3. CASE \E i \in mine : p.last = rest[i][2]
      <4>1. PICK i \in DOMAIN rest : rest[i][1] = o.req /\ p.last = rest[i][2]
        BY <3>3
      <4>2. rest[i] = <<o.req, p.last>>
        BY <4>1, PieceParts
      <4> QED BY <4>2
    <3> QED BY <3>1, <3>2, <3>3
  <2> HIDE DEF p
  <2> QED BY <2>2, <2>3, <2>4 DEF LastSeen
<1>6. \/ p.last = 5 /\ Done("body", <<>>, p)
      \/ p.last < 5 /\ ~eof /\ Wait("body", <<>>, p)
      \/ p.last < 5 /\ eof /\ Done("disconnected", <<>>, p)
  BY DEF ReadBody
<1>7. /\ obj' = [obj EXCEPT ![hreq] = p] /\ buf' = <<>> /\ ec' = ec
      /\ \/ p.last = 5 /\ status' = "writing" /\ pc' = "handle"
         \/ p.last < 5 /\ ~eof /\ status' = "body" /\ pc' = "return"
         \/ p.last < 5 /\ eof /\ status' = "disconnected" /\ pc' = "handle"
  <2> HIDE DEF p
  <2> QED BY <1>6 DEF Done, Wait
<1> HIDE DEF p
<1> QED BY <1>4, <1>5, <1>7

LEMMA HeaderFacts ==
  ASSUME NEW o, NEW rest, TypeOK, hreq # 0, status # "body",
         ~o.resp, ~obj[hreq].resp,
         o \in Request, rest \in Seq(Piece), o.req \in Req,
         Started(o, rest), sock' = <<>>, ReadHeader(rest, o)
  PROVE  ReadOn
<1>0. Unread' = buf'
  <2> SUFFICES ASSUME buf' \in Seq(Piece) PROVE Unread' = buf'
    <3>1. buf' \in Seq(Piece)
      <4>1. CASE rest = <<>>
        BY <4>1 DEF ReadHeader, Wait
      <4>2. CASE rest # <<>>
        <5>1. Tail(rest) \in Seq(Piece) /\ <<>> \in Seq(Piece)
          BY <4>2, HeadTailProperties
        <5>2. CASE kind[o.req] = "badhead"
          BY <4>2, <5>1, <5>2 DEF ReadHeader, Invalid
        <5>3. CASE kind[o.req] = "post"
          BY <4>2, <5>1, <5>3 DEF ReadHeader, ReadBody, Done, Wait
        <5>4. CASE kind[o.req] \notin {"badhead", "post"}
          BY <4>2, <5>1, <5>4 DEF ReadHeader, Done
        <5> QED BY <5>2, <5>3, <5>4
      <4> QED BY <4>1, <4>2
    <3> QED BY <3>1
  <2> QED BY ConcatEmptySeq DEF Unread
<1>1. Kept(o, o)
  BY DEF Kept
<1>2. CASE rest = <<>>
  <2>1. Wait("headers", rest, o)
    BY <1>2 DEF ReadHeader
  <2>2. HeaderWait(o, o, rest) /\ obj' = [obj EXCEPT ![hreq] = o] /\ buf' = rest
    BY <1>2, <2>1 DEF HeaderWait, Wait
  <2>3. Suffix(Unread', rest)
    BY <1>0, <2>2, SuffixSelf
  <2> QED BY <1>0, <1>1, <2>2, <2>3 DEF ReadOn
<1>3. CASE rest # <<>>
  <2> DEFINE h == [o EXCEPT !.close = ~keep[o.req], !.last = 3]
  <2>1. Suffix(Tail(rest), rest) /\ Tail(rest) \in Seq(Piece) /\ Suffix(<<>>, rest)
    BY <1>3, SuffixTail, SuffixSelf DEF Suffix
  <2>2. h \in Request /\ Kept(h, o) /\ h.req = o.req /\ h.uri = o.uri /\ h.last = 3
    <3>1. PICK v : v = ~keep[o.req]
      OBVIOUS
    <3>2. v \in BOOLEAN
      BY <3>1
    <3>3. h = [o EXCEPT !.close = v, !.last = 3]
      BY <3>1
    <3> HIDE DEF h
    <3>4. h \in Request
      <4>1. [o EXCEPT !.close = v] \in Request
        BY <3>2, SetField
      <4>2. [[o EXCEPT !.close = v] EXCEPT !.last = 3] \in Request
        <5>1. 3 \in 0..5
          OBVIOUS
        <5> QED BY <4>1, <5>1, SetField
      <4> QED BY <3>3, <4>2
    <3>5. h.req = o.req /\ h.uri = o.uri /\ h.last = 3
      BY <3>3 DEF Request
    <3>6. h.state = o.state /\ h.attached = o.attached /\ h.userdone = o.userdone
          /\ h.out = o.out /\ h.blocks = o.blocks /\ h.resp = o.resp
      BY <3>3 DEF Request
    <3> QED BY <3>4, <3>5, <3>6 DEF Kept
  <2> HIDE DEF h
  <2>3. CASE kind[o.req] = "badhead"
    <3>1. \E st \in {"headers", "body"} : Invalid(st, Tail(rest), h)
      BY <1>3, <2>3 DEF ReadHeader, h
    <3>2. HeaderBad(h, o, rest) /\ obj' = [obj EXCEPT ![hreq] = h] /\ buf' = Tail(rest)
      BY <2>3, <3>1 DEF HeaderBad, Invalid
    <3>3. Suffix(Unread', rest)
      BY <1>0, <2>1, <3>2
    <3> QED BY <1>0, <2>2, <3>2, <3>3 DEF ReadOn
  <2>4. CASE kind[o.req] = "post"
    <3>1. ReadBody(Tail(rest), h)
      BY <1>3, <2>4 DEF ReadHeader, h
    <3>2. PICK p :
            /\ Kept(p, h) /\ p.req = h.req /\ p.uri = h.uri
            /\ obj' = [obj EXCEPT ![hreq] = p]
            /\ buf' = <<>> /\ ec' = ec
            /\ LastSeen(p, h, Tail(rest), 0)
            /\ \/ p.last = 5 /\ status' = "writing" /\ pc' = "handle"
               \/ p.last < 5 /\ ~eof /\ status' = "body" /\ pc' = "return"
               \/ p.last < 5 /\ eof /\ status' = "disconnected" /\ pc' = "handle"
      <4>1. ~h.resp
        BY <2>2 DEF Kept
      <4> QED BY <2>1, <2>2, <3>1, <4>1, BodyFacts
    <3>3. Kept(p, o) /\ p.req = o.req /\ p.uri = o.uri
      BY <2>2, <3>2 DEF Kept
    <3>4. LastSeen(p, o, rest, 1)
      <4>1. /\ p.last >= 3
            /\ p.last = 3 \/ \E i \in DOMAIN Tail(rest) : Tail(rest)[i] = <<o.req, p.last>>
            /\ \A i \in DOMAIN Tail(rest) :
                 i > 0 /\ Tail(rest)[i][1] = o.req => p.last >= Tail(rest)[i][2]
        BY <2>2, <3>2 DEF LastSeen
      <4>2. /\ Len(Tail(rest)) = Len(rest) - 1 /\ DOMAIN rest = 1..Len(rest)
            /\ DOMAIN Tail(rest) = 1..(Len(rest) - 1) /\ Len(rest) \in Nat
            /\ \A i \in 1..(Len(rest) - 1) : Tail(rest)[i] = rest[i + 1]
        BY <1>3, <2>1, HeadTailProperties
      <4>3. p.last = 3 \/ \E i \in DOMAIN rest : rest[i] = <<o.req, p.last>>
        <5>1. ASSUME NEW i \in DOMAIN Tail(rest), Tail(rest)[i] = <<o.req, p.last>>
              PROVE  \E j \in DOMAIN rest : rest[j] = <<o.req, p.last>>
          <6>1. i + 1 \in DOMAIN rest /\ rest[i + 1] = <<o.req, p.last>>
            BY <4>2, <5>1
          <6> QED BY <6>1
        <5> QED BY <4>1, <5>1
      <4>4. ASSUME NEW i \in DOMAIN rest, i > 1, rest[i][1] = o.req
            PROVE  p.last >= rest[i][2]
        <5>1. i - 1 \in DOMAIN Tail(rest) /\ i - 1 > 0 /\ Tail(rest)[i - 1] = rest[(i - 1) + 1]
              /\ (i - 1) + 1 = i
          BY <4>2, <4>4
        <5>2. Tail(rest)[i - 1] = rest[i]
          BY <5>1
        <5>3. Tail(rest)[i - 1][1] = o.req
          BY <4>4, <5>2
        <5>4. p.last >= Tail(rest)[i - 1][2]
          BY <4>1, <5>1, <5>3
        <5> QED BY <5>2, <5>4
      <4> QED BY <4>1, <4>3, <4>4 DEF LastSeen
    <3>5. BodyRead(p, o, rest)
      BY <1>0, <1>3, <2>4, <3>2, <3>4 DEF BodyRead
    <3>6. Suffix(Unread', rest)
      BY <1>0, <2>1, <3>2
    <3> QED BY <1>0, <3>2, <3>3, <3>5, <3>6 DEF ReadOn
  <2>5. CASE kind[o.req] \notin {"badhead", "post"}
    <3>1. Done("headers", Tail(rest), h)
      BY <1>3, <2>5 DEF ReadHeader, h
    <3>2. HeaderDone(h, o, rest) /\ obj' = [obj EXCEPT ![hreq] = h] /\ buf' = Tail(rest)
      BY <1>0, <1>3, <2>2, <2>5, <3>1 DEF HeaderDone, Done
    <3>3. Suffix(Unread', rest)
      BY <1>0, <2>1, <3>2
    <3> QED BY <1>0, <2>2, <3>2, <3>3 DEF ReadOn
  <2> QED BY <2>3, <2>4, <2>5
<1> QED BY <1>2, <1>3

(* The object p has been answered: how the reading of rest goes on. *)
LEMMA RespBody ==
  ASSUME NEW p \in Request, NEW rest \in Seq(Piece), p.resp, ReadBody(rest, p)
  PROVE  obj' = [obj EXCEPT ![hreq] = p] /\ buf' = <<>> /\ RespEnds
<1>1. \/ Done("body", <<>>, p)
      \/ Wait("body", <<>>, p)
      \/ eof /\ Done("disconnected", <<>>, p)
  BY DEF ReadBody
<1> QED BY <1>1 DEF Done, Wait, RespEnds

LEMMA RespHeader ==
  ASSUME NEW p \in Request, NEW rest \in Seq(Piece), p.resp, ReadHeader(rest, p)
  PROVE  obj' = [obj EXCEPT ![hreq] = p] /\ Suffix(buf', rest) /\ RespEnds
<1>1. ReadResponse(rest, p)
  BY DEF ReadHeader
<1>2. CASE Wait("headers", rest, p)
  BY <1>2, SuffixSelf DEF Wait, RespEnds
<1>3. CASE ~Wait("headers", rest, p)
  <2>1. PICK i \in LineEnds(rest) :
          \/ Wait("headers", Remains(rest, i), p)
          \/ \E st \in {"headers", "body"} : Invalid(st, Remains(rest, i), p)
          \/ Done("headers", Remains(rest, i), p)
          \/ ReadBody(Remains(rest, i), p)
    BY <1>1, <1>3 DEF ReadResponse
  <2>2. i \in 0..Len(rest)
    BY DEF LineEnds
  <2>3. Suffix(Remains(rest, i), rest) /\ Suffix(<<>>, rest)
    BY <2>2, SuffixSub, SuffixSelf DEF Remains
  <2>4. Remains(rest, i) \in Seq(Piece)
    BY <2>3 DEF Suffix
  <2>5. CASE ReadBody(Remains(rest, i), p)
    BY <2>3, <2>4, <2>5, RespBody
  <2>6. CASE ~ReadBody(Remains(rest, i), p)
    BY <2>1, <2>3, <2>6 DEF Wait, Invalid, Done, RespEnds
  <2> QED BY <2>5, <2>6
<1> QED BY <1>2, <1>3

LEMMA FirstlineFacts ==
  ASSUME TypeOK, hreq # 0, status = "first", Unread # <<>>, sock' = <<>>,
         ReadFirstline(Unread)
  PROVE  ReadQuiet \/ ReadBadLine \/ ReadOn \/ ReadResp
<1>0. PICK b : b = Unread
  OBVIOUS
<1>1. b \in Seq(Piece) /\ DOMAIN b = 1..Len(b) /\ Len(b) \in Nat
      /\ obj \in [Obj -> Request] /\ hreq \in Obj /\ obj[hreq] \in Request
  <2>1. Unread \in Seq(Piece)
    BY UnreadType
  <2>2. obj \in [Obj -> Request] /\ hreq \in Obj
    BY DEF TypeOK, ObjType, CallType
  <2> QED BY <1>0, <2>1, <2>2
<1>2. ASSUME buf' \in Seq(Piece) PROVE Unread' = buf'
  BY <1>2, ConcatEmptySeq DEF Unread
<1>3. CASE LineEnds(b) = {}
  <2>1. Wait("first", b, obj[hreq])
    BY <1>0, <1>3 DEF ReadFirstline
  <2>2. obj' = obj /\ buf' = b /\ status' = status /\ pc' = "return"
    BY <1>1, <2>1 DEF Wait
  <2>3. Unread' = b
    BY <1>1, <1>2, <2>2
  <2> QED BY <1>0, <1>3, <2>2, <2>3 DEF ReadQuiet
<1>4. CASE LineEnds(b) # {}
  <2>1. PICK i : i = Min(LineEnds(b))
    OBVIOUS
  <2>2. i \in LineEnds(b) /\ i \in DOMAIN b /\ \A j \in LineEnds(b) : i <= j
    <3>1. LineEnds(b) \subseteq Nat
      BY <1>1 DEF LineEnds
    <3>2. i \in LineEnds(b) /\ \A j \in LineEnds(b) : i <= j
      BY <1>4, <2>1, <3>1, FirstOf
    <3> QED BY <3>2 DEF LineEnds
  <2>3. PICK r : r = b[i][1]
    OBVIOUS
  <2>4. PICK rest : rest = SubSeq(b, i + 1, Len(b))
    OBVIOUS
  <2>5. r \in Req /\ b[i] = <<r, b[i][2]>>
    BY <1>1, <2>2, <2>3, PieceParts
  <2>6. /\ Suffix(rest, b) /\ rest \in Seq(Piece) /\ Len(rest) = Len(b) - i
    <3>1. i \in 0..Len(b)
      BY <1>1, <2>2
    <3>2. Suffix(rest, b) /\ Len(rest) = Len(b) - i
      BY <1>1, <2>4, <3>1, SuffixSub
    <3> QED BY <3>2 DEF Suffix
  <2> DEFINE line == [obj[hreq] EXCEPT !.req = r]
  <2>l. line \in Request /\ line.resp = obj[hreq].resp
    <3>1. line \in Request
      BY <1>1, <2>5, SetField
    <3>2. line.resp = obj[hreq].resp
      BY <1>1 DEF Request
    <3> QED BY <3>1, <3>2
  <2>o. [line EXCEPT !.uri = TRUE, !.last = 2]
          = [obj[hreq] EXCEPT !.uri = TRUE, !.req = r, !.last = 2]
    BY <1>1 DEF Request
  <2>7. \/ /\ ~line.resp /\ RequestLine(b, i)
           /\ ReadHeader(rest, [line EXCEPT !.uri = TRUE, !.last = 2])
        \/ line.resp /\ ReadHeader(rest, line)
        \/ /\ line.resp \/ ~RequestLine(b, i)
           /\ Invalid("first", rest, line)
    BY <1>0, <1>4, <2>1, <2>3, <2>4 DEF ReadFirstline, Remains
  <2>8. CASE /\ ~line.resp /\ RequestLine(b, i)
             /\ ReadHeader(rest, [line EXCEPT !.uri = TRUE, !.last = 2])
    <3>p. SubSeq(b, 1, i) = <<<<r, 1>>, <<r, 2>>>> /\ kind[r] # "badline"
      BY <2>3, <2>8 DEF RequestLine
    <3> DEFINE o == [obj[hreq] EXCEPT !.uri = TRUE, !.req = r, !.last = 2]
    <3>1. Kept(o, obj[hreq]) /\ o.uri /\ o.req = r /\ o.last = 2 /\ o \in Request
      <4>1. o \in Request
        <5>1. [obj[hreq] EXCEPT !.uri = TRUE] \in Request
          BY <1>1, SetField
        <5>2. [[obj[hreq] EXCEPT !.uri = TRUE] EXCEPT !.req = r] \in Request
          BY <2>5, <5>1, SetField
        <5>3. [[[obj[hreq] EXCEPT !.uri = TRUE] EXCEPT !.req = r] EXCEPT !.last = 2] \in Request
          <6>1. 2 \in 0..5
            OBVIOUS
          <6> QED BY <5>2, <6>1, SetField
        <5> QED BY <5>3
      <4>2. o.uri = TRUE /\ o.req = r /\ o.last = 2
        BY <1>1 DEF Request
      <4>3. o.state = obj[hreq].state /\ o.attached = obj[hreq].attached
            /\ o.userdone = obj[hreq].userdone /\ o.out = obj[hreq].out
            /\ o.blocks = obj[hreq].blocks /\ o.resp = obj[hreq].resp
        BY <1>1 DEF Request
      <4> HIDE DEF o
      <4> QED BY <4>1, <4>2, <4>3 DEF Kept
    <3>2. i = 2 /\ b[1] = <<r, 1>> /\ b[2] = <<r, 2>> /\ Len(b) >= 2
      <4>1. /\ Len(SubSeq(b, 1, i)) = i
            /\ \A j \in 1..i : SubSeq(b, 1, i)[j] = b[j]
        <5>1. 1 \in Int /\ i \in Int /\ 1 <= i /\ \A j \in 1..i : b[j] \in Piece
          BY <1>1, <2>2
        <5>2. /\ Len(SubSeq(b, 1, i)) = IF 1 <= i THEN i - 1 + 1 ELSE 0
              /\ \A j \in 1..(i - 1 + 1) : SubSeq(b, 1, i)[j] = b[1 + j - 1]
          BY <5>1, SubSeqProperties
        <5>3. i - 1 + 1 = i /\ \A j \in 1..i : 1 + j - 1 = j
          BY <5>1
        <5>4. ASSUME NEW j \in 1..i PROVE SubSeq(b, 1, i)[j] = b[j]
          BY <5>2, <5>3
        <5> QED BY <5>1, <5>2, <5>3, <5>4
      <4>2. i = 2
        BY <3>p, <4>1
      <4>3. b[1] = <<r, 1>> /\ b[2] = <<r, 2>>
        <5>0. PICK s : s = SubSeq(b, 1, i)
          OBVIOUS
        <5>1. s[1] = <<r, 1>> /\ s[2] = <<r, 2>>
          <6>1. s = <<<<r, 1>>, <<r, 2>>>>
            BY <3>p, <5>0
          <6> QED BY <6>1
        <5>2. 1 \in 1..i /\ 2 \in 1..i
          BY <4>2
        <5> QED BY <4>1, <5>0, <5>1, <5>2
      <4> QED BY <1>1, <2>2, <4>2, <4>3
    <3> HIDE DEF o
    <3>3. Started(o, rest)
      BY <1>0, <2>5, <2>6, <3>p, <3>1, <3>2 DEF Started
    <3>4. ReadHeader(rest, o)
      BY <2>8, <2>o DEF o
    <3>5. ~o.resp /\ ~obj[hreq].resp
      BY <2>8, <2>l, <3>1 DEF Kept
    <3>6. ReadOn
      BY <2>5, <2>6, <3>1, <3>3, <3>4, <3>5, HeaderFacts
    <3> QED BY <3>6
  <2>w. CASE line.resp /\ ReadHeader(rest, line)
    <3>1. obj' = [obj EXCEPT ![hreq] = line] /\ Suffix(buf', rest) /\ RespEnds
      <4> HIDE DEF line
      <4> QED BY <2>6, <2>l, <2>w, RespHeader
    <3>2. Unread' = buf'
      BY <1>2, <3>1 DEF Suffix
    <3>3. RespLine(line, rest)
      BY <1>0, <2>2, <2>3, <2>4 DEF RespLine
    <3> HIDE DEF line
    <3> QED BY <2>l, <2>w, <3>1, <3>2, <3>3 DEF ReadResp
  <2>9. CASE /\ line.resp \/ ~RequestLine(b, i)
             /\ Invalid("first", rest, line)
    <3>1. /\ status' = "first" /\ pc' = "fail" /\ ec' = "INVALID" /\ buf' = rest
          /\ obj' = [obj EXCEPT ![hreq] = [obj[hreq] EXCEPT !.req = r]]
      BY <2>9 DEF Invalid
    <3>2. obj' = [obj EXCEPT ![hreq].req = r]
      BY <1>1, <3>1
    <3>3. Unread' = rest
      BY <1>2, <2>6, <3>1
    <3>4. \/ kind[r] = "badline" \/ obj[hreq].resp
          \/ SubSeq(b, 1, i) # <<<<r, 1>>, <<r, 2>>>>
      BY <2>3, <2>9, <2>l DEF RequestLine
    <3> QED BY <1>0, <2>2, <2>3, <2>4, <3>1, <3>2, <3>3, <3>4 DEF ReadBadLine
  <2> QED BY <2>7, <2>8, <2>9, <2>w
<1> QED BY <1>3, <1>4

LEMMA ReadEffect ==
  ASSUME TypeOK, OwnInv, RankInv, ReadHandler
  PROVE  /\ pc = "read" /\ hreq \in Obj /\ sock' = <<>>
         /\ UNCHANGED <<clear, wnext, open, hreq, pending, wvars, edge, wedge,
                        blocked, eof, reset, clvars, replies, cut, fault>>
         /\ ReadReset \/ ReadQuiet \/ ReadEnd \/ ReadBadLine \/ ReadOn \/ ReadResp
<1>1. pc = "read" /\ sock' = <<>> /\ Reader
  BY DEF ReadHandler
<1>2. hreq # 0 /\ hreq \in Obj
  BY <1>1 DEF OwnInv, TypeOK, CallType
<1>3. /\ Unread \in Seq(Piece) /\ obj \in [Obj -> Request] /\ obj[hreq] \in Request
      /\ [obj EXCEPT ![hreq] = obj[hreq]] = obj
  BY <1>2, UnreadType DEF TypeOK, ObjType
<1>4. ASSUME buf' \in Seq(Piece) PROVE Unread' = buf'
  BY <1>1, <1>4, ConcatEmptySeq DEF Unread
<1>5. \/ reset /\ ec' = "READ_EOF" /\ pc' = "fail" /\ UNCHANGED <<status, buf, obj>>
      \/ Unread = <<>> /\ eof /\ EndOfFile
      \/ Unread = <<>> /\ Wait(status, Unread, obj[hreq])
      \/ Unread # <<>> /\ ReadByStatus(Unread)
  BY DEF ReadHandler, Unread
<1>6. CASE reset /\ ec' = "READ_EOF" /\ pc' = "fail" /\ UNCHANGED <<status, buf, obj>>
  BY <1>1, <1>2, <1>6 DEF ReadReset, Reader
<1>7. CASE Unread = <<>> /\ eof /\ EndOfFile
  <2>1. status' = "disconnected" /\ buf' = <<>> /\ obj' = obj /\ pc' = "handle"
    BY <1>3, <1>7 DEF EndOfFile, Done
  <2>2. Unread' = <<>>
    BY <1>4, <2>1
  <2> QED BY <1>1, <1>2, <1>7, <2>1, <2>2 DEF ReadEnd, Reader
<1>8. CASE Unread = <<>> /\ Wait(status, Unread, obj[hreq])
  <2>1. status' = status /\ buf' = <<>> /\ obj' = obj /\ pc' = "return"
    BY <1>3, <1>8 DEF Wait
  <2>2. Unread' = <<>>
    BY <1>4, <2>1
  <2>3. LineEnds(Unread) = {}
    BY <1>8 DEF LineEnds
  <2> QED BY <1>1, <1>2, <1>8, <2>1, <2>2, <2>3 DEF ReadQuiet, Reader
<1>9. CASE Unread # <<>> /\ ReadByStatus(Unread)
  <2>1. CASE status = "first"
    <3>1. ReadFirstline(Unread)
      BY <1>9, <2>1 DEF ReadByStatus
    <3>2. ReadQuiet \/ ReadBadLine \/ ReadOn \/ ReadResp
      BY <1>1, <1>2, <1>9, <2>1, <3>1, FirstlineFacts
    <3> QED BY <1>1, <1>2, <3>2 DEF Reader
  <2>r. CASE status \in {"headers", "body"} /\ obj[hreq].resp
    <3>1. \/ ReadHeader(Unread, obj[hreq])
          \/ ReadBody(Unread, obj[hreq])
      BY <1>9, <2>r DEF ReadByStatus
    <3>2. obj' = [obj EXCEPT ![hreq] = obj[hreq]] /\ Suffix(buf', Unread) /\ RespEnds
      BY <1>3, <2>r, <3>1, RespHeader, RespBody, SuffixSelf
    <3>3. Unread' = buf'
      BY <1>4, <3>2 DEF Suffix
    <3>4. ReadResp
      BY <1>3, <2>r, <3>2, <3>3 DEF ReadResp, RespLine
    <3> QED BY <1>1, <1>2, <3>4 DEF Reader
  <2>2. CASE status = "headers" /\ ~obj[hreq].resp
    <3>1. ReadHeader(Unread, obj[hreq])
      BY <1>9, <2>2 DEF ReadByStatus
    <3>2. obj[hreq].req \in Req
      <4>1. obj[hreq].req >= hreq /\ obj[hreq].req \in Req \cup {0}
            /\ hreq \in Nat /\ hreq >= 1
        BY <1>2, <1>3, <2>2 DEF RankInv, HasRequest, Obj, Request
      <4> QED BY <4>1 DEF Req
    <3>3. Started(obj[hreq], Unread)
      BY <2>2 DEF Started
    <3>4. ReadOn
      BY <1>1, <1>2, <1>3, <2>2, <3>1, <3>2, <3>3, HeaderFacts
    <3> QED BY <1>1, <1>2, <3>4 DEF Reader
  <2>3. CASE status = "body" /\ ~obj[hreq].resp
    <3>1. ReadBody(Unread, obj[hreq])
      BY <1>9, <2>3 DEF ReadByStatus
    <3>2. PICK p :
            /\ Kept(p, obj[hreq]) /\ p.req = obj[hreq].req /\ p.uri = obj[hreq].uri
            /\ obj' = [obj EXCEPT ![hreq] = p]
            /\ buf' = <<>> /\ ec' = ec
            /\ LastSeen(p, obj[hreq], Unread, 0)
            /\ \/ p.last = 5 /\ status' = "writing" /\ pc' = "handle"
               \/ p.last < 5 /\ ~eof /\ status' = "body" /\ pc' = "return"
               \/ p.last < 5 /\ eof /\ status' = "disconnected" /\ pc' = "handle"
      BY <1>1, <1>3, <2>3, <3>1, BodyFacts
    <3>3. Unread' = <<>> /\ Suffix(Unread', Unread)
      BY <1>3, <1>4, <3>2, SuffixSelf
    <3>4. BodyRead(p, obj[hreq], Unread)
      BY <2>3, <3>2, <3>3 DEF BodyRead
    <3>5. Started(obj[hreq], Unread)
      BY <2>3 DEF Started
    <3>6. ReadOn
      BY <2>3, <3>2, <3>3, <3>4, <3>5 DEF ReadOn
    <3> QED BY <1>1, <1>2, <3>6 DEF Reader
  <2>4. CASE status \notin {"first", "headers", "body"}
    <3>1. Wait(status, Unread, obj[hreq])
      BY <1>9, <2>4 DEF ReadByStatus
    <3>2. status' = status /\ buf' = Unread /\ obj' = obj /\ pc' = "return"
      BY <1>3, <3>1 DEF Wait
    <3>3. Unread' = Unread
      BY <1>3, <1>4, <3>2
    <3> QED BY <1>1, <1>2, <2>4, <3>2, <3>3 DEF ReadQuiet, Reader
  <2> QED BY <2>1, <2>2, <2>3, <2>4, <2>r
<1> QED BY <1>5, <1>6, <1>7, <1>8, <1>9

(* Reading a response leaves all of the object alone but its request. *)
RespEffect ==
  /\ obj[hreq].resp /\ status \in {"first", "headers", "body"} /\ RespEnds
  /\ obj' \in [Obj -> Request] /\ \A q \in Obj : q # hreq => obj'[q] = obj[q]
  /\ Kept(obj'[hreq], obj[hreq])
  /\ obj'[hreq].uri = obj[hreq].uri /\ obj'[hreq].close = obj[hreq].close
  /\ obj'[hreq].last = obj[hreq].last
  /\ buf' = Unread' /\ Suffix(Unread', Unread)
  /\ \/ obj'[hreq].req = obj[hreq].req
     \/ \E i \in DOMAIN Unread :
          /\ obj'[hreq].req = Unread[i][1]
          /\ Suffix(Unread', SubSeq(Unread, i + 1, Len(Unread)))

LEMMA RespIs ==
  ASSUME TypeOK, hreq \in Obj, ReadResp
  PROVE  RespEffect
<1>1. obj \in [Obj -> Request] /\ obj[hreq] \in Request /\ Unread \in Seq(Piece)
  BY UnreadType DEF TypeOK, ObjType
<1>2. PICK p, rest :
        /\ obj[hreq].resp /\ status \in {"first", "headers", "body"}
        /\ RespLine(p, rest)
        /\ p \in Request /\ obj' = [obj EXCEPT ![hreq] = p]
        /\ Suffix(Unread', rest) /\ buf' = Unread'
        /\ RespEnds
  BY DEF ReadResp
<1>3. /\ obj' \in [Obj -> Request] /\ \A q \in Obj : q # hreq => obj'[q] = obj[q]
      /\ obj'[hreq] = p
  BY <1>1, <1>2
<1>4. CASE p = obj[hreq] /\ rest = Unread
  BY <1>1, <1>2, <1>3, <1>4 DEF RespEffect, Kept
<1>5. CASE \E i \in LineEnds(Unread) : /\ p = [obj[hreq] EXCEPT !.req = Unread[i][1]]
                                       /\ rest = SubSeq(Unread, i + 1, Len(Unread))
  <2>1. PICK i \in LineEnds(Unread) : /\ p = [obj[hreq] EXCEPT !.req = Unread[i][1]]
                                     /\ rest = SubSeq(Unread, i + 1, Len(Unread))
    BY <1>5
  <2>2. i \in DOMAIN Unread /\ i \in 0..Len(Unread)
    BY <1>1 DEF LineEnds
  <2>3. Suffix(rest, Unread)
    BY <1>1, <2>1, <2>2, SuffixSub
  <2>4. Suffix(Unread', Unread)
    BY <1>1, <1>2, <2>3, SuffixTwice
  <2>5. /\ Kept(p, obj[hreq]) /\ p.uri = obj[hreq].uri /\ p.close = obj[hreq].close
        /\ p.last = obj[hreq].last /\ p.req = Unread[i][1]
    BY <1>1, <1>2, <2>1 DEF Kept, Request
  <2> QED BY <1>2, <1>3, <2>1, <2>2, <2>4, <2>5 DEF RespEffect
<1> QED BY <1>2, <1>4, <1>5 DEF RespLine

-----------------------------------------------------------------------------
(* What the other operations do to the request objects.                    *)

(* Object x becomes p, and no other changes. *)
Edit(x, p) == p \in Request /\ obj' = [obj EXCEPT ![x] = p]

LEMMA EditIs ==
  ASSUME ObjType, NEW x \in Obj, NEW p, Edit(x, p)
  PROVE  /\ obj' \in [Obj -> Request] /\ obj'[x] = p
         /\ \A q \in Obj : q # x => obj'[q] = obj[q]
  BY DEF Edit, ObjType

(* http_send and http_send_page *)
Answered(p, o) ==
  /\ p.state = o.state /\ p.attached = o.attached /\ p.uri = o.uri
  /\ p.req = o.req /\ p.last = o.last /\ p.blocks = o.blocks
  /\ p.resp = TRUE /\ p.userdone = TRUE /\ p.out = Append(o.out, o.req)

LEMMA PrepareIs ==
  ASSUME ObjType, NEW o \in Obj
  PROVE  \E p \in Request : /\ Prepare(o) = [obj EXCEPT ![o] = p]
                            /\ Answered(p, obj[o]) /\ p.close = obj[o].close
<1>1. PICK e : e = obj[o]
  OBVIOUS
<1>2. e \in Request /\ obj \in [Obj -> Request]
  BY <1>1 DEF ObjType
<1>3. PICK s : s = Append(e.out, e.req)
  OBVIOUS
<1>4. s \in Seq(Req \cup {0})
  <2>1. e.out \in Seq(Req \cup {0}) /\ e.req \in Req \cup {0}
    BY <1>2 DEF Request
  <2> QED BY <1>3, <2>1, AppendProperties
<1>5. PICK p : p = [[[e EXCEPT !.resp = TRUE] EXCEPT !.userdone = TRUE] EXCEPT !.out = s]
  OBVIOUS
<1>6. p \in Request
  <2>0. [e EXCEPT !.resp = TRUE] \in Request
    BY <1>2, SetField
  <2>1. [[e EXCEPT !.resp = TRUE] EXCEPT !.userdone = TRUE] \in Request
    BY <2>0, SetField
  <2> QED BY <1>4, <1>5, <2>1, SetField
<1>7. Prepare(o) = [obj EXCEPT ![o] = p]
  BY <1>1, <1>2, <1>3, <1>5 DEF Prepare, MakeHeader, Request
<1>8. p.resp = TRUE /\ p.userdone = TRUE /\ p.out = s /\ p.close = e.close
  BY <1>2, <1>5 DEF Request
<1>9. p.state = e.state /\ p.attached = e.attached /\ p.uri = e.uri
      /\ p.req = e.req /\ p.last = e.last /\ p.blocks = e.blocks
  BY <1>2, <1>5 DEF Request
<1> QED BY <1>1, <1>3, <1>6, <1>7, <1>8, <1>9 DEF Answered

LEMMA SendPageIs ==
  ASSUME ObjType, NEW o \in Obj
  PROVE  \E p \in Request : /\ SendPage(o) = [obj EXCEPT ![o] = p]
                            /\ Answered(p, obj[o]) /\ p.close = TRUE
<1>1. PICK q \in Request : Prepare(o) = [obj EXCEPT ![o] = q] /\ Answered(q, obj[o])
  BY PrepareIs
<1>2. PICK p : p = [q EXCEPT !.close = TRUE]
  OBVIOUS
<1>3. p \in Request
  BY <1>2, SetField
<1>4. obj \in [Obj -> Request]
  BY DEF ObjType
<1>5. SendPage(o) = [obj EXCEPT ![o] = p]
  BY <1>1, <1>2, <1>4 DEF SendPage
<1>6. p.close = TRUE /\ p.userdone = q.userdone /\ p.out = q.out /\ p.resp = q.resp
  BY <1>1, <1>2 DEF Request
<1>7. p.state = q.state /\ p.attached = q.attached /\ p.uri = q.uri
      /\ p.req = q.req /\ p.last = q.last /\ p.blocks = q.blocks
  BY <1>1, <1>2 DEF Request
<1> QED BY <1>1, <1>3, <1>5, <1>6, <1>7 DEF Answered

(* http_handle_request leaves the request to a module. *)
LEMMA InHandsIs ==
  ASSUME ObjType, NEW o \in Obj
  PROVE  \E p \in Request :
           /\ InHands(o) = [obj EXCEPT ![o] = p]
           /\ p.state = obj[o].state /\ p.attached = obj[o].attached
           /\ p.req = obj[o].req /\ p.out = obj[o].out /\ p.close = obj[o].close
           /\ p.resp = obj[o].resp
           /\ p.userdone = FALSE /\ (p.uri <=> kind[obj[o].req] = "status")
           /\ p.last = obj[o].last
<1>1. PICK e : e = obj[o]
  OBVIOUS
<1>2. e \in Request /\ obj \in [Obj -> Request]
  BY <1>1 DEF ObjType
<1>3. PICK v : v = (kind[e.req] = "status")
  OBVIOUS
<1>4. v \in BOOLEAN
  BY <1>3
<1>5. PICK p : p = [[e EXCEPT !.userdone = FALSE] EXCEPT !.uri = v]
  OBVIOUS
<1>6. p \in Request
  <2>1. [e EXCEPT !.userdone = FALSE] \in Request
    BY <1>2, SetField
  <2> QED BY <1>4, <1>5, <2>1, SetField
<1>7. InHands(o) = [obj EXCEPT ![o] = p]
  <2>1. InHands(o) = [obj EXCEPT ![o].userdone = FALSE, ![o].uri = v]
    BY <1>1, <1>3 DEF InHands
  <2> QED BY <1>1, <1>2, <1>5, <2>1
<1>8. p.userdone = FALSE /\ p.uri = v
  BY <1>2, <1>4, <1>5 DEF Request
<1>9. p.state = e.state /\ p.attached = e.attached /\ p.req = e.req
      /\ p.out = e.out /\ p.close = e.close /\ p.last = e.last /\ p.resp = e.resp
  BY <1>2, <1>5 DEF Request
<1> QED BY <1>1, <1>3, <1>6, <1>7, <1>8, <1>9

(* One field of one object. *)
LEMMA FieldIs ==
  ASSUME ObjType, NEW o \in Obj
  PROVE  /\ \E p \in Request :
              /\ RequestFree(o) = [obj EXCEPT ![o] = p]
              /\ p = [obj[o] EXCEPT !.state = "freed"]
         /\ \E p \in Request :
              /\ [obj EXCEPT ![o].uri = FALSE] = [obj EXCEPT ![o] = p]
              /\ p = [obj[o] EXCEPT !.uri = FALSE]
         /\ \E p \in Request :
              /\ [obj EXCEPT ![o].attached = FALSE] = [obj EXCEPT ![o] = p]
              /\ p = [obj[o] EXCEPT !.attached = FALSE]
         /\ obj[o].blocks < Blocks => \E p \in Request :
              /\ [obj EXCEPT ![o].blocks = @ + 1] = [obj EXCEPT ![o] = p]
              /\ p = [obj[o] EXCEPT !.blocks = @ + 1]
<1>1. obj[o] \in Request /\ obj \in [Obj -> Request]
  BY DEF ObjType
<1>2. RequestFree(o) = [obj EXCEPT ![o] = [obj[o] EXCEPT !.state = "freed"]]
  BY <1>1 DEF RequestFree
<1>3. [obj EXCEPT ![o].uri = FALSE] = [obj EXCEPT ![o] = [obj[o] EXCEPT !.uri = FALSE]]
  BY <1>1
<1>4. [obj EXCEPT ![o].attached = FALSE]
        = [obj EXCEPT ![o] = [obj[o] EXCEPT !.attached = FALSE]]
  BY <1>1
<1>5. [obj EXCEPT ![o].blocks = @ + 1]
        = [obj EXCEPT ![o] = [obj[o] EXCEPT !.blocks = @ + 1]]
  BY <1>1
<1>6. /\ [obj[o] EXCEPT !.state = "freed"] \in Request
      /\ [obj[o] EXCEPT !.uri = FALSE] \in Request
      /\ [obj[o] EXCEPT !.attached = FALSE] \in Request
  BY <1>1, SetField
<1>7. obj[o].blocks < Blocks => [obj[o] EXCEPT !.blocks = @ + 1] \in Request
  <2>1. obj[o].blocks \in 0..Blocks
    BY <1>1 DEF Request
  <2>2. obj[o].blocks < Blocks => obj[o].blocks + 1 \in 0..Blocks
    BY <2>1
  <2> QED BY <1>1, <2>2, SetField
<1> QED BY <1>2, <1>3, <1>4, <1>5, <1>6, <1>7

LEMMA NewReqIs == NewReq \in Request
<1>1. <<>> \in Seq(Req \cup {0}) /\ 0 \in 0..Blocks /\ 0 \in 0..5 /\ 0 \in Req \cup {0}
  OBVIOUS
<1> QED BY <1>1 DEF NewReq, Request

(* The connection is there while one of its functions runs. *)
LEMMA Connected ==
  ASSUME TypeOK, OwnInv, pc \in {"read", "write", "handle", "flush", "fail"}
  PROVE  open /\ hreq # 0 /\ hreq \in Obj /\ hreq \in Nat
  BY DEF TypeOK, CallType, OwnInv, Obj

(* Fields that most operations keep. *)
SameRequest(p, o) ==
  /\ p.req = o.req /\ p.last = o.last /\ p.out = o.out /\ p.close = o.close
  /\ p.resp = o.resp

HandleEffect ==
  /\ pc = "handle" /\ obj[hreq].uri
  /\ UNCHANGED <<ec, wnext, hvars, wvars, buf, svars, clvars, replies, late, fault>>
  /\ cut' = IF obj[hreq].last < Pieces(kind[obj[hreq].req])
            THEN cut \cup {obj[hreq].req} ELSE cut
  /\ \E p :
       /\ Edit(hreq, p)
       /\ p.state = obj[hreq].state /\ p.attached = obj[hreq].attached
       /\ \/ /\ SameRequest(p, obj[hreq]) /\ kind[obj[hreq].req] # "sync"
             /\ ~p.userdone /\ (p.uri <=> kind[obj[hreq].req] = "status")
             /\ pending' = [pending EXCEPT ![hreq] = @ + 1]
             /\ pc' = "return" /\ UNCHANGED clear
          \/ /\ Answered(p, obj[hreq]) /\ (obj[hreq].close => p.close)
             /\ kind[obj[hreq].req] \in {"status", "sync"}
             /\ pc' = "flush" /\ UNCHANGED pending
             /\ \/ UNCHANGED clear
                \/ clear' = hreq /\ kind[obj[hreq].req] = "sync"

LEMMA HandleIs ==
  ASSUME TypeOK, OwnInv, HandleRequest
  PROVE  HandleEffect
<1>1. pc = "handle" /\ ObjType
  BY DEF HandleRequest, TypeOK
<1>2. hreq \in Obj
  BY <1>1, Connected
<1>3. /\ obj[hreq].uri
      /\ UNCHANGED <<ec, wnext, hvars, wvars, buf, svars, clvars, replies, late, fault>>
      /\ cut' = IF obj[hreq].last < Pieces(kind[obj[hreq].req])
                THEN cut \cup {obj[hreq].req} ELSE cut
  BY DEF HandleRequest
<1>4. \/ /\ kind[obj[hreq].req] # "sync" /\ obj' = InHands(hreq)
         /\ pending' = [pending EXCEPT ![hreq] = @ + 1]
         /\ pc' = "return" /\ UNCHANGED clear
      \/ /\ kind[obj[hreq].req] = "sync" /\ obj' = Prepare(hreq)
         /\ clear' = hreq /\ pc' = "flush" /\ UNCHANGED pending
      \/ /\ kind[obj[hreq].req] = "status" /\ obj' = Prepare(hreq)
         /\ pc' = "flush" /\ UNCHANGED <<clear, pending>>
      \/ /\ kind[obj[hreq].req] = "sync" /\ obj' = SendPage(hreq)
         /\ pc' = "flush" /\ UNCHANGED <<clear, pending>>
  BY DEF HandleRequest, Invoke, StatsPage
<1>5. CASE /\ kind[obj[hreq].req] # "sync" /\ obj' = InHands(hreq)
           /\ pending' = [pending EXCEPT ![hreq] = @ + 1]
           /\ pc' = "return" /\ UNCHANGED clear
  <2>1. PICK p \in Request :
          /\ InHands(hreq) = [obj EXCEPT ![hreq] = p]
          /\ p.state = obj[hreq].state /\ p.attached = obj[hreq].attached
          /\ p.req = obj[hreq].req /\ p.out = obj[hreq].out
          /\ p.close = obj[hreq].close /\ p.resp = obj[hreq].resp
          /\ p.userdone = FALSE /\ (p.uri <=> kind[obj[hreq].req] = "status")
          /\ p.last = obj[hreq].last
    BY <1>1, <1>2, InHandsIs
  <2>2. Edit(hreq, p) /\ SameRequest(p, obj[hreq])
    BY <1>5, <2>1 DEF Edit, SameRequest
  <2> QED BY <1>1, <1>3, <1>5, <2>1, <2>2 DEF HandleEffect
<1>6. ASSUME obj' = Prepare(hreq)
      PROVE  \E p : /\ Edit(hreq, p) /\ Answered(p, obj[hreq])
                    /\ p.close = obj[hreq].close
  <2>1. PICK p \in Request : /\ Prepare(hreq) = [obj EXCEPT ![hreq] = p]
                             /\ Answered(p, obj[hreq]) /\ p.close = obj[hreq].close
    BY <1>1, <1>2, PrepareIs
  <2> QED BY <1>6, <2>1 DEF Edit
<1>7. ASSUME obj' = SendPage(hreq)
      PROVE  \E p : /\ Edit(hreq, p) /\ Answered(p, obj[hreq]) /\ p.close = TRUE
  <2>1. PICK p \in Request : /\ SendPage(hreq) = [obj EXCEPT ![hreq] = p]
                             /\ Answered(p, obj[hreq]) /\ p.close = TRUE
    BY <1>1, <1>2, SendPageIs
  <2> QED BY <1>7, <2>1 DEF Edit
<1>8. CASE /\ kind[obj[hreq].req] \in {"sync", "status"}
           /\ obj' = Prepare(hreq) \/ obj' = SendPage(hreq)
           /\ pc' = "flush" /\ UNCHANGED pending
           /\ UNCHANGED clear \/ (clear' = hreq /\ kind[obj[hreq].req] = "sync")
  <2>1. PICK p : /\ Edit(hreq, p) /\ Answered(p, obj[hreq])
                 /\ (obj[hreq].close => p.close)
    BY <1>6, <1>7, <1>8
  <2>2. p.state = obj[hreq].state /\ p.attached = obj[hreq].attached
    BY <2>1 DEF Answered
  <2> QED BY <1>1, <1>3, <1>8, <2>1, <2>2 DEF HandleEffect
<1> QED BY <1>4, <1>5, <1>8

NothingEffect ==
  /\ pc = "handle" /\ ~obj[hreq].uri
  /\ UNCHANGED <<clear, wnext, hvars, pending, wvars, buf, svars, clvars, hist>>
  /\ \/ status = "disconnected" /\ ec' = "READ_EOF" /\ pc' = "fail" /\ UNCHANGED obj
     \/ /\ status # "disconnected" /\ pc' = "flush" /\ UNCHANGED ec
        /\ \E p : Edit(hreq, p) /\ Answered(p, obj[hreq]) /\ p.close = TRUE

LEMMA NothingIs ==
  ASSUME TypeOK, OwnInv, HandleNothing
  PROVE  NothingEffect
<1>1. pc = "handle" /\ ObjType
  BY DEF HandleNothing, TypeOK
<1>2. hreq \in Obj
  BY <1>1, Connected
<1>3. PICK p \in Request : /\ SendPage(hreq) = [obj EXCEPT ![hreq] = p]
                           /\ Answered(p, obj[hreq]) /\ p.close = TRUE
  BY <1>1, <1>2, SendPageIs
<1>4. CASE status = "disconnected"
  BY <1>4 DEF HandleNothing, NothingEffect
<1>5. CASE status # "disconnected"
  <2>1. Edit(hreq, p) /\ pc' = "flush" /\ UNCHANGED ec
    BY <1>3, <1>5 DEF HandleNothing, Edit
  <2> QED BY <1>3, <1>5, <2>1 DEF HandleNothing, NothingEffect
<1> QED BY <1>4, <1>5

ReplyEffect(o) ==
  /\ pc = "loop" /\ pending[o] > 0 /\ pending' = [pending EXCEPT ![o] = @ - 1]
  /\ UNCHANGED <<call, hvars, wvars, buf, svars, clvars, replies, cut, late>>
  /\ \/ /\ obj[o].state = "freed" /\ UNCHANGED <<pc, obj>>
        /\ fault' = fault \cup {<<"reply", kind[obj[o].req]>>}
     \/ /\ obj[o].state = "live" /\ ~obj[o].attached /\ UNCHANGED <<pc, fault>>
        /\ \E p : /\ Edit(o, p) /\ SameRequest(p, obj[o])
                  /\ p.state = "freed" /\ p.uri = obj[o].uri
     \/ /\ obj[o].state = "live" /\ obj[o].attached /\ pc' = "flush" /\ UNCHANGED fault
        /\ \E p : Edit(o, p) /\ Answered(p, obj[o]) /\ p.close = obj[o].close

LEMMA ReplyIs ==
  ASSUME TypeOK, NEW o \in Obj, Reply(o)
  PROVE  ReplyEffect(o)
<1>1. ObjType
  BY DEF TypeOK
<1>2. /\ pc = "loop" /\ pending[o] > 0 /\ pending' = [pending EXCEPT ![o] = @ - 1]
      /\ UNCHANGED <<call, hvars, wvars, buf, svars, clvars, replies, cut, late>>
  BY DEF Reply
<1>3. CASE obj[o].state = "freed"
  BY <1>2, <1>3 DEF Reply, ReplyEffect
<1>4. CASE obj[o].state = "live" /\ ~obj[o].attached
  <2>1. obj' = RequestFree(o) /\ UNCHANGED <<pc, fault>>
    BY <1>4 DEF Reply, ReplyToNobody
  <2>2. PICK p \in Request : /\ RequestFree(o) = [obj EXCEPT ![o] = p]
                             /\ p = [obj[o] EXCEPT !.state = "freed"]
    BY <1>1, FieldIs
  <2>3. obj[o] \in Request
    BY <1>1 DEF ObjType
  <2>4. SameRequest(p, obj[o]) /\ p.state = "freed" /\ p.uri = obj[o].uri
    BY <2>2, <2>3 DEF SameRequest, Request
  <2>5. Edit(o, p)
    BY <2>1, <2>2 DEF Edit
  <2> QED BY <1>2, <1>4, <2>1, <2>4, <2>5 DEF ReplyEffect
<1>5. CASE obj[o].state = "live" /\ obj[o].attached
  <2>1. obj' = Prepare(o) /\ pc' = "flush" /\ UNCHANGED fault
    BY <1>5 DEF Reply
  <2>2. PICK p \in Request : /\ Prepare(o) = [obj EXCEPT ![o] = p]
                             /\ Answered(p, obj[o]) /\ p.close = obj[o].close
    BY <1>1, PrepareIs
  <2>3. Edit(o, p)
    BY <2>1, <2>2 DEF Edit
  <2> QED BY <1>2, <1>5, <2>1, <2>2, <2>3 DEF ReplyEffect
<1> QED BY <1>3, <1>4, <1>5 DEF Reply

FlushFails ==
  /\ pc' = "fail" /\ ec' = "WRITE_EOF"
  /\ UNCHANGED <<hvars, obj, wvars, buf, blocked, replies>>

FlushCloses ==
  /\ obj[hreq].out # <<>> /\ ~blocked /\ obj[hreq].close
  /\ replies' = replies \o obj[hreq].out /\ pc' = "return"
  /\ open' = FALSE /\ hreq' = 0 /\ UNCHANGED <<status, buf, ec, blocked, whandler, wactive>>
  /\ wtimer' = FALSE
  /\ \E p : /\ Edit(hreq, p) /\ SameRequest(p, obj[hreq])
            /\ p.state = "freed" /\ p.uri = obj[hreq].uri

FlushGoesOn ==
  /\ obj[hreq].out # <<>> /\ ~blocked /\ ~obj[hreq].close
  /\ replies' = replies \o obj[hreq].out /\ pc' = "return"
  /\ hreq' = hreq + 1 /\ status' = "first" /\ buf' = <<>>
  /\ UNCHANGED <<open, ec, blocked, wvars>>
  /\ \E p : /\ p \in Request /\ SameRequest(p, obj[hreq])
            /\ p.state = "freed" /\ p.uri = obj[hreq].uri
            /\ obj' = [[obj EXCEPT ![hreq] = p] EXCEPT ![hreq + 1] = NewReq]

FlushWaits ==
  /\ obj[hreq].out # <<>> /\ (blocked \/ MayBlock)
  /\ pc' = "return" /\ blocked' = TRUE /\ UNCHANGED <<hvars, ec, buf, replies>>
  /\ {whandler', wactive', wtimer'} = {TRUE}
  /\ \E p : /\ Edit(hreq, p) /\ SameRequest(p, obj[hreq])
            /\ p.state = obj[hreq].state /\ p.attached = obj[hreq].attached
            /\ p.uri = obj[hreq].uri /\ p.userdone = obj[hreq].userdone

FlushEffect ==
  /\ pc = "flush"
  /\ UNCHANGED <<clear, wnext, pending, sock, edge, wedge, eof, reset, clvars,
                 cut, late, fault>>
  /\ FlushFails \/ FlushCloses \/ FlushGoesOn \/ FlushWaits

LEMMA FlushIs ==
  ASSUME TypeOK, OwnInv, Flush
  PROVE  FlushEffect
<1>1. /\ pc = "flush" /\ ObjType
      /\ UNCHANGED <<clear, wnext, pending, sock, edge, wedge, eof, reset, clvars,
                     cut, late, fault>>
  BY DEF Flush, TypeOK
<1>2. hreq \in Obj /\ hreq \in Nat
  BY <1>1, Connected
<1>3. obj[hreq] \in Request /\ obj \in [Obj -> Request]
  BY <1>1, <1>2 DEF ObjType
<1>4. \/ WriteFails
      \/ obj[hreq].out # <<>> /\ ~blocked /\ SendDone
      \/ obj[hreq].out # <<>> /\ (blocked \/ MayBlock) /\ WriteBlocked
  BY DEF Flush
<1>5. PICK f \in Request : /\ RequestFree(hreq) = [obj EXCEPT ![hreq] = f]
                           /\ f = [obj[hreq] EXCEPT !.state = "freed"]
  BY <1>1, <1>2, FieldIs
<1>6. SameRequest(f, obj[hreq]) /\ f.state = "freed" /\ f.uri = obj[hreq].uri
  BY <1>3, <1>5 DEF SameRequest, Request
<1>7. CASE WriteFails
  <2>1. FlushFails
    BY <1>7 DEF WriteFails, FlushFails
  <2> QED BY <1>1, <2>1 DEF FlushEffect
<1>8. CASE obj[hreq].out # <<>> /\ ~blocked /\ SendDone
  <2>1. CASE obj[hreq].close
    <3>1. /\ obj' = RequestFree(hreq) /\ replies' = replies \o obj[hreq].out
          /\ open' = FALSE /\ hreq' = 0 /\ wtimer' = FALSE /\ pc' = "return"
          /\ UNCHANGED <<status, buf, ec, blocked, whandler, wactive>>
      BY <1>8, <2>1 DEF SendDone, NeedClose
    <3>2. Edit(hreq, f)
      BY <1>5, <3>1 DEF Edit
    <3>3. FlushCloses
      BY <1>6, <1>8, <2>1, <3>1, <3>2 DEF FlushCloses
    <3> QED BY <1>1, <3>3 DEF FlushEffect
  <2>2. CASE ~obj[hreq].close
    <3>1. /\ obj' = [RequestFree(hreq) EXCEPT ![hreq + 1] = NewReq]
          /\ replies' = replies \o obj[hreq].out /\ pc' = "return"
          /\ hreq' = hreq + 1 /\ status' = "first" /\ buf' = <<>>
          /\ UNCHANGED <<open, ec, blocked, wvars>>
      BY <1>8, <2>2 DEF SendDone, NeedClose, wvars
    <3>2. obj' = [[obj EXCEPT ![hreq] = f] EXCEPT ![hreq + 1] = NewReq]
      BY <1>5, <3>1
    <3>3. FlushGoesOn
      BY <1>6, <1>8, <2>2, <3>1, <3>2 DEF FlushGoesOn
    <3> QED BY <1>1, <3>3 DEF FlushEffect
  <2> QED BY <2>1, <2>2
<1>9. CASE obj[hreq].out # <<>> /\ (blocked \/ MayBlock) /\ WriteBlocked
  <2>1. /\ pc' = "return" /\ blocked' = TRUE /\ UNCHANGED <<hvars, ec, buf, replies>>
        /\ whandler' = TRUE /\ wactive' = TRUE /\ wtimer' = TRUE
        /\ obj' = IF blocked THEN obj ELSE [obj EXCEPT ![hreq].blocks = @ + 1]
    BY <1>9 DEF WriteBlocked, BlockedTimed
  <2>2. \E p : /\ Edit(hreq, p) /\ SameRequest(p, obj[hreq])
               /\ p.state = obj[hreq].state /\ p.attached = obj[hreq].attached
               /\ p.uri = obj[hreq].uri /\ p.userdone = obj[hreq].userdone
    <3>1. CASE blocked
      <4>1. obj' = [obj EXCEPT ![hreq] = obj[hreq]]
        BY <1>3, <2>1, <3>1
      <4> QED BY <1>3, <4>1 DEF Edit, SameRequest
    <3>2. CASE ~blocked
      <4>1. obj[hreq].blocks < Blocks
        BY <1>9, <3>2 DEF MayBlock
      <4>2. PICK p \in Request :
              /\ [obj EXCEPT ![hreq].blocks = @ + 1] = [obj EXCEPT ![hreq] = p]
              /\ p = [obj[hreq] EXCEPT !.blocks = @ + 1]
        BY <1>1, <1>2, <4>1, FieldIs
      <4>3. Edit(hreq, p)
        BY <2>1, <3>2, <4>2 DEF Edit
      <4>4. /\ SameRequest(p, obj[hreq])
            /\ p.state = obj[hreq].state /\ p.attached = obj[hreq].attached
            /\ p.uri = obj[hreq].uri /\ p.userdone = obj[hreq].userdone
        BY <1>3, <4>2 DEF SameRequest, Request
      <4> QED BY <4>3, <4>4
    <3> QED BY <3>1, <3>2
  <2>3. FlushWaits
    BY <1>9, <2>1, <2>2 DEF FlushWaits
  <2> QED BY <1>1, <2>3 DEF FlushEffect
<1> QED BY <1>4, <1>7, <1>8, <1>9

FailEffect ==
  /\ pc = "fail"
  /\ UNCHANGED <<call, status, pending, whandler, wactive, buf, svars, clvars, hist>>
  /\ \E p :
       /\ Edit(hreq, p) /\ SameRequest(p, obj[hreq])
       /\ p.userdone = obj[hreq].userdone
       /\ \/ /\ ec = "INVALID" /\ pc' = "handle" /\ UNCHANGED <<open, hreq, wtimer>>
             /\ p.state = obj[hreq].state /\ p.attached = obj[hreq].attached
             /\ p.uri = FALSE
          \/ /\ ec # "INVALID" /\ pc' = "return" /\ open' = FALSE /\ hreq' = 0
             /\ wtimer' = FALSE
             /\ p.uri = obj[hreq].uri
             /\ \/ /\ ~obj[hreq].userdone /\ p.state = obj[hreq].state
                   /\ p.attached = FALSE
                \/ obj[hreq].userdone /\ p.state = "freed"

LEMMA FailIs ==
  ASSUME TypeOK, OwnInv, ConnFail
  PROVE  FailEffect
<1>1. /\ pc = "fail" /\ ObjType
      /\ UNCHANGED <<call, status, pending, whandler, wactive, buf, svars, clvars, hist>>
  BY DEF ConnFail, TypeOK
<1>2. hreq \in Obj
  BY <1>1, Connected
<1>3. obj[hreq] \in Request /\ obj \in [Obj -> Request]
  BY <1>1, <1>2 DEF ObjType
<1>4. CASE ec = "INVALID"
  <2>1. /\ obj' = [obj EXCEPT ![hreq].uri = FALSE]
        /\ pc' = "handle" /\ UNCHANGED <<open, hreq, wtimer>>
    BY <1>4 DEF ConnFail
  <2>2. PICK p \in Request :
          /\ [obj EXCEPT ![hreq].uri = FALSE] = [obj EXCEPT ![hreq] = p]
          /\ p = [obj[hreq] EXCEPT !.uri = FALSE]
    BY <1>1, <1>2, FieldIs
  <2>3. /\ SameRequest(p, obj[hreq]) /\ p.uri = FALSE
        /\ p.state = obj[hreq].state /\ p.attached = obj[hreq].attached
        /\ p.userdone = obj[hreq].userdone
    BY <1>3, <2>2 DEF SameRequest, Request
  <2>4. Edit(hreq, p)
    BY <2>1, <2>2 DEF Edit
  <2> QED BY <1>1, <1>4, <2>1, <2>3, <2>4 DEF FailEffect
<1>5. CASE ec # "INVALID"
  <2>1. /\ obj' = IF ~obj[hreq].userdone THEN [obj EXCEPT ![hreq].attached = FALSE]
                  ELSE RequestFree(hreq)
        /\ pc' = "return" /\ open' = FALSE /\ hreq' = 0 /\ wtimer' = FALSE
    BY <1>5 DEF ConnFail, Detach
  <2>2. CASE ~obj[hreq].userdone
    <3>1. PICK p \in Request :
            /\ [obj EXCEPT ![hreq].attached = FALSE] = [obj EXCEPT ![hreq] = p]
            /\ p = [obj[hreq] EXCEPT !.attached = FALSE]
      BY <1>1, <1>2, FieldIs
    <3>2. /\ SameRequest(p, obj[hreq]) /\ p.uri = obj[hreq].uri
          /\ p.state = obj[hreq].state /\ p.attached = FALSE
          /\ p.userdone = obj[hreq].userdone
      BY <1>3, <3>1 DEF SameRequest, Request
    <3>3. Edit(hreq, p)
      BY <2>1, <2>2, <3>1 DEF Edit
    <3> QED BY <1>1, <1>5, <2>1, <2>2, <3>2, <3>3 DEF FailEffect
  <2>3. CASE obj[hreq].userdone
    <3>1. PICK p \in Request : /\ RequestFree(hreq) = [obj EXCEPT ![hreq] = p]
                               /\ p = [obj[hreq] EXCEPT !.state = "freed"]
      BY <1>1, <1>2, FieldIs
    <3>2. /\ SameRequest(p, obj[hreq]) /\ p.uri = obj[hreq].uri /\ p.state = "freed"
          /\ p.userdone = obj[hreq].userdone
      BY <1>3, <3>1 DEF SameRequest, Request
    <3>3. Edit(hreq, p)
      BY <2>1, <2>3, <3>1 DEF Edit
    <3> QED BY <1>1, <1>5, <2>1, <2>3, <3>2, <3>3 DEF FailEffect
  <2> QED BY <2>2, <2>3
<1> QED BY <1>4, <1>5

ReturnEffect ==
  /\ pc = "return" /\ clear' = 0 /\ wnext' = FALSE
  /\ pc' \in {"write", "loop"} /\ (pc' = "write" => open)
  /\ UNCHANGED <<ec, hvars, pending, wvars, buf, svars, clvars, replies, cut, late>>
  /\ \/ UNCHANGED <<obj, fault>>
     \/ /\ clear # 0 /\ UNCHANGED obj
        /\ fault' = fault \cup {<<"clear", kind[obj[clear].req]>>}
     \/ /\ clear # 0 /\ UNCHANGED fault
        /\ \E p : /\ Edit(clear, p) /\ SameRequest(p, obj[clear]) /\ p.uri = FALSE
                  /\ p.state = obj[clear].state /\ p.attached = obj[clear].attached
                  /\ p.userdone = obj[clear].userdone

LEMMA ReturnIs ==
  ASSUME TypeOK, Return
  PROVE  ReturnEffect
<1>1. /\ pc = "return" /\ clear' = 0 /\ wnext' = FALSE
      /\ pc' \in {"write", "loop"} /\ (pc' = "write" => open)
      /\ UNCHANGED <<ec, hvars, pending, wvars, buf, svars, clvars, replies, cut, late>>
  BY DEF Return
<1>2. CASE clear = 0
  BY <1>1, <1>2 DEF Return, ReturnEffect
<1>3. CASE clear # 0 /\ obj[clear].state = "freed"
  BY <1>1, <1>3 DEF Return, ReturnEffect
<1>4. CASE clear # 0 /\ obj[clear].state # "freed"
  <2>1. ObjType /\ clear \in Obj /\ obj[clear] \in Request
    BY <1>4 DEF TypeOK, ObjType, CallType
  <2>2. obj' = [obj EXCEPT ![clear].uri = FALSE] /\ UNCHANGED fault
    BY <1>4 DEF Return
  <2>3. PICK p \in Request :
          /\ [obj EXCEPT ![clear].uri = FALSE] = [obj EXCEPT ![clear] = p]
          /\ p = [obj[clear] EXCEPT !.uri = FALSE]
    BY <2>1, FieldIs
  <2>4. /\ SameRequest(p, obj[clear]) /\ p.uri = FALSE
        /\ p.state = obj[clear].state /\ p.attached = obj[clear].attached
        /\ p.userdone = obj[clear].userdone
    BY <2>1, <2>3 DEF SameRequest, Request
  <2>5. Edit(clear, p)
    BY <2>2, <2>3 DEF Edit
  <2> QED BY <1>1, <1>4, <2>2, <2>4, <2>5 DEF ReturnEffect
<1> QED BY <1>2, <1>3, <1>4

AcceptEffect ==
  /\ pc = "accept" /\ pc' = "loop"
  /\ UNCHANGED <<call, status, pending, wvars, buf, svars, clvars, hist>>
  /\ \/ open' = TRUE /\ hreq' = 1 /\ 1 \in Obj /\ Edit(1, NewReq)
     \/ UNCHANGED <<open, hreq, obj>>

LEMMA AcceptIs == TypeOK /\ Accept => AcceptEffect
<1>1. 1 \in Obj
  BY DEF Obj
<1> QED BY <1>1, NewReqIs DEF Accept, AcceptEffect, Edit

(* Events, timers and the client's reading and leaving change no object    *)
(* and consume nothing.                                                    *)
IdleEffect ==
  /\ UNCHANGED <<hvars, obj, pending, buf, sock, clvars, replies, cut, fault, clear>>
  /\ (eof => eof') /\ (blocked' => blocked) /\ (wtimer' => wtimer)
  /\ \/ UNCHANGED <<pc, ec>>
     \/ pc = "loop" /\ pc' \in {"read", "write"} /\ open /\ UNCHANGED ec
     \/ pc = "write" /\ pc' \in {"flush", "return"} /\ UNCHANGED ec
     \/ pc = "loop" /\ wtimer /\ pc' = "fail" /\ ec' = "WRITE_TIMEOUT"

IdleStep == Event \/ WriteHandler \/ WriteTimer \/ ClientReads \/ ClientLeaves
              \/ UNCHANGED vars

LEMMA IdleIs == IdleStep => IdleEffect
<1> USE DEF IdleEffect, hvars, wvars, svars, clvars, hist, call
<1>1. CASE Event
  BY <1>1 DEF Event
<1>2. CASE WriteHandler
  BY <1>2 DEF WriteHandler
<1>3. CASE WriteTimer
  BY <1>3 DEF WriteTimer
<1>4. CASE ClientReads
  BY <1>4 DEF ClientReads, ClientUnchanged
<1>5. CASE ClientLeaves
  BY <1>5 DEF ClientLeaves, ClientUnchanged
<1>6. CASE UNCHANGED vars
  BY <1>6 DEF vars
<1> QED BY <1>1, <1>2, <1>3, <1>4, <1>5, <1>6 DEF IdleStep

SendEffect ==
  /\ pc = "loop" /\ open /\ ~eof
  /\ UNCHANGED <<pc, call, hvars, obj, pending, wvars, buf, hist, blocked, eof>>
  /\ sock' = Append(sock, <<creq', cpiece'>>)
  /\ \/ /\ creq > 0 /\ cpiece < Pieces(kind[creq])
        /\ creq' = creq /\ cpiece' = cpiece + 1 /\ UNCHANGED <<kind, keep, piped>>
     \/ /\ creq > 0 => ~(cpiece < Pieces(kind[creq]))
        /\ creq < MaxReq /\ creq' = creq + 1 /\ cpiece' = 1
        /\ ~piped' => ~piped /\ Waited
        /\ \E k \in Kinds, b \in BOOLEAN :
             /\ kind' = [kind EXCEPT ![creq + 1] = k]
             /\ keep' = [keep EXCEPT ![creq + 1] = b]

LEMMA SendIs == ClientSend => SendEffect
  BY DEF ClientSend, SendEffect, ClientUnchanged

Cases ==
  \/ AcceptEffect \/ ReturnEffect \/ ReadHandler \/ HandleEffect \/ NothingEffect
  \/ FlushEffect \/ FailEffect \/ IdleEffect \/ SendEffect
  \/ \E o \in Obj : ReplyEffect(o)

(* Every step has one of these effects. *)
LEMMA StepIs ==
  ASSUME TypeOK, OwnInv, [Next]_vars
  PROVE  Cases
<1>1. CASE Accept
  BY <1>1, AcceptIs DEF Cases
<1>2. CASE Return
  BY <1>2, ReturnIs DEF Cases
<1>3. CASE ReadHandler
  BY <1>3 DEF Cases
<1>4. CASE HandleRequest
  BY <1>4, HandleIs DEF Cases
<1>5. CASE HandleNothing
  BY <1>5, NothingIs DEF Cases
<1>6. CASE Flush
  BY <1>6, FlushIs DEF Cases
<1>7. CASE ConnFail
  BY <1>7, FailIs DEF Cases
<1>8. CASE IdleStep
  BY <1>8, IdleIs DEF Cases
<1>9. CASE ClientSend
  BY <1>9, SendIs DEF Cases
<1>10. CASE \E o \in Obj : Reply(o)
  BY <1>10, ReplyIs DEF Cases
<1> QED BY <1>1, <1>2, <1>3, <1>4, <1>5, <1>6, <1>7, <1>8, <1>9, <1>10
      DEF Next, Running, IdleStep

-----------------------------------------------------------------------------
(* Types.                                                                  *)

LEMMA FlagStep ==
  ASSUME TypeOK, [Next]_vars
  PROVE  FlagType'
<1> USE DEF TypeOK, FlagType, call, hvars, wvars, svars, clvars, hist
<1>1. CASE Accept \/ Return
  BY <1>1 DEF Accept, Return
<1>2. CASE ReadHandler
  <2>1. late' \in BOOLEAN
    BY <1>2 DEF ReadHandler
  <2> QED BY <1>2, <2>1 DEF ReadHandler, Reader
<1>3. CASE HandleRequest \/ HandleNothing
  BY <1>3 DEF HandleRequest, HandleNothing
<1>4. CASE Flush
  <2>1. CASE WriteFails
    BY <1>4, <2>1 DEF Flush, WriteFails
  <2>2. CASE SendDone
    BY <1>4, <2>2 DEF Flush, SendDone
  <2>3. CASE WriteBlocked
    BY <1>4, <2>3 DEF Flush, WriteBlocked, BlockedTimed
  <2> QED BY <1>4, <2>1, <2>2, <2>3 DEF Flush
<1>5. CASE WriteHandler \/ ConnFail
  BY <1>5 DEF WriteHandler, ConnFail
<1>6. CASE Event
  <2>1. wnext' \in BOOLEAN
    BY <1>6 DEF Event
  <2> QED BY <1>6, <2>1 DEF Event
<1>7. CASE WriteTimer \/ ClientReads \/ ClientLeaves
  BY <1>7 DEF WriteTimer, ClientReads, ClientLeaves, ClientUnchanged
<1>8. CASE \E o \in Obj : Reply(o)
  BY <1>8 DEF Reply
<1>9. CASE ClientSend
  <2>1. piped' \in BOOLEAN
    BY <1>9 DEF ClientSend
  <2>2. edge' = TRUE /\ UNCHANGED <<wedge, blocked, eof, reset, wnext, open, whandler,
          wactive, wtimer, late>>
    BY <1>9 DEF ClientSend, ClientUnchanged
  <2> QED BY <2>1, <2>2
<1>10. CASE UNCHANGED vars
  BY <1>10 DEF vars
<1> QED BY <1>1, <1>2, <1>3, <1>4, <1>5, <1>6, <1>7, <1>8, <1>9, <1>10
      DEF Next, Running

(* SendDone has an object left: the request that is answered without       *)
(* closing the connection is at least the hreq-th.                         *)
LEMMA RoomForNext ==
  ASSUME TypeOK, OwnInv, RankInv, FlushEffect, FlushGoesOn
  PROVE  hreq + 1 \in Obj /\ hreq \in Obj /\ obj[hreq].req >= hreq
<1>1. hreq # 0 /\ hreq \in Obj
  BY Connected DEF FlushEffect
<1>2. obj[hreq].req >= hreq
  BY <1>1 DEF RankInv, HasRequest, FlushGoesOn
<1>3. obj[hreq].req \in Req \cup {0}
  BY <1>1 DEF TypeOK, ObjType, Request
<1> QED BY <1>1, <1>2, <1>3 DEF Req, Obj

LEMMA CallStep ==
  ASSUME TypeOK, OwnInv, RankInv, [Next]_vars
  PROVE  CallType'
<1> USE DEF TypeOK, CallType, Code, call, hvars
<1>0. 1 \in Obj
  BY DEF Obj
<1>1. CASE AcceptEffect
  BY <1>0, <1>1 DEF AcceptEffect
<1>2. CASE ReturnEffect
  BY <1>2 DEF ReturnEffect
<1>3. CASE ReadHandler
  <2>1. /\ UNCHANGED <<clear, hreq>> /\ hreq \in Obj
        /\ ReadReset \/ ReadQuiet \/ ReadEnd \/ ReadBadLine \/ ReadOn \/ ReadResp
    BY <1>3, ReadEffect
  <2>2. ec' \in Code
    BY <1>3 DEF ReadHandler, EndOfFile, Wait, Done, ReadByStatus, ReadFirstline,
      ReadHeader, ReadResponse, ReadBody, Invalid
  <2>3. CASE ReadReset \/ ReadQuiet \/ ReadEnd \/ ReadBadLine
    BY <2>1, <2>2, <2>3 DEF ReadReset, ReadQuiet, ReadEnd, ReadBadLine
  <2>4. CASE ReadOn
    BY <2>1, <2>2, <2>4 DEF ReadOn, HeaderWait, HeaderBad, HeaderDone, BodyRead
  <2>5. CASE ReadResp
    BY <2>1, <2>2, <2>5, RespIs DEF RespEffect, RespEnds
  <2> QED BY <2>1, <2>3, <2>4, <2>5
<1>4. CASE HandleEffect
  BY <1>4, Connected DEF HandleEffect
<1>5. CASE NothingEffect
  BY <1>5 DEF NothingEffect
<1>6. CASE FlushEffect
  <2>1. CASE FlushGoesOn
    BY <1>6, <2>1, RoomForNext DEF FlushEffect, FlushGoesOn
  <2>2. CASE FlushFails \/ FlushCloses \/ FlushWaits
    BY <1>6, <2>2 DEF FlushEffect, FlushFails, FlushCloses, FlushWaits
  <2> QED BY <1>6, <2>1, <2>2 DEF FlushEffect
<1>7. CASE FailEffect
  BY <1>7 DEF FailEffect
<1>8. CASE IdleEffect
  BY <1>8 DEF IdleEffect
<1>9. CASE SendEffect
  BY <1>9 DEF SendEffect
<1>10. CASE \E o \in Obj : ReplyEffect(o)
  BY <1>10 DEF ReplyEffect
<1> QED BY <1>1, <1>2, <1>3, <1>4, <1>5, <1>6, <1>7, <1>8, <1>9, <1>10, StepIs
      DEF Cases

LEMMA ObjStep ==
  ASSUME TypeOK, OwnInv, RankInv, [Next]_vars
  PROVE  ObjType'
<1>0. ObjType /\ obj \in [Obj -> Request] /\ pending \in [Obj -> Nat]
  BY DEF TypeOK, ObjType
<1>a. ASSUME NEW x \in Obj, NEW p, Edit(x, p), pending' \in [Obj -> Nat]
      PROVE  ObjType'
  BY <1>0, <1>a, EditIs DEF ObjType
<1>b. ASSUME obj' = obj, pending' \in [Obj -> Nat] PROVE ObjType'
  BY <1>0, <1>b DEF ObjType
<1>1. CASE AcceptEffect
  BY <1>0, <1>1, <1>a, <1>b DEF AcceptEffect
<1>2. CASE ReturnEffect
  <2>1. clear # 0 => clear \in Obj
    BY DEF TypeOK, CallType
  <2> QED BY <1>0, <1>2, <1>a, <1>b, <2>1 DEF ReturnEffect
<1>3. CASE ReadHandler
  <2>1. /\ pending' = pending /\ hreq \in Obj
        /\ ReadReset \/ ReadQuiet \/ ReadEnd \/ ReadBadLine \/ ReadOn \/ ReadResp
    BY <1>3, ReadEffect
  <2>2. CASE ReadReset \/ ReadQuiet \/ ReadEnd
    BY <1>0, <1>b, <2>1, <2>2 DEF ReadReset, ReadQuiet, ReadEnd
  <2>3. CASE ReadBadLine
    <3>1. PICK i \in LineEnds(Unread) : obj' = [obj EXCEPT ![hreq].req = Unread[i][1]]
      BY <2>3 DEF ReadBadLine
    <3>2. Unread[i][1] \in Req \cup {0}
      BY <3>1, UnreadType, PieceParts DEF LineEnds
    <3>3. [obj[hreq] EXCEPT !.req = Unread[i][1]] \in Request
      BY <1>0, <2>1, <3>2, SetField
    <3>4. obj' = [obj EXCEPT ![hreq] = [obj[hreq] EXCEPT !.req = Unread[i][1]]]
      BY <1>0, <2>1, <3>1
    <3> QED BY <1>0, <1>a, <2>1, <3>3, <3>4 DEF Edit
  <2>4. CASE ReadOn
    <3>1. PICK o, p : Kept(p, o) /\ obj' = [obj EXCEPT ![hreq] = p]
      BY <2>4 DEF ReadOn
    <3>2. Edit(hreq, p)
      BY <3>1 DEF Edit, Kept
    <3> QED BY <1>0, <1>a, <2>1, <3>2
  <2>5. CASE ReadResp
    BY <1>0, <2>1, <2>5, RespIs DEF RespEffect, ObjType
  <2> QED BY <2>1, <2>2, <2>3, <2>4, <2>5
<1>4. CASE HandleEffect
  <2>1. hreq \in Obj
    BY <1>4, Connected DEF HandleEffect
  <2>2. pending' \in [Obj -> Nat]
    BY <1>0, <1>4, <2>1 DEF HandleEffect
  <2> QED BY <1>4, <1>a, <2>1, <2>2 DEF HandleEffect
<1>5. CASE NothingEffect
  <2>1. hreq \in Obj
    BY <1>5, Connected DEF NothingEffect
  <2> QED BY <1>0, <1>5, <1>a, <1>b, <2>1 DEF NothingEffect
<1>6. CASE FlushEffect
  <2>1. hreq \in Obj /\ pending' = pending
    BY <1>6, Connected DEF FlushEffect
  <2>2. CASE FlushGoesOn
    <3>1. hreq + 1 \in Obj
      BY <1>6, <2>2, RoomForNext
    <3>2. PICK p \in Request : obj' = [[obj EXCEPT ![hreq] = p] EXCEPT ![hreq + 1] = NewReq]
      BY <2>2 DEF FlushGoesOn
    <3>3. obj' \in [Obj -> Request]
      BY <1>0, <2>1, <3>1, <3>2, NewReqIs
    <3> QED BY <1>0, <2>1, <3>3 DEF ObjType
  <2>3. CASE FlushFails
    BY <1>0, <1>b, <2>1, <2>3 DEF FlushFails
  <2>4. CASE FlushCloses \/ FlushWaits
    BY <1>0, <1>a, <2>1, <2>4 DEF FlushCloses, FlushWaits
  <2> QED BY <1>6, <2>2, <2>3, <2>4 DEF FlushEffect
<1>7. CASE FailEffect
  <2>1. hreq \in Obj
    BY <1>7, Connected DEF FailEffect
  <2> QED BY <1>0, <1>7, <1>a, <2>1 DEF FailEffect
<1>8. CASE IdleEffect
  BY <1>0, <1>8, <1>b DEF IdleEffect
<1>9. CASE SendEffect
  BY <1>0, <1>9, <1>b DEF SendEffect
<1>10. CASE \E o \in Obj : ReplyEffect(o)
  <2>1. PICK o \in Obj : ReplyEffect(o)
    BY <1>10
  <2>2. pending' \in [Obj -> Nat]
    BY <1>0, <2>1 DEF ReplyEffect
  <2> QED BY <1>a, <1>b, <2>1, <2>2 DEF ReplyEffect
<1> QED BY <1>1, <1>2, <1>3, <1>4, <1>5, <1>6, <1>7, <1>8, <1>9, <1>10, StepIs
      DEF Cases

LEMMA PiecesIs == \A k : Pieces(k) \in 3..5
  BY DEF Pieces

(* A request that has a uri is one of the client's. *)
LEMMA ParsedReq ==
  ASSUME TypeOK, RankInv, hreq \in Obj,
         \/ obj[hreq].uri \/ pending[hreq] > 0
         \/ status \in {"headers", "body"} /\ ~obj[hreq].resp
  PROVE  obj[hreq].req \in Req /\ obj[hreq].req >= hreq /\ hreq \in Nat /\ hreq >= 1
<1>1. hreq # 0 /\ hreq \in Nat /\ hreq >= 1
  BY DEF Obj
<1>2. obj[hreq].req \in Req \cup {0}
  BY DEF TypeOK, ObjType, Request
<1>3. obj[hreq].req >= hreq
  BY <1>1 DEF RankInv, HasRequest
<1> QED BY <1>1, <1>2, <1>3 DEF Req

LEMMA DataStep ==
  ASSUME TypeOK, OwnInv, RankInv, HandsInv, ClearInv, [Next]_vars
  PROVE  DataType'
<1>0. DataType /\ ObjType /\ Unread \in Seq(Piece) /\ <<>> \in Seq(Piece)
  BY UnreadType DEF TypeOK
<1>t. /\ buf \in Seq(Piece) /\ sock \in Seq(Piece)
      /\ kind \in [Req -> Kind] /\ keep \in [Req -> BOOLEAN]
      /\ creq \in Req \cup {0} /\ cpiece \in 0..5
      /\ replies \in Seq(Req \cup {0}) /\ cut \subseteq Req
      /\ fault \subseteq {"clear", "reply"} \X Kind
  BY <1>0 DEF DataType
<1> USE DEF call, hvars, wvars, svars, clvars, hist
<1>a. ASSUME buf' \in Seq(Piece), sock' \in Seq(Piece), UNCHANGED clvars,
             replies' \in Seq(Req \cup {0}), cut' \subseteq Req,
             fault' \subseteq {"clear", "reply"} \X Kind
      PROVE  DataType'
  BY <1>t, <1>a DEF DataType
<1>1. CASE AcceptEffect
  BY <1>1, <1>t, <1>a DEF AcceptEffect
<1>2. CASE ReturnEffect
  <2>1. clear # 0 => kind[obj[clear].req] \in Kind
    BY DEF ClearInv, Kind
  <2>2. fault' \subseteq {"clear", "reply"} \X Kind
    BY <1>2, <1>t, <2>1 DEF ReturnEffect
  <2> QED BY <1>2, <1>t, <1>a, <2>2 DEF ReturnEffect
<1>3. CASE ReadHandler
  <2>1. /\ sock' = <<>> /\ UNCHANGED <<clvars, replies, cut, fault>> /\ hreq \in Obj
        /\ ReadReset \/ ReadQuiet \/ ReadEnd \/ ReadBadLine \/ ReadOn \/ ReadResp
    BY <1>3, ReadEffect
  <2>2. CASE ReadReset \/ ReadQuiet \/ ReadEnd
    <3>1. buf' \in Seq(Piece)
      BY <1>0, <1>t, <2>2 DEF ReadReset, ReadQuiet, ReadEnd
    <3> QED BY <1>0, <1>t, <1>a, <2>1, <3>1
  <2>3. CASE ReadBadLine
    <3>1. PICK i \in DOMAIN Unread : buf' = SubSeq(Unread, i + 1, Len(Unread))
      BY <2>3 DEF ReadBadLine, LineEnds
    <3>2. i \in 0..Len(Unread)
      BY <1>0, <3>1
    <3>3. buf' \in Seq(Piece)
      BY <1>0, <3>1, <3>2, SuffixSub DEF Suffix
    <3> QED BY <1>0, <1>t, <1>a, <2>1, <3>3
  <2>4. CASE ReadOn
    <3>1. buf' \in Seq(Piece)
      BY <2>4 DEF ReadOn, Suffix
    <3> QED BY <1>0, <1>t, <1>a, <2>1, <3>1
  <2>5. CASE ReadResp
    <3>1. buf' \in Seq(Piece)
      BY <2>1, <2>5, RespIs DEF RespEffect, Suffix
    <3> QED BY <1>0, <1>t, <1>a, <2>1, <3>1
  <2> QED BY <2>1, <2>2, <2>3, <2>4, <2>5
<1>4. CASE HandleEffect
  <2>1. hreq \in Obj
    BY <1>4, Connected DEF HandleEffect
  <2>2. obj[hreq].req \in Req
    BY <1>4, <2>1, ParsedReq DEF HandleEffect
  <2>3. cut' \subseteq Req
    BY <1>4, <1>t, <2>2 DEF HandleEffect
  <2> QED BY <1>4, <1>t, <1>a, <2>3 DEF HandleEffect
<1>5. CASE NothingEffect
  BY <1>5, <1>t, <1>a DEF NothingEffect
<1>6. CASE FlushEffect
  <2>1. /\ buf' \in Seq(Piece)
        /\ replies' = replies \/ replies' = replies \o obj[hreq].out
    BY <1>0, <1>6, <1>t DEF FlushEffect, FlushFails, FlushCloses, FlushGoesOn, FlushWaits
  <2>2. obj[hreq].out \in Seq(Req \cup {0})
    <3>1. hreq \in Obj
      BY <1>6, Connected DEF FlushEffect
    <3> QED BY <1>0, <3>1 DEF ObjType, Request
  <2>3. replies' \in Seq(Req \cup {0})
    <3>1. replies \o obj[hreq].out \in Seq(Req \cup {0})
      BY <1>t, <2>2, ConcatProperties
    <3> QED BY <1>t, <2>1, <3>1
  <2> QED BY <1>6, <1>t, <1>a, <2>1, <2>3 DEF FlushEffect
<1>7. CASE FailEffect
  BY <1>7, <1>t, <1>a DEF FailEffect
<1>8. CASE IdleEffect
  BY <1>8, <1>t, <1>a DEF IdleEffect
<1>9. CASE SendEffect
  <2>1. creq' \in Req \cup {0} /\ cpiece' \in 0..5 /\ creq' \in Req /\ cpiece' \in 1..5
    <3>1. CASE creq > 0 /\ cpiece < Pieces(kind[creq]) /\ creq' = creq /\ cpiece' = cpiece + 1
      <4>1. Pieces(kind[creq]) \in 3..5
        BY PiecesIs
      <4>2. cpiece + 1 \in 1..5
        BY <1>t, <3>1, <4>1
      <4> QED BY <1>t, <3>1, <4>2 DEF Req
    <3>2. CASE creq < MaxReq /\ creq' = creq + 1 /\ cpiece' = 1
      BY <1>t, <3>2 DEF Req
    <3> QED BY <1>9, <3>1, <3>2 DEF SendEffect
  <2>2. sock' \in Seq(Piece)
    <3>1. <<creq', cpiece'>> \in Piece
      BY <2>1 DEF Piece
    <3> QED BY <1>9, <1>t, <3>1, AppendProperties DEF SendEffect
  <2>3. kind' \in [Req -> Kind] /\ keep' \in [Req -> BOOLEAN]
    BY <1>9, <1>t DEF SendEffect
  <2> QED BY <1>9, <1>t, <2>1, <2>2, <2>3 DEF SendEffect, DataType
<1>10. CASE \E o \in Obj : ReplyEffect(o)
  <2>1. PICK o \in Obj : ReplyEffect(o)
    BY <1>10
  <2>2. kind[obj[o].req] \in Kind
    <3>1. obj[o].req \in Req \cup {0}
      BY <1>0 DEF ObjType, Request
    <3>2. obj[o].req # 0
      BY <2>1 DEF ReplyEffect, HandsInv
    <3> QED BY <1>t, <3>1, <3>2
  <2>3. fault' \subseteq {"clear", "reply"} \X Kind
    BY <1>t, <2>1, <2>2 DEF ReplyEffect
  <2> QED BY <1>t, <1>a, <2>1, <2>3 DEF ReplyEffect
<1> QED BY <1>1, <1>2, <1>3, <1>4, <1>5, <1>6, <1>7, <1>8, <1>9, <1>10, StepIs
      DEF Cases

LEMMA TypeStep ==
  ASSUME TypeOK, OwnInv, RankInv, HandsInv, ClearInv, [Next]_vars
  PROVE  TypeOK'
  BY CallStep, FlagStep, ObjStep, DataStep DEF TypeOK

-----------------------------------------------------------------------------
(* Who owns the objects.                                                   *)

LEMMA OwnStep ==
  ASSUME TypeOK, TypeOK', OwnInv, StatusInv, RankInv, [Next]_vars
  PROVE  OwnInv'
<1>0. /\ ObjType /\ ObjType' /\ pending \in [Obj -> Nat] /\ pending' \in [Obj -> Nat]
      /\ hreq \in Obj \cup {0} /\ Obj \subseteq Nat \ {0}
  BY DEF TypeOK, ObjType, CallType, Obj
<1> USE DEF call, hvars, wvars, svars, clvars, hist
<1>1. CASE AcceptEffect
  <2>1. CASE UNCHANGED <<open, hreq, obj>>
    BY <1>0, <1>1, <2>1 DEF AcceptEffect, OwnInv
  <2>2. CASE open' = TRUE /\ hreq' = 1 /\ 1 \in Obj /\ Edit(1, NewReq)
    <3>1. obj'[1] = NewReq /\ \A q \in Obj : q # 1 => obj'[q] = obj[q]
      BY <1>0, <2>2, EditIs
    <3>2. NewReq.state = "live" /\ NewReq.attached = TRUE /\ NewReq.userdone = TRUE
      BY DEF NewReq
    <3> QED BY <1>0, <1>1, <2>2, <3>1, <3>2 DEF AcceptEffect, OwnInv
  <2> QED BY <1>1, <2>1, <2>2 DEF AcceptEffect
<1>2. CASE ReturnEffect
  <2>1. \A q \in Obj : /\ obj'[q].state = obj[q].state /\ obj'[q].attached = obj[q].attached
                       /\ obj'[q].userdone = obj[q].userdone
    <3>1. CASE UNCHANGED obj
      BY <3>1
    <3>2. ASSUME NEW p, clear # 0, Edit(clear, p), p.state = obj[clear].state,
                 p.attached = obj[clear].attached, p.userdone = obj[clear].userdone
          PROVE  \A q \in Obj : /\ obj'[q].state = obj[q].state
                                /\ obj'[q].attached = obj[q].attached
                                /\ obj'[q].userdone = obj[q].userdone
      <4>1. clear \in Obj
        BY <3>2 DEF TypeOK, CallType
      <4>2. obj'[clear] = p /\ \A q \in Obj : q # clear => obj'[q] = obj[q]
        BY <1>0, <3>2, <4>1, EditIs
      <4> QED BY <3>2, <4>2
    <3> QED BY <1>2, <3>1, <3>2 DEF ReturnEffect
  <2> QED BY <1>0, <1>2, <2>1 DEF ReturnEffect, OwnInv
<1>3. CASE ReadHandler
  <2>1. /\ pc = "read" /\ hreq \in Obj /\ UNCHANGED <<open, hreq, pending, wvars>>
        /\ ReadReset \/ ReadQuiet \/ ReadEnd \/ ReadBadLine \/ ReadOn \/ ReadResp
    BY <1>3, ReadEffect
  <2>2. \A q \in Obj : /\ obj'[q].state = obj[q].state /\ obj'[q].attached = obj[q].attached
                       /\ obj'[q].userdone = obj[q].userdone
    <3>1. CASE ReadReset \/ ReadQuiet \/ ReadEnd
      BY <3>1 DEF ReadReset, ReadQuiet, ReadEnd
    <3>2. CASE ReadBadLine
      BY <1>0, <2>1, <3>2 DEF ReadBadLine, ObjType, Request
    <3>3. CASE ReadOn
      <4>1. PICK o, rest, p : Started(o, rest) /\ Kept(p, o) /\ obj' = [obj EXCEPT ![hreq] = p]
        BY <3>3 DEF ReadOn
      <4>2. Edit(hreq, p)
        BY <4>1 DEF Edit, Kept
      <4>3. obj'[hreq] = p /\ \A q \in Obj : q # hreq => obj'[q] = obj[q]
        BY <1>0, <2>1, <4>2, EditIs
      <4>4. p.state = obj[hreq].state /\ p.attached = obj[hreq].attached
            /\ p.userdone = obj[hreq].userdone
        BY <4>1 DEF Started, Kept
      <4> QED BY <4>3, <4>4
    <3>4. CASE ReadResp
      BY <2>1, <3>4, RespIs DEF RespEffect, Kept
    <3> QED BY <2>1, <3>1, <3>2, <3>3, <3>4
  <2>3. pc' # "accept" /\ pc' # "loop"
    BY <2>1 DEF ReadReset, ReadQuiet, ReadEnd, ReadBadLine, ReadOn, HeaderWait, HeaderBad,
      HeaderDone, BodyRead, ReadResp, RespEnds
  <2> QED BY <1>0, <2>1, <2>2, <2>3 DEF OwnInv
<1>4. CASE HandleEffect
  <2>1. hreq \in Obj /\ open
    BY <1>4, Connected DEF HandleEffect
  <2>2. PICK p : /\ Edit(hreq, p) /\ p.state = obj[hreq].state
                 /\ p.attached = obj[hreq].attached
                 /\ \/ pending' = [pending EXCEPT ![hreq] = @ + 1]
                    \/ p.userdone = TRUE /\ UNCHANGED pending
    BY <1>4 DEF HandleEffect, Answered
  <2>3. obj'[hreq] = p /\ \A q \in Obj : q # hreq => obj'[q] = obj[q]
    BY <1>0, <2>1, <2>2, EditIs
  <2>4. /\ \A q \in Obj : q # hreq => pending'[q] = pending[q]
        /\ pending'[hreq] > 0 \/ p.userdone = TRUE
    BY <1>0, <2>1, <2>2
  <2>5. pc' \in {"return", "flush"} /\ UNCHANGED <<open, hreq, wtimer>>
    BY <1>4 DEF HandleEffect
  <2> QED BY <1>0, <2>1, <2>2, <2>3, <2>4, <2>5 DEF OwnInv
<1>5. CASE NothingEffect
  <2>1. hreq \in Obj /\ open /\ UNCHANGED <<open, hreq, wtimer, pending>>
        /\ pc' \in {"flush", "fail"}
    BY <1>5, Connected DEF NothingEffect
  <2>2. CASE UNCHANGED obj
    BY <1>0, <2>1, <2>2 DEF OwnInv
  <2>3. ASSUME NEW p, Edit(hreq, p), Answered(p, obj[hreq]) PROVE OwnInv'
    <3>1. obj'[hreq] = p /\ \A q \in Obj : q # hreq => obj'[q] = obj[q]
      BY <1>0, <2>1, <2>3, EditIs
    <3>2. p.userdone = TRUE /\ p.state = obj[hreq].state /\ p.attached = obj[hreq].attached
      BY <2>3 DEF Answered
    <3> QED BY <1>0, <2>1, <3>1, <3>2 DEF OwnInv
  <2> QED BY <1>5, <2>2, <2>3 DEF NothingEffect
<1>6. CASE FlushEffect
  <2>1. hreq \in Obj /\ open /\ UNCHANGED pending /\ hreq \in Nat /\ pc = "flush"
    BY <1>6, Connected DEF FlushEffect
  <2>2. CASE FlushFails
    BY <1>0, <2>1, <2>2 DEF FlushFails, OwnInv
  <2>3. CASE FlushCloses
    <3>1. PICK p : Edit(hreq, p) /\ p.state = "freed"
      BY <2>3 DEF FlushCloses
    <3>2. obj'[hreq] = p /\ \A q \in Obj : q # hreq => obj'[q] = obj[q]
      BY <1>0, <2>1, <3>1, EditIs
    <3>3. open' = FALSE /\ hreq' = 0 /\ wtimer' = FALSE /\ pc' = "return"
      BY <2>3 DEF FlushCloses
    <3> QED BY <1>0, <2>1, <3>1, <3>2, <3>3 DEF OwnInv
  <2>4. CASE FlushGoesOn
    <3>1. hreq + 1 \in Obj
      BY <1>6, <2>4, RoomForNext
    <3>2. PICK p \in Request : /\ p.state = "freed"
              /\ obj' = [[obj EXCEPT ![hreq] = p] EXCEPT ![hreq + 1] = NewReq]
      BY <2>4 DEF FlushGoesOn
    <3>3. /\ obj'[hreq] = p /\ obj'[hreq + 1] = NewReq
          /\ \A q \in Obj : q # hreq /\ q # hreq + 1 => obj'[q] = obj[q]
      BY <1>0, <2>1, <3>1, <3>2 DEF ObjType
    <3>4. NewReq.state = "live" /\ NewReq.attached = TRUE /\ NewReq.userdone = TRUE
      BY DEF NewReq
    <3>5. open' = open /\ hreq' = hreq + 1 /\ pc' = "return"
      BY <2>4 DEF FlushGoesOn
    <3>6. ASSUME NEW q \in Obj
          PROVE  /\ q = hreq' => obj'[q].state = "live" /\ obj'[q].attached
                 /\ obj'[q].state = "live" /\ q # hreq'
                      => ~obj'[q].attached /\ pending'[q] > 0
                 /\ obj'[q].state = "live" /\ ~obj'[q].userdone => pending'[q] > 0
                 /\ hreq' # 0 /\ q > hreq' => pending'[q] = 0
      <4>1. CASE q = hreq
        BY <2>1, <3>2, <3>3, <3>5, <4>1
      <4>2. CASE q = hreq + 1
        BY <2>1, <3>3, <3>4, <3>5, <4>2
      <4>3. CASE q # hreq /\ q # hreq + 1
        <5>1. obj'[q] = obj[q] /\ pending'[q] = pending[q] /\ q # hreq'
          BY <2>1, <3>3, <3>5, <4>3
        <5>2. q > hreq + 1 => q > hreq
          BY <1>0, <2>1
        <5> QED BY <1>0, <2>1, <3>5, <4>3, <5>1, <5>2 DEF OwnInv
      <4> QED BY <4>1, <4>2, <4>3
    <3>7. hreq' # 0 /\ open'
      BY <2>1, <3>5
    <3> QED BY <3>5, <3>6, <3>7 DEF OwnInv
  <2>5. CASE FlushWaits
    <3>1. PICK p : Edit(hreq, p) /\ p.state = obj[hreq].state
                   /\ p.attached = obj[hreq].attached /\ p.userdone = obj[hreq].userdone
      BY <2>5 DEF FlushWaits
    <3>2. obj'[hreq] = p /\ \A q \in Obj : q # hreq => obj'[q] = obj[q]
      BY <1>0, <2>1, <3>1, EditIs
    <3>3. UNCHANGED <<open, hreq>> /\ pc' = "return"
      BY <2>5 DEF FlushWaits
    <3> QED BY <1>0, <2>1, <3>1, <3>2, <3>3 DEF OwnInv
  <2> QED BY <1>6, <2>2, <2>3, <2>4, <2>5 DEF FlushEffect
<1>7. CASE FailEffect
  <2>1. hreq \in Obj /\ open /\ UNCHANGED pending /\ pc = "fail"
    BY <1>7, Connected DEF FailEffect
  <2>2. PICK p :
       /\ Edit(hreq, p) /\ p.userdone = obj[hreq].userdone
       /\ \/ /\ pc' = "handle" /\ UNCHANGED <<open, hreq, wtimer>>
             /\ p.state = obj[hreq].state /\ p.attached = obj[hreq].attached
          \/ /\ pc' = "return" /\ open' = FALSE /\ hreq' = 0 /\ wtimer' = FALSE
             /\ \/ /\ ~obj[hreq].userdone /\ p.state = obj[hreq].state
                   /\ p.attached = FALSE
                \/ p.state = "freed"
    BY <1>7 DEF FailEffect
  <2>3. obj'[hreq] = p /\ \A q \in Obj : q # hreq => obj'[q] = obj[q]
    BY <1>0, <2>1, <2>2, EditIs
  <2>4. CASE pc' = "handle" /\ UNCHANGED <<open, hreq, wtimer>>
             /\ p.state = obj[hreq].state /\ p.attached = obj[hreq].attached
    BY <1>0, <2>1, <2>2, <2>3, <2>4 DEF OwnInv
  <2>5. CASE /\ pc' = "return" /\ open' = FALSE /\ hreq' = 0 /\ wtimer' = FALSE
             /\ \/ /\ ~obj[hreq].userdone /\ p.state = obj[hreq].state
                   /\ p.attached = FALSE
                \/ p.state = "freed"
    BY <1>0, <2>1, <2>2, <2>3, <2>5 DEF OwnInv
  <2> QED BY <2>2, <2>4, <2>5
<1>8. CASE IdleEffect
  BY <1>0, <1>8 DEF IdleEffect, OwnInv
<1>9. CASE SendEffect
  BY <1>0, <1>9 DEF SendEffect, OwnInv
<1>10. CASE \E o \in Obj : ReplyEffect(o)
  <2>1. PICK o \in Obj : ReplyEffect(o)
    BY <1>10
  <2>2. /\ pc = "loop" /\ pending[o] > 0 /\ pending'[o] = pending[o] - 1
        /\ \A q \in Obj : q # o => pending'[q] = pending[q]
        /\ UNCHANGED <<open, hreq, wtimer>> /\ pc' \in {"loop", "flush"}
        /\ obj[o].state = "live" \/ pc' = "loop"
    BY <1>0, <2>1 DEF ReplyEffect
  <2>3. CASE obj[o].state = "freed" /\ UNCHANGED <<pc, obj>>
    BY <1>0, <2>2, <2>3 DEF OwnInv
  <2>4. ASSUME NEW p, ~obj[o].attached, obj[o].state = "live", Edit(o, p), p.state = "freed",
               UNCHANGED pc
        PROVE OwnInv'
    <3>1. obj'[o] = p /\ \A q \in Obj : q # o => obj'[q] = obj[q]
      BY <1>0, <2>4, EditIs
    <3> QED BY <1>0, <2>2, <2>4, <3>1 DEF OwnInv
  <2>5. ASSUME NEW p, obj[o].attached, obj[o].state = "live", Edit(o, p), Answered(p, obj[o])
        PROVE OwnInv'
    <3>1. obj'[o] = p /\ \A q \in Obj : q # o => obj'[q] = obj[q]
      BY <1>0, <2>5, EditIs
    <3>2. p.userdone = TRUE /\ p.state = obj[o].state /\ p.attached = obj[o].attached
      BY <2>5 DEF Answered
    <3>3. o = hreq
      BY <2>5 DEF OwnInv
    <3>4. ASSUME NEW q \in Obj
          PROVE  /\ q = hreq => obj'[q].state = "live" /\ obj'[q].attached
                 /\ obj'[q].state = "live" /\ q # hreq
                      => ~obj'[q].attached /\ pending'[q] > 0
                 /\ obj'[q].state = "live" /\ ~obj'[q].userdone => pending'[q] > 0
                 /\ hreq # 0 /\ q > hreq => pending'[q] = 0
      <4>1. CASE q = o
        <5>1. obj'[q].state = "live" /\ obj'[q].attached = obj[o].attached
              /\ obj'[q].userdone = TRUE
          BY <2>5, <3>1, <3>2, <4>1
        <5>2. obj'[q].attached
          BY <2>5, <5>1
        <5>3. ~(q > hreq)
          BY <1>0, <3>3, <4>1
        <5> QED BY <3>3, <4>1, <5>1, <5>2, <5>3
      <4>2. CASE q # o
        BY <2>2, <3>1, <3>3, <4>2 DEF OwnInv
      <4> QED BY <4>1, <4>2
    <3>5. hreq # 0 /\ open
      BY <1>0, <3>3 DEF OwnInv
    <3> QED BY <2>2, <3>4, <3>5 DEF OwnInv
  <2> QED BY <2>1, <2>3, <2>4, <2>5 DEF ReplyEffect
<1> QED BY <1>1, <1>2, <1>3, <1>4, <1>5, <1>6, <1>7, <1>8, <1>9, <1>10, StepIs
      DEF Cases

-----------------------------------------------------------------------------
(* The order of the pieces.                                                *)

LEMMA PartKeeps ==
  ASSUME NEW b \in Seq(Piece), NEW c \in Seq(Piece), NEW k \in Nat,
         Len(c) + k <= Len(b), \A i \in 1..Len(c) : c[i] = b[i + k]
  PROVE  /\ Sorted(b) => Sorted(c)
         /\ \A r \in Nat : After(b, r) => After(c, r)
         /\ \A i \in DOMAIN c : \E j \in DOMAIN b : c[i] = b[j]
<1>2. Len(b) \in Nat /\ Len(c) \in Nat
      /\ DOMAIN b = 1..Len(b) /\ DOMAIN c = 1..Len(c)
  OBVIOUS
<1>3. \A i \in 1..Len(c) : i + k \in 1..Len(b) /\ c[i] = b[i + k]
  BY <1>2
<1>4. \A i, j \in 1..Len(c) : i < j => i + k < j + k
  BY <1>2
<1>5. Sorted(b) => Sorted(c)
  <2> SUFFICES ASSUME Sorted(b), NEW i \in 1..Len(c), NEW j \in 1..Len(c), i < j
               PROVE  c[i][1] <= c[j][1] /\ (c[j][2] = 1 => c[i][1] < c[j][1])
    BY <1>2 DEF Sorted
  <2>1. /\ i + k \in DOMAIN b /\ j + k \in DOMAIN b /\ i + k < j + k
        /\ c[i] = b[i + k] /\ c[j] = b[j + k]
    BY <1>2, <1>3, <1>4
  <2>2. PICK x \in DOMAIN b, y \in DOMAIN b : x = i + k /\ y = j + k /\ x < y
    BY <2>1
  <2>3. b[x][1] <= b[y][1] /\ (b[y][2] = 1 => b[x][1] < b[y][1])
    BY <2>2 DEF Sorted
  <2> QED BY <2>1, <2>2, <2>3
<1>6. \A r \in Nat : After(b, r) => After(c, r)
  BY <1>2, <1>3 DEF After
<1>7. \A i \in DOMAIN c : \E j \in DOMAIN b : c[i] = b[j]
  BY <1>2, <1>3
<1> QED BY <1>5, <1>6, <1>7

(* What is left when the buffer or the socket is dropped. *)
LEMMA HalvesKeep ==
  ASSUME TypeOK, NEW c \in {buf, sock, <<>>}
  PROVE  /\ c \in Seq(Piece)
         /\ Sorted(Unread) => Sorted(c)
         /\ \A r \in Nat : After(Unread, r) => After(c, r)
         /\ \A i \in DOMAIN c : \E j \in DOMAIN Unread : c[i] = Unread[j]
<1>1. buf \in Seq(Piece) /\ sock \in Seq(Piece) /\ <<>> \in Seq(Piece)
      /\ Len(buf) \in Nat /\ Len(sock) \in Nat
  BY DEF TypeOK, DataType
<1>2. /\ Unread \in Seq(Piece) /\ Len(Unread) = Len(buf) + Len(sock)
      /\ \A i \in 1..(Len(buf) + Len(sock)) :
           Unread[i] = IF i <= Len(buf) THEN buf[i] ELSE sock[i - Len(buf)]
  BY <1>1, ConcatProperties DEF Unread
<1>3. CASE c = buf
  <2>0. PICK k \in Nat : k = 0
    OBVIOUS
  <2>1. Len(c) + k <= Len(Unread) /\ \A i \in 1..Len(c) : c[i] = Unread[i + k]
    BY <1>1, <1>2, <1>3, <2>0
  <2>2. c \in Seq(Piece) /\ Unread \in Seq(Piece)
    BY <1>1, <1>2, <1>3
  <2> QED BY <2>1, <2>2, PartKeeps
<1>4. CASE c = sock
  <2>1. ASSUME NEW i \in 1..Len(sock) PROVE sock[i] = Unread[i + Len(buf)]
    <3>1. /\ i + Len(buf) \in 1..(Len(buf) + Len(sock)) /\ ~(i + Len(buf) <= Len(buf))
          /\ i + Len(buf) - Len(buf) = i
      BY <1>1
    <3> QED BY <1>2, <3>1
  <2>2. PICK k \in Nat : k = Len(buf)
    BY <1>1
  <2>3. Len(c) + k <= Len(Unread) /\ \A i \in 1..Len(c) : c[i] = Unread[i + k]
    BY <1>1, <1>2, <1>4, <2>1, <2>2
  <2>4. c \in Seq(Piece) /\ Unread \in Seq(Piece)
    BY <1>1, <1>2, <1>4
  <2> QED BY <2>3, <2>4, PartKeeps
<1>5. CASE c = <<>>
  BY <1>1, <1>5 DEF Sorted, After
<1> QED BY <1>3, <1>4, <1>5

(* The client's next piece. *)
LEMMA SendUnread ==
  ASSUME TypeOK, TypeOK', SendEffect
  PROVE  /\ Unread' \in Seq(Piece) /\ Len(Unread') = Len(Unread) + 1
         /\ \A i \in 1..Len(Unread) : Unread'[i] = Unread[i]
         /\ Unread'[Len(Unread) + 1] = <<creq', cpiece'>>
<1>1. buf \in Seq(Piece) /\ sock \in Seq(Piece) /\ sock' \in Seq(Piece) /\ buf' = buf
      /\ sock' = Append(sock, <<creq', cpiece'>>)
  BY DEF TypeOK, DataType, SendEffect
<1>2. PICK e : e = <<creq', cpiece'>>
  OBVIOUS
<1>3. sock' = Append(sock, e)
  BY <1>1, <1>2
<1>4. Len(sock) \in Nat /\ Len(buf) \in Nat /\ Len(sock') = Len(sock) + 1
      /\ sock'[Len(sock) + 1] = e /\ \A i \in 1..Len(sock) : sock'[i] = sock[i]
  BY <1>1, <1>3
<1>5. /\ Len(Unread) = Len(buf) + Len(sock)
      /\ \A i \in 1..(Len(buf) + Len(sock)) :
           Unread[i] = IF i <= Len(buf) THEN buf[i] ELSE sock[i - Len(buf)]
  BY <1>1, ConcatProperties DEF Unread
<1>6. /\ Unread' \in Seq(Piece) /\ Len(Unread') = Len(buf) + Len(sock')
      /\ \A i \in 1..(Len(buf) + Len(sock')) :
           Unread'[i] = IF i <= Len(buf) THEN buf[i] ELSE sock'[i - Len(buf)]
  BY <1>1, ConcatProperties DEF Unread
<1>7. ASSUME NEW i \in 1..Len(Unread) PROVE Unread'[i] = Unread[i]
  <2>1. i \in 1..(Len(buf) + Len(sock)) /\ i \in 1..(Len(buf) + Len(sock'))
    BY <1>4, <1>5
  <2>2. CASE i <= Len(buf)
    BY <1>5, <1>6, <2>1, <2>2
  <2>3. CASE ~(i <= Len(buf))
    <3>1. i - Len(buf) \in 1..Len(sock)
      BY <1>4, <2>1, <2>3
    <3> QED BY <1>4, <1>5, <1>6, <2>1, <2>3, <3>1
  <2> QED BY <2>2, <2>3
<1>8. Unread'[Len(Unread) + 1] = e
  <2>1. /\ Len(Unread) + 1 \in 1..(Len(buf) + Len(sock')) /\ ~(Len(Unread) + 1 <= Len(buf))
        /\ (Len(Unread) + 1) - Len(buf) = Len(sock) + 1
    BY <1>4, <1>5
  <2> QED BY <1>4, <1>6, <2>1
<1> QED BY <1>2, <1>4, <1>5, <1>6, <1>7, <1>8

(* The request whose first line has been read, and what follows it. *)
LEMMA StartedFacts ==
  ASSUME TypeOK, OrderInv, RankInv, RespInv, StatusInv, hreq \in Obj,
         pc = "read", ~obj[hreq].resp, NEW o, NEW rest, Started(o, rest)
  PROVE  /\ Kept(o, obj[hreq]) /\ rest \in Seq(Piece) /\ Suffix(rest, Unread)
         /\ o.req \in Req /\ o.req >= hreq /\ o.req <= creq
         /\ After(rest, o.req) /\ pending[hreq] = 0
         /\ o.uri /\ o.out = <<>>
<1>0. /\ hreq # 0 /\ hreq \in Nat /\ obj[hreq] \in Request /\ Unread \in Seq(Piece)
      /\ creq \in Nat /\ kind \in [Req -> Kind]
  BY UnreadType DEF Obj, TypeOK, ObjType, DataType, Req
<1>o. obj[hreq].out = <<>>
  BY DEF RespInv
<1>1. CASE status \in {"headers", "body"} /\ o = obj[hreq] /\ rest = Unread
  <2>1. obj[hreq].req \in Req /\ obj[hreq].req >= hreq
    BY <1>1, ParsedReq
  <2>2. Kept(o, obj[hreq])
    BY <1>0, <1>1 DEF Kept
  <2>3. Suffix(rest, Unread)
    BY <1>0, <1>1, SuffixSelf
  <2>4. obj[hreq].req <= creq /\ After(rest, o.req)
    BY <1>1 DEF OrderInv
  <2>5. pending[hreq] = 0 /\ o.uri
    BY <1>0, <1>1 DEF StatusInv
  <2> QED BY <1>0, <1>o, <1>1, <2>1, <2>2, <2>3, <2>4, <2>5
<1>2. CASE /\ status = "first" /\ Len(Unread) >= 2
           /\ Unread[1] = <<o.req, 1>> /\ Unread[2] = <<o.req, 2>>
           /\ o.req \in Req /\ kind[o.req] # "badline"
           /\ Suffix(rest, Unread) /\ Len(rest) = Len(Unread) - 2
           /\ Kept(o, obj[hreq]) /\ o.uri /\ o.last = 2
  <2>1. 1 \in DOMAIN Unread /\ DOMAIN Unread = 1..Len(Unread) /\ Len(Unread) \in Nat
        /\ Unread[1][1] = o.req /\ Unread[1][2] = 1
    BY <1>0, <1>2
  <2>2. o.req >= hreq /\ o.req <= creq
    BY <1>0, <2>1 DEF RankInv, OrderInv
  <2>3. rest \in Seq(Piece)
    BY <1>2 DEF Suffix
  <2>4. After(rest, o.req)
    <3>1. PICK k \in 0..Len(Unread) : /\ Len(rest) = Len(Unread) - k
                                      /\ \A i \in 1..Len(rest) : rest[i] = Unread[i + k]
      BY <1>2 DEF Suffix
    <3>2. k = 2
      BY <1>2, <2>1, <3>1
    <3>3. DOMAIN rest = 1..Len(rest) /\ Len(rest) \in Nat
      BY <2>3
    <3>4. \A i \in 1..Len(rest) : rest[i] = Unread[i + 2] /\ i + 2 \in DOMAIN Unread /\ 1 < i + 2
      BY <1>2, <2>1, <3>1, <3>2, <3>3
    <3>5. \A j \in DOMAIN Unread : 1 < j =>
            Unread[1][1] <= Unread[j][1] /\ (Unread[j][2] = 1 => Unread[1][1] < Unread[j][1])
      BY <2>1 DEF OrderInv, Sorted
    <3>6. \A j \in DOMAIN Unread : Unread[j][1] \in Nat
      BY <1>0, PieceParts DEF Req
    <3>7. ASSUME NEW i \in DOMAIN rest
          PROVE  rest[i][1] >= o.req /\ (rest[i][2] = 1 => rest[i][1] > o.req)
      <4>1. rest[i] = Unread[i + 2] /\ i + 2 \in DOMAIN Unread /\ 1 < i + 2
        BY <3>3, <3>4
      <4>2. o.req <= Unread[i + 2][1] /\ (Unread[i + 2][2] = 1 => o.req < Unread[i + 2][1])
        BY <2>1, <3>5, <4>1
      <4>3. Unread[i + 2][1] \in Nat /\ o.req \in Nat
        BY <1>2, <3>6, <4>1 DEF Req
      <4> QED BY <4>1, <4>2, <4>3
    <3> QED BY <3>7 DEF After
  <2>5. pending[hreq] = 0
    BY <1>0, <1>2 DEF StatusInv
  <2>6. o.out = <<>>
    BY <1>o, <1>2 DEF Kept
  <2> QED BY <1>2, <2>2, <2>3, <2>4, <2>5, <2>6
<1> QED BY <1>1, <1>2 DEF Started

(* Pieces may be dropped and objects cleared. *)
Fewer(b, c) ==
  /\ Sorted(b) => Sorted(c)
  /\ \A r \in Nat : After(b, r) => After(c, r)
  /\ \A i \in DOMAIN c : \E j \in DOMAIN b : c[i] = b[j]

LEMMA OrderKeep ==
  ASSUME TypeOK, OrderInv, UNCHANGED <<creq, cpiece>>, Fewer(Unread, Unread'),
         \A q \in Obj : obj'[q].req \in {0, obj[q].req}
  PROVE  OrderInv'
<1>0. creq \in Nat /\ \A q \in Obj : obj[q].req \in Nat
  BY DEF TypeOK, DataType, ObjType, Request, Req
<1>1. Sorted(Unread')
  BY DEF Fewer, OrderInv
<1>2. \A i \in DOMAIN Unread' : Unread'[i][1] <= creq
  BY DEF Fewer, OrderInv
<1>3. After(Unread', 0)
  <2>1. After(Unread, 0)
    <3>1. \A i \in DOMAIN Unread : Unread[i][1] \in Nat /\ Unread[i][1] >= 1
      BY UnreadType, PieceParts DEF Req
    <3> QED BY <3>1 DEF After
  <2> QED BY <2>1 DEF Fewer
<1>4. \A q \in Obj : obj'[q].req <= creq /\ After(Unread', obj'[q].req)
  BY <1>0, <1>3 DEF Fewer, OrderInv
<1> QED BY <1>1, <1>2, <1>4 DEF OrderInv

LEMMA FewerSame == \A b : Fewer(b, b)
  BY DEF Fewer

LEMMA UnreadSame == UNCHANGED <<buf, sock>> => Unread' = Unread
  BY DEF Unread

(* What follows a piece comes after its request. *)
LEMMA LineAfter ==
  ASSUME NEW b \in Seq(Piece), Sorted(b), NEW i \in DOMAIN b
  PROVE  /\ Suffix(SubSeq(b, i + 1, Len(b)), b)
         /\ After(SubSeq(b, i + 1, Len(b)), b[i][1])
<1>1. PICK c : c = SubSeq(b, i + 1, Len(b))
  OBVIOUS
<1>2. DOMAIN b = 1..Len(b) /\ Len(b) \in Nat /\ i \in 0..Len(b) /\ i \in Nat
  OBVIOUS
<1>3. /\ Suffix(c, b) /\ Len(c) = Len(b) - i
      /\ \A j \in 1..(Len(b) - i) : c[j] = b[j + i]
  BY <1>1, <1>2, SuffixSub
<1>4. DOMAIN c = 1..(Len(b) - i)
  BY <1>3, LenProperties DEF Suffix
<1>5. ASSUME NEW j \in DOMAIN c
      PROVE  c[j][1] >= b[i][1] /\ (c[j][2] = 1 => c[j][1] > b[i][1])
  <2>1. j \in 1..(Len(b) - i) /\ j + i \in DOMAIN b /\ i < j + i
    BY <1>2, <1>4, <1>5
  <2>2. c[j] = b[j + i]
    BY <1>3, <2>1
  <2>3. b[i][1] <= b[j + i][1] /\ (b[j + i][2] = 1 => b[i][1] < b[j + i][1])
    BY <2>1 DEF Sorted
  <2>4. b[j + i][1] \in Nat /\ b[i][1] \in Nat
    BY <2>1, PieceParts DEF Req
  <2> QED BY <2>2, <2>3, <2>4
<1>6. After(c, b[i][1])
  BY <1>5 DEF After
<1> QED BY <1>1, <1>3, <1>6

LEMMA OrderStep ==
  ASSUME TypeOK, TypeOK', OwnInv, OrderInv, RankInv, RespInv, StatusInv, [Next]_vars
  PROVE  OrderInv'
<1>0. /\ ObjType /\ Unread \in Seq(Piece) /\ creq \in Nat
      /\ obj \in [Obj -> Request]
      /\ \A q \in Obj : obj[q].req \in Nat
  <2>1. ObjType /\ DataType /\ Unread \in Seq(Piece)
    BY UnreadType DEF TypeOK
  <2>2. obj \in [Obj -> Request] /\ creq \in Nat
    BY <2>1 DEF ObjType, DataType, Req
  <2>3. \A q \in Obj : obj[q].req \in Nat
    BY <2>2 DEF Request, Req
  <2> QED BY <2>1, <2>2, <2>3
<1>n. NewReq.req = 0
  BY DEF NewReq
<1> USE DEF call, hvars, wvars, svars, clvars, hist
<1>e. ASSUME NEW x \in Obj, NEW p, Edit(x, p), p.req \in {0, obj[x].req},
             UNCHANGED <<buf, sock, creq, cpiece>>
      PROVE  OrderInv'
  <2>1. \A q \in Obj : obj'[q].req \in {0, obj[q].req}
    BY <1>0, <1>e, EditIs
  <2>2. Fewer(Unread, Unread')
    BY <1>e, UnreadSame, FewerSame
  <2> QED BY <1>e, <2>1, <2>2, OrderKeep
<1>u. ASSUME UNCHANGED <<obj, buf, sock, creq, cpiece>> PROVE OrderInv'
  <2>2. Fewer(Unread, Unread')
    BY <1>u, UnreadSame, FewerSame
  <2> QED BY <1>u, <2>2, OrderKeep
<1>1. CASE AcceptEffect
  BY <1>1, <1>e, <1>u, <1>n DEF AcceptEffect
<1>2. CASE ReturnEffect
  <2>1. clear # 0 => clear \in Obj
    BY DEF TypeOK, CallType
  <2> QED BY <1>2, <1>e, <1>u, <2>1 DEF ReturnEffect, SameRequest
<1>3. CASE ReadHandler
  <2>1. /\ pc = "read" /\ hreq \in Obj /\ sock' = <<>> /\ UNCHANGED <<creq, cpiece>>
        /\ ReadReset \/ ReadQuiet \/ ReadEnd \/ ReadBadLine \/ ReadOn \/ ReadResp
    BY <1>3, ReadEffect
  <2>2. CASE ReadReset
    <3>1. buf \in Seq(Piece) /\ Unread' = buf' \o <<>> /\ buf' = buf /\ obj' = obj
      BY <2>1, <2>2 DEF ReadReset, Unread, TypeOK, DataType
    <3>2. Unread' = buf
      BY <3>1, ConcatEmptySeq
    <3>3. Fewer(Unread, Unread')
      BY <3>2, HalvesKeep DEF Fewer
    <3> QED BY <2>1, <3>1, <3>3, OrderKeep
  <2>3. CASE ReadQuiet
    <3>1. Fewer(Unread, Unread') /\ obj' = obj
      BY <2>3, FewerSame DEF ReadQuiet
    <3> QED BY <2>1, <3>1, OrderKeep
  <2>4. CASE ReadEnd
    <3>1. Fewer(Unread, Unread') /\ obj' = obj
      BY <2>4, FewerSame DEF ReadEnd
    <3> QED BY <2>1, <3>1, OrderKeep
  <2>5. ASSUME NEW p, Edit(hreq, p), Suffix(Unread', Unread), p.req \in Nat,
               p.req <= creq, After(Unread', p.req)
        PROVE  OrderInv'
    <3>1. Fewer(Unread, Unread')
      BY <1>0, <2>5, SuffixKeeps DEF Fewer
    <3>2. Sorted(Unread') /\ \A i \in DOMAIN Unread' : Unread'[i][1] <= creq
      BY <3>1 DEF Fewer, OrderInv
    <3>3. obj'[hreq] = p /\ \A q \in Obj : q # hreq => obj'[q] = obj[q]
      BY <1>0, <2>1, <2>5, EditIs
    <3>4. \A q \in Obj : obj'[q].req <= creq /\ After(Unread', obj'[q].req)
      BY <1>0, <2>5, <3>1, <3>3 DEF Fewer, OrderInv
    <3> QED BY <2>1, <3>2, <3>4 DEF OrderInv
  <2>6. CASE ReadBadLine
    <3>1. PICK i \in DOMAIN Unread :
            /\ obj' = [obj EXCEPT ![hreq].req = Unread[i][1]]
            /\ Unread' = SubSeq(Unread, i + 1, Len(Unread))
      BY <2>6 DEF ReadBadLine, LineEnds
    <3>2. PICK r : r = Unread[i][1]
      OBVIOUS
    <3>3. r \in Req /\ r \in Nat /\ r <= creq
      BY <1>0, <3>1, <3>2, PieceParts DEF Req, OrderInv
    <3>4. PICK p : p = [obj[hreq] EXCEPT !.req = r]
      OBVIOUS
    <3>5. p \in Request /\ p.req = r
      <4>1. obj[hreq] \in Request
        BY <1>0, <2>1
      <4>2. [obj[hreq] EXCEPT !.req = r] \in Request
        BY <3>3, <4>1, SetField
      <4> QED BY <3>4, <4>1, <4>2 DEF Request
    <3>6. Edit(hreq, p)
      BY <1>0, <2>1, <3>1, <3>2, <3>4, <3>5 DEF Edit
    <3>7. Suffix(Unread', Unread) /\ After(Unread', r)
      BY <1>0, <3>1, <3>2, LineAfter DEF OrderInv
    <3> QED BY <2>5, <3>3, <3>5, <3>6, <3>7
  <2>7. CASE ReadOn
    <3>1. PICK o, rest, p : /\ ~obj[hreq].resp /\ Started(o, rest) /\ Kept(p, o) /\ p.req = o.req
                            /\ obj' = [obj EXCEPT ![hreq] = p] /\ Suffix(Unread', rest)
      BY <2>7 DEF ReadOn
    <3>2. /\ rest \in Seq(Piece) /\ Suffix(rest, Unread)
          /\ o.req \in Req /\ o.req <= creq /\ After(rest, o.req)
      BY <2>1, <3>1, StartedFacts
    <3>3. Edit(hreq, p) /\ p.req \in Nat
      BY <3>1, <3>2 DEF Edit, Kept, Req
    <3>4. Suffix(Unread', Unread)
      BY <1>0, <3>1, <3>2, SuffixTwice
    <3>5. After(Unread', p.req)
      BY <3>1, <3>2, <3>3, SuffixKeeps
    <3> QED BY <2>5, <3>1, <3>2, <3>3, <3>4, <3>5
  <2>8. CASE ReadResp
    <3>1. RespEffect
      BY <2>1, <2>8, RespIs
    <3>2. PICK p : p = obj'[hreq]
      OBVIOUS
    <3>3. Edit(hreq, p)
      <4>1. p \in Request /\ obj' \in [Obj -> Request]
            /\ \A q \in Obj : q # hreq => obj'[q] = obj[q]
        BY <2>1, <3>1, <3>2 DEF RespEffect
      <4>2. obj' = [obj EXCEPT ![hreq] = p]
        BY <1>0, <2>1, <3>2, <4>1
      <4> QED BY <4>1, <4>2 DEF Edit
    <3>4. Suffix(Unread', Unread)
      BY <3>1 DEF RespEffect
    <3>5. CASE p.req = obj[hreq].req
      <4>1. After(Unread', p.req) /\ p.req \in Nat /\ p.req <= creq
        BY <1>0, <2>1, <3>4, <3>5, SuffixKeeps DEF OrderInv
      <4> QED BY <2>5, <3>3, <3>4, <4>1
    <3>6. CASE p.req # obj[hreq].req
      <4>1. PICK i \in DOMAIN Unread :
              /\ p.req = Unread[i][1]
              /\ Suffix(Unread', SubSeq(Unread, i + 1, Len(Unread)))
        BY <3>1, <3>2, <3>6 DEF RespEffect
      <4>2. p.req \in Nat /\ p.req <= creq
        BY <1>0, <4>1, PieceParts DEF Req, OrderInv
      <4>3. /\ SubSeq(Unread, i + 1, Len(Unread)) \in Seq(Piece)
            /\ After(SubSeq(Unread, i + 1, Len(Unread)), p.req)
        BY <1>0, <4>1, LineAfter DEF OrderInv, Suffix
      <4>4. After(Unread', p.req)
        BY <4>1, <4>2, <4>3, SuffixKeeps
      <4> QED BY <2>5, <3>3, <3>4, <4>2, <4>4
    <3> QED BY <3>5, <3>6
  <2> QED BY <2>1, <2>2, <2>3, <2>4, <2>6, <2>7, <2>8
<1>4. CASE HandleEffect
  <2>1. hreq \in Obj
    BY <1>4, Connected DEF HandleEffect
  <2> QED BY <1>4, <1>e, <2>1 DEF HandleEffect, SameRequest, Answered
<1>5. CASE NothingEffect
  <2>1. hreq \in Obj
    BY <1>5, Connected DEF NothingEffect
  <2> QED BY <1>5, <1>e, <1>u, <2>1 DEF NothingEffect, Answered
<1>6. CASE FlushEffect
  <2>1. hreq \in Obj /\ UNCHANGED <<sock, creq, cpiece>>
    BY <1>6, Connected DEF FlushEffect
  <2>2. CASE FlushFails
    BY <1>u, <2>1, <2>2 DEF FlushFails
  <2>3. CASE FlushCloses \/ FlushWaits
    BY <1>e, <2>1, <2>3 DEF FlushCloses, FlushWaits, SameRequest
  <2>4. CASE FlushGoesOn
    <3>1. hreq + 1 \in Obj
      BY <1>6, <2>4, RoomForNext
    <3>2. PICK p \in Request : /\ p.req = obj[hreq].req
              /\ obj' = [[obj EXCEPT ![hreq] = p] EXCEPT ![hreq + 1] = NewReq]
      BY <2>4 DEF FlushGoesOn, SameRequest
    <3>3. \A q \in Obj : obj'[q].req \in {0, obj[q].req}
      BY <1>0, <1>n, <2>1, <3>1, <3>2
    <3>4. sock \in Seq(Piece) /\ Unread' = <<>> \o sock
      BY <2>1, <2>4 DEF FlushGoesOn, Unread, TypeOK, DataType
    <3>5. Unread' = sock
      BY <3>4, ConcatEmptySeq
    <3>6. Fewer(Unread, Unread')
      BY <3>5, HalvesKeep DEF Fewer
    <3> QED BY <2>1, <3>3, <3>6, OrderKeep
  <2> QED BY <1>6, <2>2, <2>3, <2>4 DEF FlushEffect
<1>7. CASE FailEffect
  <2>1. hreq \in Obj
    BY <1>7, Connected DEF FailEffect
  <2> QED BY <1>7, <1>e, <2>1 DEF FailEffect, SameRequest
<1>8. CASE IdleEffect
  BY <1>8, <1>u DEF IdleEffect
<1>9. CASE SendEffect
  <2>1. /\ Unread' \in Seq(Piece) /\ Len(Unread') = Len(Unread) + 1
        /\ \A i \in 1..Len(Unread) : Unread'[i] = Unread[i]
        /\ Unread'[Len(Unread) + 1] = <<creq', cpiece'>>
    BY <1>9, SendUnread
  <2>2. PICK n \in Nat : n = Len(Unread)
    BY <1>0
  <2>3. DOMAIN Unread = 1..n /\ DOMAIN Unread' = 1..(n + 1)
    BY <1>0, <2>1, <2>2
  <2>4. \/ creq' = creq /\ cpiece' >= 2 /\ creq > 0
        \/ creq' = creq + 1 /\ cpiece' = 1
    <3>1. CASE creq > 0 /\ creq' = creq /\ cpiece' = cpiece + 1
      BY <3>1 DEF OrderInv, TypeOK, DataType
    <3> QED BY <1>9, <3>1 DEF SendEffect
  <2>5. creq' >= creq /\ creq' \in Nat /\ cpiece' \in Nat /\ creq' >= 1 /\ cpiece' >= 1
        /\ (cpiece' = 1 => creq' > creq)
    <3>1. cpiece' \in Nat
      BY DEF TypeOK, DataType
    <3> QED BY <1>0, <2>4, <3>1
  <2>6. \A i \in DOMAIN Unread' : Unread'[i][1] <= creq'
    <3>1. ASSUME NEW i \in 1..n PROVE Unread'[i][1] <= creq'
      <4>1. Unread'[i] = Unread[i] /\ Unread[i][1] <= creq /\ Unread[i][1] \in Nat
        <5>1. i \in DOMAIN Unread /\ Unread'[i] = Unread[i]
          BY <2>1, <2>2, <2>3
        <5>2. Unread[i][1] \in Nat
          BY <1>0, <5>1, PieceParts DEF Req
        <5> QED BY <5>1, <5>2 DEF OrderInv
      <4> QED BY <1>0, <2>5, <4>1
    <3>2. Unread'[n + 1][1] <= creq'
      BY <2>1, <2>2, <2>5
    <3> QED BY <2>2, <2>3, <3>1, <3>2
  <2>7. Sorted(Unread')
    <3>1. ASSUME NEW i \in 1..(n + 1), NEW j \in 1..(n + 1), i < j
          PROVE  /\ Unread'[i][1] <= Unread'[j][1]
                 /\ Unread'[j][2] = 1 => Unread'[i][1] < Unread'[j][1]
      <4>1. i \in 1..n /\ Unread'[i] = Unread[i] /\ Unread[i][1] <= creq
            /\ Unread[i][1] \in Nat
        <5>1. i \in 1..n
          BY <2>2, <3>1
        <5> QED BY <1>0, <2>1, <2>2, <2>3, <5>1, PieceParts DEF OrderInv, Req
      <4>2. CASE j = n + 1
        <5>1. Unread'[j][1] = creq' /\ Unread'[j][2] = cpiece'
          BY <2>1, <2>2, <4>2
        <5> QED BY <1>0, <2>5, <4>1, <5>1
      <4>3. CASE j \in 1..n
        BY <2>1, <2>2, <2>3, <3>1, <4>1, <4>3 DEF OrderInv, Sorted
      <4> QED BY <2>2, <4>2, <4>3
    <3> QED BY <2>3, <3>1 DEF Sorted
  <2>8. ASSUME NEW q \in Obj PROVE obj'[q].req <= creq' /\ After(Unread', obj'[q].req)
    <3>1. obj'[q].req = obj[q].req /\ obj[q].req <= creq /\ obj[q].req \in Nat
      BY <1>0, <1>9 DEF SendEffect, OrderInv
    <3>2. ASSUME NEW i \in DOMAIN Unread'
          PROVE  /\ Unread'[i][1] >= obj[q].req
                 /\ Unread'[i][2] = 1 => Unread'[i][1] > obj[q].req
      <4>1. CASE i = n + 1
        <5>1. Unread'[i][1] = creq' /\ Unread'[i][2] = cpiece'
          BY <2>1, <2>2, <4>1
        <5> QED BY <1>0, <2>5, <3>1, <5>1
      <4>2. CASE i \in 1..n
        BY <2>1, <2>2, <2>3, <4>2 DEF OrderInv, After
      <4> QED BY <2>2, <2>3, <4>1, <4>2
    <3>3. After(Unread', obj[q].req)
      BY <3>2 DEF After
    <3> QED BY <1>0, <2>5, <3>1, <3>3
  <2> QED BY <2>5, <2>6, <2>7, <2>8 DEF OrderInv
<1>10. CASE \E o \in Obj : ReplyEffect(o)
  <2>1. PICK o \in Obj : ReplyEffect(o)
    BY <1>10
  <2> QED BY <1>e, <1>u, <2>1 DEF ReplyEffect, SameRequest, Answered
<1> QED BY <1>1, <1>2, <1>3, <1>4, <1>5, <1>6, <1>7, <1>8, <1>9, <1>10, StepIs
      DEF Cases

LEMMA RankStep ==
  ASSUME TypeOK, TypeOK', OwnInv, OrderInv, RankInv, RespInv, StatusInv, [Next]_vars
  PROVE  RankInv'
<1>0. /\ ObjType /\ Unread \in Seq(Piece) /\ creq \in Nat /\ Obj \subseteq Nat
      /\ obj \in [Obj -> Request] /\ pending \in [Obj -> Nat]
      /\ hreq \in Obj \cup {0} /\ hreq \in Nat
  <2>1. ObjType /\ DataType /\ CallType /\ Unread \in Seq(Piece) /\ Obj \subseteq Nat
    BY UnreadType DEF TypeOK, Obj
  <2> QED BY <2>1 DEF ObjType, DataType, CallType, Req
<1>n. NewReq.req = 0 /\ NewReq.uri = FALSE /\ NewReq.out = <<>>
  BY DEF NewReq
<1> USE DEF call, hvars, wvars, svars, clvars, hist
<1>k. ASSUME UNCHANGED <<hreq, creq>>,
             \A i \in DOMAIN Unread' : \E j \in DOMAIN Unread : Unread'[i] = Unread[j],
             hreq # 0 /\ HasRequest' => obj'[hreq].req >= hreq
      PROVE  RankInv'
  BY <1>k DEF RankInv
<1>u. ASSUME UNCHANGED <<hreq, creq, buf, sock, status>>,
             hreq # 0 => /\ obj'[hreq].req = obj[hreq].req /\ obj'[hreq].out = obj[hreq].out
                         /\ obj'[hreq].close = obj[hreq].close
                         /\ obj'[hreq].resp = obj[hreq].resp
                         /\ pending'[hreq] = pending[hreq]
                         /\ obj'[hreq].uri = FALSE \/ obj'[hreq].uri = obj[hreq].uri
      PROVE  RankInv'
  <2>1. Unread' = Unread
    BY <1>u, UnreadSame
  <2>2. hreq # 0 /\ HasRequest' => HasRequest
    BY <1>u DEF HasRequest
  <2>3. hreq # 0 /\ HasRequest' => obj'[hreq].req >= hreq
    BY <1>u, <2>2 DEF RankInv
  <2> QED BY <1>k, <1>u, <2>1, <2>3
<1>1. CASE AcceptEffect
  <2>1. CASE open' = TRUE /\ hreq' = 1 /\ 1 \in Obj /\ Edit(1, NewReq)
    <3>1. obj'[1] = NewReq
      BY <1>0, <2>1, EditIs
    <3>2. pending'[1] = 0 /\ status' = "first" /\ UNCHANGED <<buf, sock, creq>>
      BY <1>1, <2>1 DEF AcceptEffect, OwnInv, StatusInv
    <3>3. ~HasRequest'
      BY <1>n, <2>1, <3>1, <3>2 DEF HasRequest
    <3>4. \A i \in DOMAIN Unread' : Unread'[i][1] >= 1
      BY <1>0, <3>2, UnreadSame, PieceParts DEF Req
    <3> QED BY <1>0, <2>1, <3>2, <3>3, <3>4 DEF RankInv
  <2>2. CASE UNCHANGED <<open, hreq, obj>>
    BY <1>1, <1>u, <2>2 DEF AcceptEffect
  <2> QED BY <1>1, <2>1, <2>2 DEF AcceptEffect
<1>2. CASE ReturnEffect
  <2>1. CASE UNCHANGED obj
    BY <1>2, <1>u, <2>1 DEF ReturnEffect
  <2>2. ASSUME NEW p, clear # 0, Edit(clear, p), SameRequest(p, obj[clear]), p.uri = FALSE
        PROVE  RankInv'
    <3>1. clear \in Obj
      BY <2>2 DEF TypeOK, CallType
    <3>2. obj'[clear] = p /\ \A q \in Obj : q # clear => obj'[q] = obj[q]
      BY <1>0, <2>2, <3>1, EditIs
    <3>3. hreq # 0 => hreq \in Obj
      BY <1>0
    <3>4. UNCHANGED <<hreq, creq, buf, sock, status, pending>>
      BY <1>2 DEF ReturnEffect
    <3> QED BY <1>u, <2>2, <3>2, <3>3, <3>4 DEF SameRequest
  <2> QED BY <1>2, <2>1, <2>2 DEF ReturnEffect
<1>3. CASE ReadHandler
  <2>1. /\ pc = "read" /\ hreq \in Obj /\ sock' = <<>>
        /\ UNCHANGED <<hreq, creq, pending>>
        /\ ReadReset \/ ReadQuiet \/ ReadEnd \/ ReadBadLine \/ ReadOn \/ ReadResp
    BY <1>3, ReadEffect
  <2>2. CASE ReadReset
    <3>1. buf \in Seq(Piece) /\ Unread' = buf' \o <<>> /\ UNCHANGED <<buf, obj, status>>
      BY <2>1, <2>2 DEF ReadReset, Unread, TypeOK, DataType
    <3>2. Unread' = buf
      BY <3>1, ConcatEmptySeq
    <3>3. \A i \in DOMAIN Unread' : \E j \in DOMAIN Unread : Unread'[i] = Unread[j]
      BY <3>2, HalvesKeep
    <3>4. hreq # 0 /\ HasRequest' => obj'[hreq].req >= hreq
      BY <2>1, <3>1 DEF HasRequest, RankInv
    <3> QED BY <1>k, <2>1, <3>3, <3>4
  <2>3. CASE ReadQuiet \/ ReadEnd
    <3>1. \A i \in DOMAIN Unread' : \E j \in DOMAIN Unread : Unread'[i] = Unread[j]
      BY <2>3 DEF ReadQuiet, ReadEnd
    <3>2. hreq # 0 /\ HasRequest' => obj'[hreq].req >= hreq
      BY <2>1, <2>3 DEF HasRequest, RankInv, ReadQuiet, ReadEnd
    <3> QED BY <1>k, <2>1, <3>1, <3>2
  <2>4. CASE ReadBadLine
    <3>1. PICK i \in DOMAIN Unread :
            /\ obj' = [obj EXCEPT ![hreq].req = Unread[i][1]]
            /\ Unread' = SubSeq(Unread, i + 1, Len(Unread))
            /\ status = "first" /\ status' = "first"
      BY <2>4 DEF ReadBadLine, LineEnds
    <3>2. obj'[hreq].uri = obj[hreq].uri /\ obj'[hreq].out = obj[hreq].out
          /\ obj'[hreq].close = obj[hreq].close
      BY <1>0, <2>1, <3>1 DEF Request
    <3>3. hreq # 0
      BY <2>1 DEF Obj
    <3>4. ~HasRequest'
      BY <1>0, <2>1, <3>1, <3>2, <3>3 DEF HasRequest, StatusInv, RespInv
    <3>5. i \in 0..Len(Unread)
      BY <1>0, <3>1
    <3>6. Suffix(Unread', Unread)
      BY <1>0, <3>1, <3>5, SuffixSub
    <3>7. \A n \in DOMAIN Unread' : \E j \in DOMAIN Unread : Unread'[n] = Unread[j]
      BY <1>0, <3>6, SuffixKeeps
    <3> QED BY <1>k, <2>1, <3>4, <3>7
  <2>5. CASE ReadOn
    <3>1. PICK o, rest, p : /\ ~obj[hreq].resp /\ Started(o, rest) /\ Kept(p, o) /\ p.req = o.req
                            /\ obj' = [obj EXCEPT ![hreq] = p] /\ Suffix(Unread', rest)
      BY <2>5 DEF ReadOn
    <3>2. Suffix(rest, Unread) /\ o.req >= hreq
      BY <2>1, <3>1, StartedFacts
    <3>3. obj'[hreq].req >= hreq
      BY <1>0, <2>1, <3>1, <3>2
    <3>4. Suffix(Unread', Unread)
      BY <1>0, <3>1, <3>2, SuffixTwice
    <3>5. \A n \in DOMAIN Unread' : \E j \in DOMAIN Unread : Unread'[n] = Unread[j]
      BY <1>0, <3>4, SuffixKeeps
    <3> QED BY <1>k, <2>1, <3>3, <3>5
  <2>6. CASE ReadResp
    <3>1. RespEffect /\ hreq # 0
      BY <1>0, <2>1, <2>6, RespIs DEF Obj
    <3>2. /\ obj[hreq].resp /\ status \in {"first", "headers", "body"}
          /\ obj'[hreq].uri = obj[hreq].uri /\ obj'[hreq].close = obj[hreq].close
          /\ obj'[hreq].resp = obj[hreq].resp
          /\ Suffix(Unread', Unread)
      BY <3>1 DEF RespEffect, Kept
    <3>3. ~HasRequest'
      BY <1>0, <2>1, <3>1, <3>2 DEF HasRequest, StatusInv
    <3>4. \A n \in DOMAIN Unread' : \E j \in DOMAIN Unread : Unread'[n] = Unread[j]
      BY <1>0, <3>2, SuffixKeeps
    <3> QED BY <1>k, <2>1, <3>3, <3>4
  <2> QED BY <2>1, <2>2, <2>3, <2>4, <2>5, <2>6
<1>4. CASE HandleEffect
  <2>1. hreq \in Obj /\ hreq # 0 /\ UNCHANGED <<hreq, creq, buf, sock>> /\ obj[hreq].uri
    BY <1>4, Connected DEF HandleEffect
  <2>2. PICK p : Edit(hreq, p) /\ p.req = obj[hreq].req
    BY <1>4 DEF HandleEffect, SameRequest, Answered
  <2>3. obj'[hreq].req >= hreq
    BY <1>0, <2>1, <2>2, EditIs DEF RankInv, HasRequest
  <2> QED BY <1>k, <2>1, <2>3, UnreadSame
<1>5. CASE NothingEffect
  <2>1. hreq \in Obj /\ hreq # 0 /\ UNCHANGED <<hreq, creq, buf, sock, status, pending>>
    BY <1>5, Connected DEF NothingEffect
  <2>2. CASE UNCHANGED obj
    BY <1>u, <2>1, <2>2
  <2>3. ASSUME NEW p, Edit(hreq, p), Answered(p, obj[hreq]), p.close = TRUE
        PROVE  RankInv'
    <3>1. obj'[hreq] = p
      BY <1>0, <2>1, <2>3, EditIs
    <3>2. p.uri = obj[hreq].uri /\ p.req = obj[hreq].req /\ p.resp = TRUE
      BY <2>3 DEF Answered
    <3>3. HasRequest' => HasRequest
      BY <2>1, <2>3, <3>1, <3>2 DEF HasRequest
    <3> QED BY <1>k, <2>1, <3>1, <3>2, <3>3, UnreadSame DEF RankInv
  <2> QED BY <1>5, <2>2, <2>3 DEF NothingEffect
<1>6. CASE FlushEffect
  <2>1. hreq \in Obj /\ hreq # 0 /\ UNCHANGED <<sock, creq, pending>>
    BY <1>6, Connected DEF FlushEffect
  <2>2. CASE FlushFails
    BY <1>u, <2>1, <2>2 DEF FlushFails
  <2>3. CASE FlushCloses
    BY <2>3 DEF FlushCloses, RankInv
  <2>4. CASE FlushWaits
    <3>1. PICK p : Edit(hreq, p) /\ SameRequest(p, obj[hreq]) /\ p.uri = obj[hreq].uri
      BY <2>4 DEF FlushWaits
    <3>2. obj'[hreq] = p
      BY <1>0, <2>1, <3>1, EditIs
    <3>3. UNCHANGED <<hreq, creq, buf, sock, status>>
      BY <2>1, <2>4 DEF FlushWaits
    <3> QED BY <1>u, <2>1, <3>1, <3>2, <3>3 DEF SameRequest
  <2>5. CASE FlushGoesOn
    <3>1. hreq + 1 \in Obj /\ obj[hreq].req >= hreq
      BY <1>6, <2>5, RoomForNext
    <3>2. obj'[hreq + 1] = NewReq
      BY <1>0, <2>1, <2>5, <3>1 DEF FlushGoesOn
    <3>3. hreq' = hreq + 1 /\ status' = "first"
      BY <2>5 DEF FlushGoesOn
    <3>4. pending'[hreq + 1] = 0
      BY <1>0, <2>1, <3>1 DEF OwnInv
    <3>5. ~HasRequest'
      BY <1>n, <3>2, <3>3, <3>4 DEF HasRequest
    <3>6. obj[hreq].req <= creq /\ obj[hreq].req \in Nat
      BY <1>0, <2>1 DEF OrderInv, Request, Req
    <3>7. sock \in Seq(Piece) /\ Unread' = <<>> \o sock
      BY <2>1, <2>5 DEF FlushGoesOn, Unread, TypeOK, DataType
    <3>8. Unread' = sock
      BY <3>7, ConcatEmptySeq
    <3>9. After(Unread', obj[hreq].req)
      BY <2>1, <3>6, <3>8, HalvesKeep DEF OrderInv
    <3>10. \A i \in DOMAIN Unread' : Unread'[i][1] \in Nat
      BY <3>7, <3>8, PieceParts DEF Req
    <3>11. \A i \in DOMAIN Unread' : Unread'[i][2] = 1 => Unread'[i][1] >= hreq + 1
      BY <1>0, <3>1, <3>6, <3>9, <3>10 DEF After
    <3>12. hreq' <= creq' + 1
      BY <1>0, <2>1, <3>1, <3>3, <3>6
    <3> QED BY <3>3, <3>5, <3>11, <3>12 DEF RankInv
  <2> QED BY <1>6, <2>2, <2>3, <2>4, <2>5 DEF FlushEffect
<1>7. CASE FailEffect
  <2>1. hreq \in Obj /\ hreq # 0 /\ UNCHANGED <<buf, sock, status, creq, pending>>
    BY <1>7, Connected DEF FailEffect
  <2>2. CASE hreq' = 0
    BY <2>2 DEF RankInv
  <2>3. ASSUME NEW p, UNCHANGED hreq, Edit(hreq, p), SameRequest(p, obj[hreq]), p.uri = FALSE
        PROVE  RankInv'
    <3>1. obj'[hreq] = p
      BY <1>0, <2>1, <2>3, EditIs
    <3> QED BY <1>u, <2>1, <2>3, <3>1 DEF SameRequest
  <2> QED BY <1>7, <2>2, <2>3 DEF FailEffect
<1>8. CASE IdleEffect
  BY <1>8, <1>u DEF IdleEffect
<1>9. CASE SendEffect
  <2>1. /\ Unread' \in Seq(Piece) /\ Len(Unread') = Len(Unread) + 1
        /\ \A i \in 1..Len(Unread) : Unread'[i] = Unread[i]
        /\ Unread'[Len(Unread) + 1] = <<creq', cpiece'>>
    BY <1>9, SendUnread
  <2>2. PICK n \in Nat : n = Len(Unread)
    BY <1>0
  <2>3. DOMAIN Unread = 1..n /\ DOMAIN Unread' = 1..(n + 1)
    BY <1>0, <2>1, <2>2
  <2>4. \/ creq' = creq /\ cpiece' >= 2
        \/ creq' = creq + 1
    <3>1. CASE creq > 0 /\ creq' = creq /\ cpiece' = cpiece + 1
      BY <3>1 DEF OrderInv, TypeOK, DataType
    <3> QED BY <1>9, <3>1 DEF SendEffect
  <2>5. UNCHANGED <<hreq, obj, pending, status>>
    BY <1>9 DEF SendEffect
  <2>6. SUFFICES ASSUME hreq # 0 PROVE RankInv'
    BY <2>5 DEF RankInv
  <2>7. HasRequest' => obj'[hreq].req >= hreq
    BY <2>5, <2>6 DEF RankInv, HasRequest
  <2>8. hreq <= creq + 1
    BY <2>6 DEF RankInv
  <2>9. hreq <= creq' + 1
    BY <1>0, <2>4, <2>8
  <2>10. ASSUME NEW i \in DOMAIN Unread', Unread'[i][2] = 1 PROVE Unread'[i][1] >= hreq
    <3>1. CASE i = n + 1
      <4>1. Unread'[i][1] = creq' /\ cpiece' = 1
        BY <2>1, <2>2, <2>10, <3>1
      <4>2. creq' = creq + 1
        BY <2>4, <4>1
      <4> QED BY <1>0, <2>8, <4>1, <4>2
    <3>2. CASE i \in 1..n
      BY <2>1, <2>2, <2>3, <2>6, <2>10, <3>2 DEF RankInv
    <3> QED BY <2>2, <2>3, <3>1, <3>2
  <2> QED BY <2>5, <2>7, <2>9, <2>10 DEF RankInv
<1>10. CASE \E o \in Obj : ReplyEffect(o)
  <2>1. PICK o \in Obj : ReplyEffect(o)
    BY <1>10
  <2>2. UNCHANGED <<hreq, creq, buf, sock, status>>
    BY <2>1 DEF ReplyEffect
  <2>3. CASE o # hreq
    <3>1. hreq # 0 => obj'[hreq] = obj[hreq] /\ pending'[hreq] = pending[hreq]
      BY <1>0, <2>1, <2>3 DEF ReplyEffect, Edit
    <3> QED BY <1>u, <2>2, <3>1
  <2>4. CASE o = hreq
    <3>1. obj[hreq].req >= hreq /\ hreq # 0
      BY <1>0, <2>1, <2>4 DEF ReplyEffect, RankInv, HasRequest, Obj
    <3>2. obj'[hreq].req = obj[hreq].req
      BY <1>0, <2>1, <2>4 DEF ReplyEffect, Edit, SameRequest, Answered
    <3> QED BY <1>k, <2>2, <3>1, <3>2, UnreadSame
  <2> QED BY <2>3, <2>4
<1> QED BY <1>1, <1>2, <1>3, <1>4, <1>5, <1>6, <1>7, <1>8, <1>9, <1>10, StepIs
      DEF Cases

-----------------------------------------------------------------------------
(* hc->status.                                                             *)

(* A request that the server has seen keeps its kind. *)
LEMMA KindKept ==
  ASSUME TypeOK, OrderInv, SendEffect, NEW q \in Obj, obj[q].req # 0
  PROVE  kind'[obj[q].req] = kind[obj[q].req]
<1>1. obj[q].req \in Req /\ obj[q].req <= creq /\ creq \in Nat /\ kind \in [Req -> Kind]
  <2>1. obj \in [Obj -> Request] /\ creq \in Nat /\ kind \in [Req -> Kind]
    BY DEF TypeOK, ObjType, DataType, Req
  <2>2. obj[q].req \in Req \cup {0}
    BY <2>1 DEF Request
  <2> QED BY <2>1, <2>2 DEF OrderInv
<1>2. obj[q].req # creq + 1
  BY <1>1 DEF Req
<1> QED BY <1>1, <1>2 DEF SendEffect

LEMMA StatusStep ==
  ASSUME TypeOK, TypeOK', OwnInv, OrderInv, RankInv, RespInv, StatusInv, ClearInv,
         [Next]_vars
  PROVE  StatusInv'
<1>0. /\ ObjType /\ Obj \subseteq Nat /\ 0 \notin Obj
      /\ obj \in [Obj -> Request] /\ pending \in [Obj -> Nat]
      /\ hreq \in Obj \cup {0} /\ hreq \in Nat
      /\ status \in {"first", "headers", "body", "writing", "disconnected"}
  <2>1. ObjType /\ CallType /\ Obj \subseteq Nat /\ 0 \notin Obj
    BY DEF TypeOK, Obj
  <2> QED BY <2>1 DEF ObjType, CallType
<1>n. NewReq.req = 0 /\ NewReq.uri = FALSE /\ NewReq.resp = FALSE
  BY DEF NewReq
<1> USE DEF call, hvars, wvars, svars, clvars, hist
<1>1. CASE AcceptEffect
  <2>1. CASE open' = TRUE /\ hreq' = 1 /\ 1 \in Obj /\ Edit(1, NewReq)
    <3>1. obj'[1] = NewReq
      BY <1>0, <2>1, EditIs
    <3>2. pending'[1] = 0 /\ status' = "first" /\ pc' = "loop"
      BY <1>1, <2>1 DEF AcceptEffect, OwnInv, StatusInv
    <3> QED BY <1>n, <2>1, <3>1, <3>2 DEF StatusInv
  <2>2. CASE UNCHANGED <<open, hreq, obj>>
    BY <1>0, <1>1, <2>2 DEF AcceptEffect, StatusInv, OwnInv
  <2> QED BY <1>1, <2>1, <2>2 DEF AcceptEffect
<1>2. CASE ReturnEffect
  <2>0. pc = "return" /\ pc' \in {"loop", "write"} /\ UNCHANGED <<hreq, status, pending, kind>>
    BY <1>2 DEF ReturnEffect
  <2>1. CASE UNCHANGED obj
    BY <2>0, <2>1 DEF StatusInv
  <2>2. ASSUME NEW p, clear # 0, Edit(clear, p), SameRequest(p, obj[clear])
        PROVE  StatusInv'
    <3>1. clear \in Obj
      BY <2>2 DEF TypeOK, CallType
    <3>2. obj'[clear] = p /\ \A q \in Obj : q # clear => obj'[q] = obj[q]
      BY <1>0, <2>2, <3>1, EditIs
    <3>3. CASE clear = hreq
      BY <2>0, <2>2, <3>3 DEF StatusInv, ClearInv
    <3>4. CASE clear # hreq
      <4>1. hreq # 0 => obj'[hreq] = obj[hreq]
        BY <1>0, <3>2, <3>4
      <4> QED BY <2>0, <4>1 DEF StatusInv
    <3> QED BY <3>3, <3>4
  <2> QED BY <1>2, <2>1, <2>2 DEF ReturnEffect
<1>3. CASE ReadHandler
  <2>1. /\ hreq \in Obj /\ UNCHANGED <<hreq, pending, kind>> /\ pc = "read"
        /\ ReadReset \/ ReadQuiet \/ ReadEnd \/ ReadBadLine \/ ReadOn \/ ReadResp
    BY <1>3, ReadEffect
  <2>2. CASE ReadReset \/ ReadQuiet \/ ReadEnd
    BY <2>1, <2>2 DEF ReadReset, ReadQuiet, ReadEnd, StatusInv
  <2>3. CASE ReadBadLine
    <3>1. PICK i \in DOMAIN Unread :
            /\ obj' = [obj EXCEPT ![hreq].req = Unread[i][1]]
            /\ status = "first" /\ status' = "first" /\ pc' = "fail"
      BY <2>3 DEF ReadBadLine, LineEnds
    <3>2. obj'[hreq].uri = obj[hreq].uri /\ obj'[hreq].out = obj[hreq].out
          /\ obj'[hreq].close = obj[hreq].close /\ obj'[hreq].resp = obj[hreq].resp
      BY <1>0, <2>1, <3>1 DEF Request
    <3>3. hreq # 0
      BY <1>0, <2>1
    <3> QED BY <2>1, <3>1, <3>2, <3>3 DEF StatusInv
  <2>4. CASE ReadOn
    <3>1. PICK o, rest, p :
            /\ ~obj[hreq].resp /\ Started(o, rest) /\ Kept(p, o) /\ p.req = o.req /\ p.uri = o.uri
            /\ obj' = [obj EXCEPT ![hreq] = p]
            /\ \/ HeaderWait(p, o, rest) \/ HeaderBad(p, o, rest)
               \/ HeaderDone(p, o, rest) \/ BodyRead(p, o, rest)
      BY <2>4 DEF ReadOn
    <3>2. pending[hreq] = 0 /\ o.uri /\ Kept(o, obj[hreq])
      BY <2>1, <3>1, StartedFacts
    <3>3. obj'[hreq] = p /\ hreq # 0 /\ p.uri /\ ~p.resp
      BY <1>0, <2>1, <3>1, <3>2 DEF Kept
    <3>4. CASE HeaderWait(p, o, rest) \/ HeaderBad(p, o, rest)
      BY <2>1, <3>1, <3>2, <3>3, <3>4 DEF HeaderWait, HeaderBad, StatusInv
    <3>5. CASE HeaderDone(p, o, rest)
      BY <2>1, <3>1, <3>2, <3>3, <3>5 DEF HeaderDone, StatusInv
    <3>6. CASE BodyRead(p, o, rest)
      BY <2>1, <3>1, <3>2, <3>3, <3>6 DEF BodyRead, StatusInv
    <3> QED BY <3>1, <3>4, <3>5, <3>6
  <2>5. CASE ReadResp
    <3>1. RespEffect /\ hreq # 0
      BY <1>0, <2>1, <2>5, RespIs
    <3>2. /\ obj[hreq].resp /\ status \in {"first", "headers", "body"} /\ RespEnds
          /\ obj'[hreq].uri = obj[hreq].uri /\ obj'[hreq].close = obj[hreq].close
          /\ obj'[hreq].resp = obj[hreq].resp
      BY <3>1 DEF RespEffect, Kept
    <3>3. pending[hreq] = 0 /\ ~obj[hreq].uri /\ obj[hreq].close
      BY <3>1, <3>2 DEF StatusInv
    <3> QED BY <2>1, <3>2, <3>3 DEF RespEnds, StatusInv
  <2> QED BY <2>1, <2>2, <2>3, <2>4, <2>5
<1>4. CASE HandleEffect
  <2>1. hreq # 0 /\ status \in {"writing", "disconnected"}
    BY <1>0, <1>4, Connected DEF HandleEffect, StatusInv
  <2> QED BY <1>4, <2>1 DEF HandleEffect, StatusInv
<1>5. CASE NothingEffect
  <2>1. /\ hreq \in Obj /\ hreq # 0 /\ ~obj[hreq].uri
        /\ UNCHANGED <<hreq, status, pending, kind>>
    BY <1>5, Connected DEF NothingEffect
  <2>2. CASE UNCHANGED obj /\ pc' = "fail" /\ ec' = "READ_EOF"
    BY <2>1, <2>2 DEF StatusInv
  <2>3. ASSUME NEW p, Edit(hreq, p), Answered(p, obj[hreq]), p.close = TRUE, pc' = "flush"
        PROVE  StatusInv'
    <3>1. obj'[hreq] = p
      BY <1>0, <2>1, <2>3, EditIs
    <3>2. p.uri = obj[hreq].uri /\ p.req = obj[hreq].req /\ p.resp = TRUE
      BY <2>3 DEF Answered
    <3> QED BY <2>1, <2>3, <3>1, <3>2 DEF StatusInv
  <2> QED BY <1>5, <2>2, <2>3 DEF NothingEffect
<1>6. CASE FlushEffect
  <2>1. hreq \in Obj /\ hreq # 0 /\ UNCHANGED <<pending, kind>> /\ pc = "flush"
    BY <1>6, Connected DEF FlushEffect
  <2>2. CASE FlushFails
    BY <2>1, <2>2 DEF FlushFails, StatusInv
  <2>3. CASE FlushCloses
    BY <2>3 DEF FlushCloses, StatusInv
  <2>4. CASE FlushWaits
    <3>1. PICK p : Edit(hreq, p) /\ SameRequest(p, obj[hreq]) /\ p.uri = obj[hreq].uri
      BY <2>4 DEF FlushWaits
    <3>2. obj'[hreq] = p
      BY <1>0, <2>1, <3>1, EditIs
    <3>3. UNCHANGED <<hreq, status>> /\ pc' = "return"
      BY <2>4 DEF FlushWaits
    <3> QED BY <2>1, <3>1, <3>2, <3>3 DEF SameRequest, StatusInv
  <2>5. CASE FlushGoesOn
    <3>1. hreq + 1 \in Obj
      BY <1>6, <2>5, RoomForNext
    <3>2. obj'[hreq + 1] = NewReq
      BY <1>0, <2>1, <2>5, <3>1 DEF FlushGoesOn
    <3>3. hreq' = hreq + 1 /\ status' = "first" /\ pc' = "return"
      BY <2>5 DEF FlushGoesOn
    <3>4. pending'[hreq + 1] = 0
      BY <1>0, <2>1, <3>1 DEF OwnInv
    <3> QED BY <1>n, <3>2, <3>3, <3>4 DEF StatusInv
  <2> QED BY <1>6, <2>2, <2>3, <2>4, <2>5 DEF FlushEffect
<1>7. CASE FailEffect
  <2>1. hreq \in Obj /\ hreq # 0 /\ UNCHANGED <<status, pending, kind>> /\ pc = "fail"
    BY <1>7, Connected DEF FailEffect
  <2>2. CASE hreq' = 0 /\ pc' = "return"
    BY <2>2 DEF StatusInv
  <2>3. ASSUME NEW p, UNCHANGED hreq, Edit(hreq, p), SameRequest(p, obj[hreq]), p.uri = FALSE,
               ec = "INVALID", pc' = "handle"
        PROVE  StatusInv'
    <3>1. obj'[hreq] = p
      BY <1>0, <2>1, <2>3, EditIs
    <3>2. \/ status = "first"
          \/ /\ status \in {"headers", "body"}
             /\ kind[obj[hreq].req] = "badhead" \/ obj[hreq].resp
      BY <2>1, <2>3 DEF StatusInv
    <3> QED BY <2>1, <2>3, <3>1, <3>2 DEF SameRequest, StatusInv
  <2> QED BY <1>7, <2>2, <2>3 DEF FailEffect
<1>8. CASE IdleEffect
  BY <1>8 DEF IdleEffect, StatusInv
<1>9. CASE SendEffect
  <2>1. UNCHANGED <<pc, hreq, obj, pending, status>> /\ pc = "loop"
    BY <1>9 DEF SendEffect
  <2> QED BY <2>1 DEF StatusInv
<1>10. CASE \E o \in Obj : ReplyEffect(o)
  <2>1. PICK o \in Obj : ReplyEffect(o)
    BY <1>10
  <2>2. UNCHANGED <<hreq, status, kind>> /\ pc = "loop" /\ pc' \in {"loop", "flush"}
    BY <2>1 DEF ReplyEffect
  <2>3. CASE o # hreq
    <3>1. hreq # 0 => obj'[hreq] = obj[hreq] /\ pending'[hreq] = pending[hreq]
      BY <1>0, <2>1, <2>3 DEF ReplyEffect, Edit
    <3> QED BY <2>2, <3>1 DEF StatusInv
  <2>4. CASE o = hreq
    <3>1. status \in {"writing", "disconnected"}
      BY <1>0, <2>1, <2>4 DEF ReplyEffect, StatusInv
    <3> QED BY <2>2, <3>1 DEF StatusInv
  <2> QED BY <2>3, <2>4
<1> QED BY <1>1, <1>2, <1>3, <1>4, <1>5, <1>6, <1>7, <1>8, <1>9, <1>10, StepIs
      DEF Cases

(* Only http_send makes an object a response, and adds what it sends. *)
LEMMA RespStep ==
  ASSUME TypeOK, OwnInv, OrderInv, RankInv, RespInv, StatusInv, [Next]_vars
  PROVE  RespInv'
<1>0. /\ ObjType /\ Obj \subseteq Nat /\ 0 \notin Obj
      /\ obj \in [Obj -> Request] /\ hreq \in Obj \cup {0}
  BY DEF TypeOK, CallType, ObjType, Obj
<1>n. NewReq.resp = FALSE /\ NewReq.out = <<>>
  BY DEF NewReq
<1> DEFINE P(e) == e.resp <=> e.out # <<>>
<1> USE DEF call, hvars, wvars, svars, clvars, hist
<1>i. \A q \in Obj : P(obj[q])
  BY DEF RespInv
<1>e. ASSUME NEW x \in Obj, NEW p, Edit(x, p), P(p) PROVE RespInv'
  <2>1. obj'[x] = p /\ \A q \in Obj : q # x => obj'[q] = obj[q]
    BY <1>0, <1>e, EditIs
  <2> QED BY <1>e, <1>i, <2>1 DEF RespInv
<1>s. ASSUME NEW x \in Obj, NEW p, SameRequest(p, obj[x]) PROVE P(p)
  BY <1>i, <1>s DEF SameRequest
<1>a. ASSUME NEW x \in Obj, NEW p, Answered(p, obj[x]) PROVE P(p)
  <2>1. obj[x].out \in Seq(Req \cup {0}) /\ obj[x].req \in Req \cup {0}
    BY <1>0 DEF Request
  <2>2. Append(obj[x].out, obj[x].req) # <<>>
    BY <2>1
  <2> QED BY <1>a, <2>2 DEF Answered
<1>u. ASSUME UNCHANGED obj PROVE RespInv'
  BY <1>u DEF RespInv
<1> HIDE DEF P
<1>1. CASE AcceptEffect
  <2>1. P(NewReq)
    BY <1>n DEF P
  <2> QED BY <1>1, <1>e, <1>u, <2>1 DEF AcceptEffect
<1>2. CASE ReturnEffect
  <2>1. clear # 0 => clear \in Obj
    BY DEF TypeOK, CallType
  <2> QED BY <1>2, <1>e, <1>s, <1>u, <2>1 DEF ReturnEffect
<1>3. CASE ReadHandler
  <2>1. /\ hreq \in Obj /\ pc = "read"
        /\ ReadReset \/ ReadQuiet \/ ReadEnd \/ ReadBadLine \/ ReadOn \/ ReadResp
    BY <1>3, ReadEffect
  <2>2. CASE ReadReset \/ ReadQuiet \/ ReadEnd
    BY <1>u, <2>2 DEF ReadReset, ReadQuiet, ReadEnd
  <2>3. ASSUME obj'[hreq].resp = obj[hreq].resp, obj'[hreq].out = obj[hreq].out,
               \A q \in Obj : q # hreq => obj'[q] = obj[q]
        PROVE  RespInv'
    BY <1>i, <2>1, <2>3 DEF P, RespInv
  <2>4. CASE ReadBadLine
    <3>1. PICK r : obj' = [obj EXCEPT ![hreq].req = r]
      BY <2>4 DEF ReadBadLine
    <3>2. /\ obj'[hreq].resp = obj[hreq].resp /\ obj'[hreq].out = obj[hreq].out
          /\ \A q \in Obj : q # hreq => obj'[q] = obj[q]
      BY <1>0, <2>1, <3>1 DEF Request
    <3> QED BY <2>3, <3>2
  <2>5. CASE ReadOn
    <3>1. PICK o, rest, p : /\ ~obj[hreq].resp /\ Started(o, rest) /\ Kept(p, o)
                            /\ obj' = [obj EXCEPT ![hreq] = p]
      BY <2>5 DEF ReadOn
    <3>2. Kept(o, obj[hreq])
      BY <2>1, <3>1, StartedFacts
    <3>3. /\ obj'[hreq].resp = obj[hreq].resp /\ obj'[hreq].out = obj[hreq].out
          /\ \A q \in Obj : q # hreq => obj'[q] = obj[q]
      BY <1>0, <2>1, <3>1, <3>2 DEF Kept
    <3> QED BY <2>3, <3>3
  <2>6. CASE ReadResp
    BY <2>1, <2>3, <2>6, RespIs DEF RespEffect, Kept
  <2> QED BY <2>1, <2>2, <2>4, <2>5, <2>6
<1>4. CASE HandleEffect
  <2>1. hreq \in Obj
    BY <1>4, Connected DEF HandleEffect
  <2> QED BY <1>4, <1>e, <1>s, <1>a, <2>1 DEF HandleEffect
<1>5. CASE NothingEffect
  <2>1. hreq \in Obj
    BY <1>5, Connected DEF NothingEffect
  <2> QED BY <1>5, <1>e, <1>a, <1>u, <2>1 DEF NothingEffect
<1>6. CASE FlushEffect
  <2>1. hreq \in Obj
    BY <1>6, Connected DEF FlushEffect
  <2>2. CASE FlushFails
    BY <1>u, <2>2 DEF FlushFails
  <2>3. CASE FlushCloses \/ FlushWaits
    BY <1>e, <1>s, <2>1, <2>3 DEF FlushCloses, FlushWaits
  <2>4. CASE FlushGoesOn
    <3>1. hreq + 1 \in Obj /\ hreq + 1 # hreq
      BY <1>0, <1>6, <2>1, <2>4, RoomForNext
    <3>2. PICK p : /\ SameRequest(p, obj[hreq])
                   /\ obj' = [[obj EXCEPT ![hreq] = p] EXCEPT ![hreq + 1] = NewReq]
      BY <2>4 DEF FlushGoesOn
    <3>3. /\ obj'[hreq] = p /\ obj'[hreq + 1] = NewReq
          /\ \A q \in Obj : q # hreq /\ q # hreq + 1 => obj'[q] = obj[q]
      BY <1>0, <2>1, <3>1, <3>2
    <3>4. P(p) /\ P(NewReq)
      BY <1>n, <1>s, <2>1, <3>2 DEF P
    <3> QED BY <1>i, <3>3, <3>4 DEF P, RespInv
  <2> QED BY <1>6, <2>2, <2>3, <2>4 DEF FlushEffect
<1>7. CASE FailEffect
  <2>1. hreq \in Obj
    BY <1>7, Connected DEF FailEffect
  <2> QED BY <1>7, <1>e, <1>s, <2>1 DEF FailEffect
<1>8. CASE IdleEffect
  BY <1>8, <1>u DEF IdleEffect
<1>9. CASE SendEffect
  BY <1>9, <1>u DEF SendEffect
<1>10. CASE \E o \in Obj : ReplyEffect(o)
  BY <1>10, <1>e, <1>s, <1>a, <1>u DEF ReplyEffect
<1> QED BY <1>1, <1>2, <1>3, <1>4, <1>5, <1>6, <1>7, <1>8, <1>9, <1>10, StepIs
      DEF Cases

-----------------------------------------------------------------------------
(* Requests in the hands of the modules.                                   *)

LEMMA HandsStep ==
  ASSUME TypeOK, TypeOK', OwnInv, OrderInv, RankInv, RespInv, StatusInv, HandsInv,
         ClearInv, [Next]_vars
  PROVE  HandsInv'
<1>0. /\ ObjType /\ Obj \subseteq Nat /\ 0 \notin Obj
      /\ obj \in [Obj -> Request] /\ pending \in [Obj -> Nat]
      /\ hreq \in Obj \cup {0} /\ hreq \in Nat
      /\ status \in {"first", "headers", "body", "writing", "disconnected"}
  <2>1. ObjType /\ CallType /\ Obj \subseteq Nat /\ 0 \notin Obj
    BY DEF TypeOK, Obj
  <2> QED BY <2>1 DEF ObjType, CallType
<1>n. NewReq.req = 0 /\ NewReq.uri = FALSE /\ NewReq.out = <<>>
  BY DEF NewReq
<1> USE DEF call, hvars, wvars, svars, clvars, hist
<1> DEFINE P(e, n) ==
             n > 0 => /\ e.req # 0
                      /\ \/ kind[e.req] = "status"
                         \/ e.state = "live" /\ ~e.userdone /\ e.out = <<>> /\ n = 1
           H(e, n) ==
             /\ n > 0 /\ e.uri => kind[e.req] = "status"
             /\ e.uri /\ kind[e.req] \notin {"status", "sync"} => e.out = <<>>
<1>p. /\ \A q \in Obj : P(obj[q], pending[q])
      /\ hreq # 0 => H(obj[hreq], pending[hreq])
  BY DEF HandsInv
<1>g. ASSUME kind' = kind, \A q \in Obj : P(obj'[q], pending'[q]),
             hreq' # 0 => H(obj'[hreq'], pending'[hreq'])
      PROVE  HandsInv'
  BY <1>g DEF HandsInv
<1>u. ASSUME UNCHANGED <<kind, obj, pending, hreq>> PROVE HandsInv'
  BY <1>g, <1>p, <1>u
<1>e. ASSUME kind' = kind, NEW x \in Obj, NEW p, Edit(x, p), P(p, pending'[x]),
             \A q \in Obj : q # x => pending'[q] = pending[q],
             \/ hreq' = 0
             \/ hreq' = x /\ H(p, pending'[x])
             \/ hreq' = hreq /\ hreq # x
      PROVE  HandsInv'
  <2>1. obj'[x] = p /\ \A q \in Obj : q # x => obj'[q] = obj[q]
    BY <1>0, <1>e, EditIs
  <2>2. \A q \in Obj : P(obj'[q], pending'[q])
    BY <1>e, <1>p, <2>1
  <2>3. hreq' # 0 => H(obj'[hreq'], pending'[hreq'])
    BY <1>0, <1>e, <1>p, <2>1
  <2> HIDE DEF P, H
  <2> QED BY <1>e, <1>g, <2>2, <2>3
<1>1. CASE AcceptEffect
  <2>1. CASE open' = TRUE /\ hreq' = 1 /\ 1 \in Obj /\ Edit(1, NewReq)
    <3>1. pending'[1] = 0 /\ UNCHANGED <<pending, kind>>
      BY <1>1, <2>1 DEF AcceptEffect, OwnInv
    <3>2. P(NewReq, pending'[1]) /\ H(NewReq, pending'[1])
      BY <1>n, <3>1
    <3> HIDE DEF P, H
    <3> QED BY <1>e, <2>1, <3>1, <3>2
  <2>2. CASE UNCHANGED <<open, hreq, obj>>
    BY <1>1, <1>u, <2>2 DEF AcceptEffect
  <2> QED BY <1>1, <2>1, <2>2 DEF AcceptEffect
<1>2. CASE ReturnEffect
  <2>0. UNCHANGED <<hreq, pending, kind>>
    BY <1>2 DEF ReturnEffect
  <2>1. CASE UNCHANGED obj
    BY <1>u, <2>0, <2>1
  <2>2. ASSUME NEW p, clear # 0, Edit(clear, p), SameRequest(p, obj[clear]), p.uri = FALSE,
               p.state = obj[clear].state, p.userdone = obj[clear].userdone
        PROVE  HandsInv'
    <3>1. clear \in Obj
      BY <2>2 DEF TypeOK, CallType
    <3>2. P(p, pending'[clear])
      BY <1>p, <2>0, <2>2, <3>1 DEF SameRequest
    <3>3. clear = hreq => H(p, pending'[clear])
      BY <1>0, <1>p, <2>0, <2>2, <3>1 DEF SameRequest
    <3> HIDE DEF P, H
    <3> QED BY <1>e, <2>0, <2>2, <3>1, <3>2, <3>3
  <2> QED BY <1>2, <2>1, <2>2 DEF ReturnEffect
<1>3. CASE ReadHandler
  <2>1. /\ hreq \in Obj /\ UNCHANGED <<hreq, pending, kind>> /\ pc = "read" /\ hreq # 0
        /\ ReadReset \/ ReadQuiet \/ ReadEnd \/ ReadBadLine \/ ReadOn \/ ReadResp
    BY <1>0, <1>3, ReadEffect
  <2>2. CASE ReadReset \/ ReadQuiet \/ ReadEnd
    BY <1>u, <2>1, <2>2 DEF ReadReset, ReadQuiet, ReadEnd
  <2>3. CASE ReadBadLine
    <3>1. PICK i \in DOMAIN Unread :
            /\ obj' = [obj EXCEPT ![hreq].req = Unread[i][1]]
            /\ status = "first"
      BY <2>3 DEF ReadBadLine, LineEnds
    <3>2. PICK p : p = obj'[hreq]
      OBVIOUS
    <3>3. /\ p.uri = obj[hreq].uri /\ p.out = obj[hreq].out /\ p.req = Unread[i][1]
          /\ obj' = [obj EXCEPT ![hreq] = p]
      BY <1>0, <2>1, <3>1, <3>2 DEF Request
    <3>4. Edit(hreq, p)
      BY <2>1, <3>2, <3>3 DEF Edit, TypeOK, ObjType
    <3>5. pending[hreq] = 0 /\ ~obj[hreq].uri
      BY <2>1, <3>1 DEF StatusInv
    <3>6. P(p, pending'[hreq]) /\ H(p, pending'[hreq])
      BY <2>1, <3>3, <3>5
    <3> HIDE DEF P, H
    <3> QED BY <1>e, <2>1, <3>4, <3>6
  <2>4. CASE ReadOn
    <3>1. PICK o, rest, p :
            /\ ~obj[hreq].resp /\ Started(o, rest) /\ Kept(p, o) /\ p.req = o.req /\ p.uri = o.uri
            /\ obj' = [obj EXCEPT ![hreq] = p]
      BY <2>4 DEF ReadOn
    <3>2. pending[hreq] = 0 /\ o.out = <<>>
      BY <2>1, <3>1, StartedFacts
    <3>3. p.out = o.out /\ Edit(hreq, p)
      BY <3>1 DEF Kept, Edit
    <3>4. P(p, pending'[hreq]) /\ H(p, pending'[hreq])
      BY <2>1, <3>1, <3>2, <3>3
    <3> HIDE DEF P, H
    <3> QED BY <1>e, <2>1, <3>3, <3>4
  <2>5. CASE ReadResp
    <3>1. RespEffect
      BY <2>1, <2>5, RespIs
    <3>2. PICK p : p = obj'[hreq]
      OBVIOUS
    <3>3. /\ p \in Request /\ obj' \in [Obj -> Request]
          /\ \A q \in Obj : q # hreq => obj'[q] = obj[q]
          /\ p.uri = obj[hreq].uri
          /\ obj[hreq].resp /\ status \in {"first", "headers", "body"}
      BY <2>1, <3>1, <3>2 DEF RespEffect
    <3>4. Edit(hreq, p)
      <4>1. obj' = [obj EXCEPT ![hreq] = p]
        BY <1>0, <2>1, <3>2, <3>3
      <4> QED BY <3>3, <4>1 DEF Edit
    <3>5. pending[hreq] = 0 /\ ~obj[hreq].uri
      BY <2>1, <3>3 DEF StatusInv
    <3>6. P(p, pending'[hreq]) /\ H(p, pending'[hreq])
      BY <2>1, <3>3, <3>5
    <3> HIDE DEF P, H
    <3> QED BY <1>e, <2>1, <3>4, <3>6
  <2> QED BY <2>1, <2>2, <2>3, <2>4, <2>5
<1>4. CASE HandleEffect
  <2>1. /\ hreq \in Obj /\ hreq # 0 /\ UNCHANGED <<hreq, kind>> /\ obj[hreq].uri
        /\ obj[hreq].state = "live"
    BY <1>4, Connected DEF HandleEffect, OwnInv
  <2>2. obj[hreq].req \in Req /\ obj[hreq].req # 0
    BY <2>1, ParsedReq DEF Req
  <2>3. ASSUME NEW p, Edit(hreq, p), p.state = obj[hreq].state, SameRequest(p, obj[hreq]),
               kind[obj[hreq].req] # "sync", ~p.userdone,
               p.uri <=> kind[obj[hreq].req] = "status",
               pending' = [pending EXCEPT ![hreq] = @ + 1]
        PROVE  HandsInv'
    <3>1. p.req = obj[hreq].req /\ p.out = obj[hreq].out
      BY <2>3 DEF SameRequest
    <3>2. pending'[hreq] = pending[hreq] + 1 /\ pending[hreq] \in Nat
          /\ \A q \in Obj : q # hreq => pending'[q] = pending[q]
      BY <1>0, <2>1, <2>3
    <3>3. H(p, pending'[hreq])
      BY <1>p, <2>1, <2>3, <3>1
    <3>4. P(p, pending'[hreq])
      <4>1. CASE kind[obj[hreq].req] = "status"
        BY <2>2, <3>1, <4>1
      <4>2. CASE kind[obj[hreq].req] # "status"
        <5>1. ~(pending[hreq] > 0) /\ obj[hreq].out = <<>>
          BY <1>p, <2>1, <2>3, <4>2
        <5>2. pending'[hreq] = 1
          BY <3>2, <5>1
        <5> QED BY <2>1, <2>2, <2>3, <3>1, <5>1, <5>2
      <4> QED BY <4>1, <4>2
    <3> HIDE DEF P, H
    <3> QED BY <1>e, <2>1, <2>3, <3>2, <3>3, <3>4
  <2>4. ASSUME NEW p, Edit(hreq, p), Answered(p, obj[hreq]),
               kind[obj[hreq].req] \in {"status", "sync"}, UNCHANGED pending
        PROVE  HandsInv'
    <3>1. p.req = obj[hreq].req /\ p.uri = obj[hreq].uri
      BY <2>4 DEF Answered
    <3>2. P(p, pending'[hreq]) /\ H(p, pending'[hreq])
      BY <1>p, <2>1, <2>2, <2>4, <3>1
    <3> HIDE DEF P, H
    <3> QED BY <1>e, <2>1, <2>4, <3>2
  <2> QED BY <1>4, <2>3, <2>4 DEF HandleEffect
<1>5. CASE NothingEffect
  <2>1. hreq \in Obj /\ hreq # 0 /\ UNCHANGED <<hreq, pending, kind>> /\ pc = "handle"
        /\ ~obj[hreq].uri
    BY <1>5, Connected DEF NothingEffect
  <2>2. CASE UNCHANGED obj
    BY <1>u, <2>1, <2>2
  <2>3. ASSUME NEW p, Edit(hreq, p), Answered(p, obj[hreq]), status # "disconnected"
        PROVE  HandsInv'
    <3>1. pending[hreq] = 0
      BY <1>0, <2>1, <2>3 DEF StatusInv
    <3>2. p.uri = obj[hreq].uri /\ p.req = obj[hreq].req
      BY <2>3 DEF Answered
    <3>3. P(p, pending'[hreq]) /\ H(p, pending'[hreq])
      BY <1>p, <2>1, <3>1, <3>2
    <3> HIDE DEF P, H
    <3> QED BY <1>e, <2>1, <2>3, <3>3
  <2> QED BY <1>5, <2>2, <2>3 DEF NothingEffect
<1>6. CASE FlushEffect
  <2>1. hreq \in Obj /\ hreq # 0 /\ UNCHANGED <<pending, kind>>
    BY <1>6, Connected DEF FlushEffect
  <2>2. CASE FlushFails
    BY <1>u, <2>1, <2>2 DEF FlushFails
  <2>3. CASE FlushCloses
    <3>1. PICK p : Edit(hreq, p) /\ SameRequest(p, obj[hreq])
      BY <2>3 DEF FlushCloses
    <3>2. hreq' = 0 /\ obj[hreq].out # <<>>
      BY <2>3 DEF FlushCloses
    <3>3. P(p, pending'[hreq])
      BY <1>p, <2>1, <3>1, <3>2 DEF SameRequest
    <3> HIDE DEF P, H
    <3> QED BY <1>e, <2>1, <3>1, <3>2, <3>3
  <2>4. CASE FlushWaits
    <3>1. PICK p : Edit(hreq, p) /\ SameRequest(p, obj[hreq]) /\ p.uri = obj[hreq].uri
      BY <2>4 DEF FlushWaits
    <3>2. hreq' = hreq /\ obj[hreq].out # <<>>
      BY <2>4 DEF FlushWaits
    <3>3. P(p, pending'[hreq]) /\ H(p, pending'[hreq])
      BY <1>p, <2>1, <3>1, <3>2 DEF SameRequest
    <3> HIDE DEF P, H
    <3> QED BY <1>e, <2>1, <3>1, <3>2, <3>3
  <2>5. CASE FlushGoesOn
    <3>1. hreq + 1 \in Obj /\ hreq + 1 # hreq
      BY <1>0, <1>6, <2>5, RoomForNext
    <3>2. PICK p : /\ SameRequest(p, obj[hreq])
                   /\ obj' = [[obj EXCEPT ![hreq] = p] EXCEPT ![hreq + 1] = NewReq]
      BY <2>5 DEF FlushGoesOn
    <3>3. hreq' = hreq + 1 /\ obj[hreq].out # <<>>
      BY <2>5 DEF FlushGoesOn
    <3>4. pending'[hreq + 1] = 0
      BY <1>0, <2>1, <3>1 DEF OwnInv
    <3>5. /\ obj'[hreq] = p /\ obj'[hreq + 1] = NewReq
          /\ \A q \in Obj : q # hreq /\ q # hreq + 1 => obj'[q] = obj[q]
      BY <1>0, <2>1, <3>1, <3>2
    <3>6. P(p, pending'[hreq])
      BY <1>p, <2>1, <3>2, <3>3 DEF SameRequest
    <3>7. P(NewReq, pending'[hreq + 1]) /\ H(NewReq, pending'[hreq + 1])
      BY <1>n, <3>4
    <3> HIDE DEF P, H
    <3>8. \A q \in Obj : P(obj'[q], pending'[q])
      BY <1>p, <2>1, <3>5, <3>6, <3>7
    <3> QED BY <1>g, <2>1, <3>3, <3>5, <3>7, <3>8
  <2> QED BY <1>6, <2>2, <2>3, <2>4, <2>5 DEF FlushEffect
<1>7. CASE FailEffect
  <2>1. hreq \in Obj /\ hreq # 0 /\ UNCHANGED <<pending, kind>>
    BY <1>7, Connected DEF FailEffect
  <2>2. PICK p : /\ Edit(hreq, p) /\ SameRequest(p, obj[hreq])
                 /\ p.userdone = obj[hreq].userdone
                 /\ p.state = obj[hreq].state \/ obj[hreq].userdone
                 /\ hreq' = 0 \/ (hreq' = hreq /\ p.uri = FALSE)
    BY <1>7 DEF FailEffect
  <2>3. P(p, pending'[hreq])
    BY <1>p, <2>1, <2>2 DEF SameRequest
  <2>4. hreq' = hreq => H(p, pending'[hreq])
    BY <1>p, <2>1, <2>2 DEF SameRequest
  <2> HIDE DEF P, H
  <2> QED BY <1>e, <2>1, <2>2, <2>3, <2>4
<1>8. CASE IdleEffect
  BY <1>8, <1>u DEF IdleEffect
<1>9. CASE SendEffect
  <2>1. UNCHANGED <<hreq, obj, pending>>
    BY <1>9 DEF SendEffect
  <2>2. \A q \in Obj : obj[q].req # 0 => kind'[obj[q].req] = kind[obj[q].req]
    BY <1>9, KindKept
  <2>3. hreq # 0 /\ obj[hreq].uri => hreq \in Obj /\ obj[hreq].req # 0
    BY <1>0, ParsedReq DEF Req
  <2> QED BY <1>0, <2>1, <2>2, <2>3 DEF HandsInv
<1>10. CASE \E o \in Obj : ReplyEffect(o)
  <2>1. PICK o \in Obj : ReplyEffect(o)
    BY <1>10
  <2>2. /\ UNCHANGED <<hreq, kind>> /\ pending[o] > 0 /\ pending[o] \in Nat
        /\ pending'[o] = pending[o] - 1
        /\ \A q \in Obj : q # o => pending'[q] = pending[q]
    BY <1>0, <2>1 DEF ReplyEffect
  <2>3. CASE obj[o].state = "freed" /\ UNCHANGED obj
    <3>1. Edit(o, obj[o])
      BY <1>0, <2>3 DEF Edit
    <3>2. P(obj[o], pending'[o])
      BY <1>p, <2>2, <2>3
    <3>3. o = hreq => H(obj[o], pending'[o])
      BY <1>0, <1>p, <2>2
    <3> HIDE DEF P, H
    <3> QED BY <1>e, <2>2, <3>1, <3>2, <3>3
  <2>4. ASSUME NEW p, obj[o].state = "live", ~obj[o].attached, Edit(o, p),
               SameRequest(p, obj[o])
        PROVE  HandsInv'
    <3>1. o # hreq
      BY <2>4 DEF OwnInv
    <3>2. P(p, pending'[o])
      BY <1>p, <2>2, <2>4 DEF SameRequest
    <3> HIDE DEF P, H
    <3> QED BY <1>e, <2>2, <2>4, <3>1, <3>2
  <2>5. ASSUME NEW p, obj[o].state = "live", obj[o].attached, Edit(o, p),
               Answered(p, obj[o])
        PROVE  HandsInv'
    <3>1. o = hreq /\ hreq # 0
      BY <1>0, <2>5 DEF OwnInv
    <3>2. p.req = obj[o].req /\ p.uri = obj[o].uri
      BY <2>5 DEF Answered
    <3>3. pending'[o] > 0 => pending[o] # 1
      BY <2>2
    <3>4. P(p, pending'[o])
      BY <1>p, <2>2, <3>2, <3>3
    <3>5. H(p, pending'[o])
      BY <1>p, <2>2, <3>1, <3>2
    <3> HIDE DEF P, H
    <3> QED BY <1>e, <2>2, <2>5, <3>1, <3>4, <3>5
  <2> QED BY <2>1, <2>3, <2>4, <2>5 DEF ReplyEffect
<1> HIDE DEF P, H
<1> QED BY <1>1, <1>2, <1>3, <1>4, <1>5, <1>6, <1>7, <1>8, <1>9, <1>10, StepIs
      DEF Cases

(* The uri that http_handle_request clears last. *)
LEMMA ClearStep ==
  ASSUME TypeOK, TypeOK', OwnInv, RankInv, StatusInv, ClearInv, [Next]_vars
  PROVE  ClearInv'
<1>0. /\ ObjType /\ Obj \subseteq Nat /\ 0 \notin Obj
      /\ obj \in [Obj -> Request] /\ hreq \in Obj \cup {0} /\ hreq \in Nat
      /\ status \in {"first", "headers", "body", "writing", "disconnected"}
  <2>1. ObjType /\ CallType /\ Obj \subseteq Nat /\ 0 \notin Obj
    BY DEF TypeOK, Obj
  <2> QED BY <2>1 DEF ObjType, CallType
<1> USE DEF call, hvars, wvars, svars, clvars, hist
<1>1. CASE AcceptEffect
  BY <1>1 DEF AcceptEffect, ClearInv
<1>2. CASE ReturnEffect
  BY <1>2 DEF ReturnEffect, ClearInv
<1>3. CASE ReadHandler
  <2>1. pc = "read" /\ clear' = clear
    BY <1>3, ReadEffect
  <2> QED BY <2>1 DEF ClearInv
<1>4. CASE HandleEffect
  <2>1. /\ pc = "handle" /\ hreq \in Obj /\ hreq # 0 /\ UNCHANGED <<hreq, status, kind>>
        /\ obj[hreq].uri
    BY <1>4, Connected DEF HandleEffect
  <2>2. clear = 0
    BY <2>1 DEF ClearInv
  <2>3. status \in {"writing", "disconnected"} /\ obj[hreq].req # 0
    BY <1>0, <2>1, ParsedReq DEF StatusInv, Req
  <2>4. CASE clear' = 0
    BY <2>4 DEF ClearInv
  <2>5. CASE clear' # 0
    <3>1. PICK p : /\ Edit(hreq, p) /\ p.req = obj[hreq].req
                   /\ clear' = hreq /\ kind[obj[hreq].req] = "sync" /\ pc' = "flush"
      BY <1>4, <2>2, <2>5 DEF HandleEffect, Answered
    <3>2. obj'[hreq].req = obj[hreq].req
      BY <1>0, <2>1, <3>1, EditIs
    <3> QED BY <2>1, <2>3, <3>1, <3>2 DEF ClearInv
  <2> QED BY <2>4, <2>5
<1>5. CASE NothingEffect
  BY <1>5 DEF NothingEffect, ClearInv
<1>6. CASE FlushEffect
  <2>1. hreq \in Obj /\ hreq # 0 /\ UNCHANGED <<clear, kind>> /\ pc = "flush"
    BY <1>6, Connected DEF FlushEffect
  <2>2. CASE FlushFails
    BY <2>1, <2>2 DEF FlushFails, ClearInv
  <2>3. CASE FlushCloses
    <3>1. PICK p : Edit(hreq, p) /\ SameRequest(p, obj[hreq])
      BY <2>3 DEF FlushCloses
    <3>2. hreq' = 0 /\ pc' = "return" /\ obj'[hreq].req = obj[hreq].req
      BY <1>0, <2>1, <2>3, <3>1, EditIs DEF FlushCloses, SameRequest
    <3> QED BY <2>1, <3>2 DEF ClearInv
  <2>4. CASE FlushWaits
    <3>1. PICK p : Edit(hreq, p) /\ SameRequest(p, obj[hreq])
      BY <2>4 DEF FlushWaits
    <3>2. /\ UNCHANGED <<hreq, status>> /\ pc' = "return"
          /\ obj'[hreq].req = obj[hreq].req
      BY <1>0, <2>1, <2>4, <3>1, EditIs DEF FlushWaits, SameRequest
    <3> QED BY <2>1, <3>2 DEF ClearInv
  <2>5. CASE FlushGoesOn
    <3>1. hreq + 1 \in Obj /\ hreq + 1 # hreq
      BY <1>0, <1>6, <2>5, RoomForNext
    <3>2. PICK p : /\ SameRequest(p, obj[hreq])
                   /\ obj' = [[obj EXCEPT ![hreq] = p] EXCEPT ![hreq + 1] = NewReq]
      BY <2>5 DEF FlushGoesOn
    <3>3. hreq' = hreq + 1 /\ pc' = "return"
      BY <2>5 DEF FlushGoesOn
    <3>4. obj'[hreq].req = obj[hreq].req
      BY <1>0, <2>1, <3>1, <3>2 DEF SameRequest
    <3> QED BY <2>1, <3>1, <3>3, <3>4 DEF ClearInv
  <2> QED BY <1>6, <2>2, <2>3, <2>4, <2>5 DEF FlushEffect
<1>7. CASE FailEffect
  <2>1. hreq \in Obj /\ hreq # 0 /\ UNCHANGED <<clear, kind>> /\ pc = "fail"
    BY <1>7, Connected DEF FailEffect
  <2>2. CASE clear = 0
    BY <2>1, <2>2 DEF ClearInv
  <2>3. CASE clear # 0
    <3>1. clear = hreq /\ ec # "INVALID"
      BY <2>1, <2>3 DEF ClearInv
    <3>2. PICK p : /\ Edit(hreq, p) /\ SameRequest(p, obj[hreq])
                   /\ hreq' = 0 /\ pc' = "return"
      BY <1>7, <3>1 DEF FailEffect
    <3>3. obj'[hreq].req = obj[hreq].req
      BY <1>0, <2>1, <3>2, EditIs DEF SameRequest
    <3> QED BY <2>1, <2>3, <3>1, <3>2, <3>3 DEF ClearInv
  <2> QED BY <2>2, <2>3
<1>8. CASE IdleEffect
  BY <1>8 DEF IdleEffect, ClearInv
<1>9. CASE SendEffect
  BY <1>9 DEF SendEffect, ClearInv
<1>10. CASE \E o \in Obj : ReplyEffect(o)
  BY <1>10 DEF ReplyEffect, ClearInv
<1> QED BY <1>1, <1>2, <1>3, <1>4, <1>5, <1>6, <1>7, <1>8, <1>9, <1>10, StepIs
      DEF Cases

(* No other use of a request after it was freed. *)
LEMMA FaultStep ==
  ASSUME TypeOK, OwnInv, RankInv, HandsInv, ClearInv, FaultInv, [Next]_vars
  PROVE  FaultInv'
<1> USE DEF call, hvars, wvars, svars, clvars, hist
<1>1. CASE ReturnEffect
  <2>1. CASE UNCHANGED fault
    BY <2>1 DEF FaultInv
  <2>2. CASE clear # 0 /\ fault' = fault \cup {<<"clear", kind[obj[clear].req]>>}
    <3>1. kind[obj[clear].req] = "sync"
      BY <2>2 DEF ClearInv
    <3> QED BY <2>2, <3>1 DEF FaultInv
  <2> QED BY <1>1, <2>1, <2>2 DEF ReturnEffect
<1>2. CASE \E o \in Obj : ReplyEffect(o)
  <2>1. PICK o \in Obj : ReplyEffect(o)
    BY <1>2
  <2>2. CASE UNCHANGED fault
    BY <2>2 DEF FaultInv
  <2>3. CASE obj[o].state = "freed" /\ fault' = fault \cup {<<"reply", kind[obj[o].req]>>}
    <3>1. kind[obj[o].req] = "status"
      BY <2>1, <2>3 DEF HandsInv, ReplyEffect
    <3> QED BY <2>3, <3>1 DEF FaultInv
  <2> QED BY <2>1, <2>2, <2>3 DEF ReplyEffect
<1>3. CASE UNCHANGED fault
  BY <1>3 DEF FaultInv
<1>4. CASE ReadHandler
  <2>1. UNCHANGED fault
    BY <1>4, ReadEffect
  <2> QED BY <1>3, <2>1
<1>5. AcceptEffect \/ HandleEffect \/ NothingEffect \/ FlushEffect \/ FailEffect
        \/ IdleEffect \/ SendEffect => UNCHANGED fault
  BY DEF AcceptEffect, HandleEffect, NothingEffect, FlushEffect, FailEffect,
         IdleEffect, SendEffect
<1> QED BY <1>1, <1>2, <1>3, <1>4, <1>5, StepIs DEF Cases

(* http_handle_request meets whole requests. *)
LEMMA WholeStep ==
  ASSUME TypeOK, OwnInv, RankInv, StatusInv, WholeInv, [Next]_vars
  PROVE  WholeInv'
<1>0. ObjType /\ hreq \in Obj \cup {0} /\ 0 \notin Obj /\ obj \in [Obj -> Request]
  BY DEF TypeOK, CallType, ObjType, Obj
<1> USE DEF call, hvars, wvars, svars, clvars, hist
<1>1. CASE HandleEffect
  <2>1. pc = "handle" /\ obj[hreq].uri /\ pc' # "handle" /\ UNCHANGED eof
    BY <1>1 DEF HandleEffect
  <2>2. eof \/ ~(obj[hreq].last < Pieces(kind[obj[hreq].req]))
    <3>1. hreq \in Obj
      BY <2>1, Connected
    <3>2. obj[hreq].last \in 0..5
      BY <1>0, <3>1 DEF Request
    <3>3. Pieces(kind[obj[hreq].req]) \in 3..5
      BY PiecesIs
    <3> QED BY <2>1, <3>2, <3>3 DEF WholeInv
  <2>3. cut' = cut \/ eof
    BY <1>1, <2>2 DEF HandleEffect
  <2> QED BY <2>1, <2>3 DEF WholeInv
<1>2. CASE ReadHandler
  <2>1. /\ hreq \in Obj /\ UNCHANGED <<hreq, kind, eof, cut>>
        /\ ReadReset \/ ReadQuiet \/ ReadEnd \/ ReadBadLine \/ ReadOn \/ ReadResp
    BY <1>2, ReadEffect
  <2>2. CASE ReadReset \/ ReadQuiet \/ ReadBadLine \/ ReadEnd
    BY <2>1, <2>2 DEF ReadReset, ReadQuiet, ReadBadLine, ReadEnd, WholeInv
  <2>3. CASE ReadOn
    <3>1. PICK o, rest, p :
            /\ Kept(p, o) /\ p.req = o.req
            /\ obj' = [obj EXCEPT ![hreq] = p]
            /\ \/ HeaderWait(p, o, rest) \/ HeaderBad(p, o, rest)
               \/ HeaderDone(p, o, rest) \/ BodyRead(p, o, rest)
      BY <2>3 DEF ReadOn
    <3>2. obj'[hreq] = p
      BY <1>0, <2>1, <3>1
    <3>3. CASE HeaderWait(p, o, rest) \/ HeaderBad(p, o, rest)
      BY <2>1, <3>3 DEF HeaderWait, HeaderBad, WholeInv
    <3>4. CASE HeaderDone(p, o, rest)
      <4>1. p.last = 3 /\ Pieces(kind[p.req]) = 3
        BY <3>1, <3>4 DEF HeaderDone, Pieces
      <4> QED BY <2>1, <3>2, <4>1 DEF WholeInv
    <3>5. CASE BodyRead(p, o, rest)
      <4>1. p.last = 5 \/ pc' # "handle" \/ eof
        BY <3>5 DEF BodyRead
      <4>2. p.last = 5 => p.last >= Pieces(kind[p.req])
        BY PiecesIs
      <4> QED BY <2>1, <3>2, <4>1, <4>2 DEF WholeInv
    <3> QED BY <3>1, <3>3, <3>4, <3>5
  <2>4. CASE ReadResp
    <3>1. RespEffect /\ hreq # 0
      BY <1>0, <2>1, <2>4, RespIs
    <3>2. /\ obj'[hreq].uri = obj[hreq].uri /\ obj[hreq].resp
          /\ status \in {"first", "headers", "body"}
      BY <3>1 DEF RespEffect
    <3>3. ~obj'[hreq].uri
      BY <3>1, <3>2 DEF StatusInv
    <3> QED BY <2>1, <3>3 DEF WholeInv
  <2> QED BY <2>1, <2>2, <2>3, <2>4
<1>3. CASE FailEffect
  <2>1. hreq \in Obj /\ UNCHANGED <<cut, eof>>
    BY <1>3, Connected DEF FailEffect
  <2>2. PICK p : Edit(hreq, p) /\ (pc' = "handle" => p.uri = FALSE /\ hreq' = hreq)
    BY <1>3 DEF FailEffect
  <2>3. obj'[hreq] = p
    BY <1>0, <2>1, <2>2, EditIs
  <2> QED BY <2>1, <2>2, <2>3 DEF WholeInv
<1>4. CASE pc' # "handle" /\ UNCHANGED cut /\ (eof => eof')
  BY <1>4 DEF WholeInv
<1>5. CASE IdleEffect
  BY <1>5 DEF IdleEffect, WholeInv
<1>6. AcceptEffect \/ ReturnEffect \/ NothingEffect \/ FlushEffect \/ SendEffect
        \/ (\E o \in Obj : ReplyEffect(o))
        => pc' # "handle" /\ UNCHANGED <<cut, eof>>
  BY DEF AcceptEffect, ReturnEffect, NothingEffect, FlushEffect, FlushFails, FlushCloses,
         FlushGoesOn, FlushWaits, SendEffect, ReplyEffect
<1> QED BY <1>1, <1>2, <1>3, <1>4, <1>5, <1>6, StepIs DEF Cases

-----------------------------------------------------------------------------
(* A client that waits for its replies.                                    *)

LEMMA StartStep ==
  ASSUME TypeOK, OwnInv, RankInv, StartInv, [Next]_vars
  PROVE  StartInv'
<1> USE DEF call, hvars, wvars, svars, clvars, hist
<1>1. CASE ReadHandler
  <2>1. ReadReset \/ ReadQuiet \/ ReadEnd \/ ReadBadLine \/ ReadOn \/ ReadResp
    BY <1>1, ReadEffect
  <2> QED BY <2>1 DEF ReadReset, ReadQuiet, ReadEnd, ReadBadLine, ReadOn, HeaderWait,
        HeaderBad, HeaderDone, BodyRead, ReadResp, RespEnds, StartInv
<1>2. CASE IdleEffect
  BY <1>2 DEF IdleEffect, StartInv
<1>3. AcceptEffect \/ ReturnEffect \/ HandleEffect \/ NothingEffect \/ FlushEffect
        \/ FailEffect \/ SendEffect \/ (\E o \in Obj : ReplyEffect(o))
        => pc' # "accept"
  BY DEF AcceptEffect, ReturnEffect, HandleEffect, NothingEffect, FlushEffect, FlushFails,
         FlushCloses, FlushGoesOn, FlushWaits, FailEffect, SendEffect, ReplyEffect
<1> QED BY <1>1, <1>2, <1>3, StepIs DEF Cases, StartInv

LEMMA Counts ==
  ASSUME TypeOK
  PROVE  /\ creq \in Nat /\ cpiece \in Nat /\ Len(replies) \in Nat
         /\ replies \in Seq(Req \cup {0}) /\ Unread \in Seq(Piece)
         /\ Len(Unread) \in Nat /\ DOMAIN Unread = 1..Len(Unread)
<1>1. DataType /\ Unread \in Seq(Piece)
  BY UnreadType DEF TypeOK
<1>2. /\ creq \in Req \cup {0} /\ cpiece \in 0..5 /\ replies \in Seq(Req \cup {0})
  BY <1>1 DEF DataType
<1> QED BY <1>1, <1>2 DEF Req

(* The only page that is sent is that of the last request. *)
LEMMA OnePage ==
  ASSUME TypeOK, OwnInv, ReplyInv, QuietInv, BusyInv, FlushEffect, ~piped,
         obj[hreq].out # <<>>
  PROVE  /\ Patient /\ creq = Len(replies) + 1 /\ Served /\ obj[hreq].out = <<creq>>
         /\ Len(replies \o obj[hreq].out) = creq
         /\ \A i \in DOMAIN (replies \o obj[hreq].out) : (replies \o obj[hreq].out)[i] = i
<1>0. /\ creq \in Nat /\ Len(replies) \in Nat /\ replies \in Seq(Req \cup {0})
  BY Counts
<1>1. Patient
  <2>1. pc = "flush"
    BY DEF FlushEffect
  <2> QED BY <2>1, Connected DEF Patient
<1>2. creq # Len(replies)
  BY <1>1 DEF QuietInv, Fresh
<1>3. creq = Len(replies) + 1
  BY <1>0, <1>2 DEF ReplyInv
<1>4. creq > Len(replies)
  BY <1>0, <1>3
<1>5. Served
  BY <1>1, <1>4 DEF BusyInv
<1>6. obj[hreq].out = <<creq>>
  BY <1>5 DEF Served, Page
<1>7. creq \in Req \cup {0}
  BY DEF TypeOK, DataType
<1>8. PICK s : s = replies \o <<creq>>
  OBVIOUS
<1>9. PICK n \in Nat : n = Len(replies)
  BY <1>0
<1>10. <<creq>> \in Seq(Req \cup {0}) /\ Len(<<creq>>) = 1 /\ <<creq>>[1] = creq
  BY <1>7
<1>11. /\ s \in Seq(Req \cup {0}) /\ Len(s) = n + 1
       /\ \A i \in 1..(n + 1) :
            s[i] = IF i <= n THEN replies[i] ELSE <<creq>>[i - n]
  BY <1>0, <1>8, <1>9, <1>10, ConcatProperties
<1>12. DOMAIN s = 1..(n + 1) /\ DOMAIN replies = 1..n
  BY <1>0, <1>9, <1>11
<1>13. ASSUME NEW i \in 1..(n + 1) PROVE s[i] = i
  <2>1. CASE i \in 1..n
    <3>1. s[i] = replies[i]
      BY <1>11, <2>1
    <3> QED BY <1>12, <2>1, <3>1 DEF ReplyInv
  <2>2. CASE i = n + 1
    <3>1. ~(i <= n) /\ i - n = 1
      BY <2>2
    <3>2. s[i] = <<creq>>[i - n]
      BY <1>11, <3>1
    <3>3. s[i] = creq
      BY <1>10, <3>1, <3>2
    <3> QED BY <1>3, <1>9, <2>2, <3>3
  <2> QED BY <2>1, <2>2
<1> QED BY <1>1, <1>3, <1>5, <1>6, <1>8, <1>9, <1>11, <1>12, <1>13

LEMMA ReplyStep ==
  ASSUME TypeOK, OwnInv, RankInv, ReplyInv, QuietInv, BusyInv, [Next]_vars
  PROVE  ReplyInv'
<1> USE DEF call, hvars, wvars, svars, clvars, hist
<1>0. creq \in Nat /\ Len(replies) \in Nat
  BY Counts
<1>1. CASE UNCHANGED <<replies, creq, piped>>
  BY <1>1 DEF ReplyInv
<1>2. CASE ReadHandler
  <2>1. UNCHANGED <<replies, creq, piped>>
    BY <1>2, ReadEffect
  <2> QED BY <1>1, <2>1
<1>3. CASE FlushEffect
  <2>1. UNCHANGED <<creq, piped>>
    BY <1>3 DEF FlushEffect
  <2>2. CASE FlushFails \/ FlushWaits
    BY <1>1, <2>1, <2>2 DEF FlushFails, FlushWaits
  <2>3. CASE (FlushCloses \/ FlushGoesOn) /\ ~piped
    <3>1. replies' = replies \o obj[hreq].out /\ obj[hreq].out # <<>>
      BY <2>3 DEF FlushCloses, FlushGoesOn
    <3>2. Len(replies') = creq /\ \A i \in DOMAIN replies' : replies'[i] = i
      BY <1>3, <2>3, <3>1, OnePage
    <3> QED BY <1>0, <2>1, <3>2 DEF ReplyInv
  <2>4. CASE piped
    BY <2>1, <2>4 DEF ReplyInv
  <2> QED BY <1>3, <2>2, <2>3, <2>4 DEF FlushEffect
<1>4. CASE SendEffect
  <2>1. UNCHANGED replies
    BY <1>4 DEF SendEffect
  <2>2. CASE UNCHANGED <<creq, piped>>
    BY <1>1, <2>1, <2>2
  <2>3. CASE creq' = creq + 1 /\ (~piped' => ~piped /\ Waited)
    <3>1. ~piped' => ~piped /\ creq = Len(replies)
      BY <1>0, <2>3 DEF Waited, ReplyInv
    <3> QED BY <1>0, <2>1, <2>3, <3>1 DEF ReplyInv
  <2> QED BY <1>4, <2>2, <2>3 DEF SendEffect
<1>5. AcceptEffect \/ ReturnEffect \/ HandleEffect \/ NothingEffect \/ FailEffect
        \/ IdleEffect \/ (\E o \in Obj : ReplyEffect(o))
        => UNCHANGED <<replies, creq, piped>>
  BY DEF AcceptEffect, ReturnEffect, HandleEffect, NothingEffect, FailEffect, IdleEffect,
         ReplyEffect
<1> QED BY <1>1, <1>2, <1>3, <1>4, <1>5, StepIs DEF Cases

(* What is left of a request object for the next request. *)
LEMMA QuietStep ==
  ASSUME TypeOK, TypeOK', OwnInv, RankInv, RespInv, StatusInv,
         StartInv, ReplyInv, QuietInv, BusyInv, [Next]_vars
  PROVE  QuietInv'
<1>0. /\ ObjType /\ 0 \notin Obj /\ Obj \subseteq Nat
      /\ obj \in [Obj -> Request] /\ pending \in [Obj -> Nat]
      /\ hreq \in Obj \cup {0} /\ hreq \in Nat
  <2>1. ObjType /\ CallType /\ Obj \subseteq Nat /\ 0 \notin Obj
    BY DEF TypeOK, Obj
  <2> QED BY <2>1 DEF ObjType, CallType
<1>c. creq \in Nat /\ Len(replies) \in Nat /\ Unread \in Seq(Piece)
  BY Counts
<1>n. NewReq.uri = FALSE /\ NewReq.out = <<>> /\ NewReq.last = 0
  BY DEF NewReq
<1> USE DEF call, hvars, wvars, svars, clvars, hist
<1> SUFFICES ASSUME Patient', creq' = Len(replies') PROVE Fresh'
  BY DEF QuietInv
<1>f. ASSUME UNCHANGED <<hreq, creq, cpiece, kind, replies, piped, eof>>,
             pc # "fail" \/ ec = "INVALID"
      PROVE  Fresh /\ hreq \in Obj
  BY <1>0, <1>f DEF Patient, QuietInv
<1>1. CASE AcceptEffect
  <2>1. CASE open' = TRUE /\ hreq' = 1 /\ 1 \in Obj /\ Edit(1, NewReq)
    <3>1. obj'[1] = NewReq
      BY <1>0, <2>1, EditIs
    <3>2. /\ pending'[1] = 0 /\ status' = "first" /\ pc' = "loop" /\ UNCHANGED <<buf, sock>>
          /\ creq' = creq /\ pc = "accept"
      BY <1>1, <2>1 DEF AcceptEffect, OwnInv, StatusInv
    <3>3. buf = <<>> /\ sock = <<>> /\ creq = 0
      BY <3>2 DEF StartInv
    <3>4. Unread' = <<>>
      BY <3>2, <3>3 DEF Unread
    <3> QED BY <1>n, <2>1, <3>1, <3>2, <3>3, <3>4 DEF Fresh
  <2>2. CASE UNCHANGED <<open, hreq, obj>>
    BY <1>1, <2>2 DEF AcceptEffect, OwnInv, Patient
  <2> QED BY <1>1, <2>1, <2>2 DEF AcceptEffect
<1>2. CASE ReturnEffect
  <2>1. /\ pc = "return" /\ pc' \in {"write", "loop"}
        /\ UNCHANGED <<hreq, creq, cpiece, kind, replies, piped, eof, pending, status, buf, sock>>
    BY <1>2 DEF ReturnEffect
  <2>2. Fresh /\ hreq \in Obj /\ Unread' = Unread
    BY <1>f, <2>1, UnreadSame
  <2>3. /\ obj'[hreq].out = obj[hreq].out /\ obj'[hreq].last = obj[hreq].last
        /\ obj'[hreq].uri = obj[hreq].uri \/ obj'[hreq].uri = FALSE
    <3>1. CASE UNCHANGED obj
      BY <3>1
    <3>2. ASSUME NEW p, clear # 0, Edit(clear, p), SameRequest(p, obj[clear]), p.uri = FALSE
          PROVE  /\ obj'[hreq].out = obj[hreq].out /\ obj'[hreq].last = obj[hreq].last
                 /\ obj'[hreq].uri = obj[hreq].uri \/ obj'[hreq].uri = FALSE
      <4>1. clear \in Obj
        BY <3>2 DEF TypeOK, CallType
      <4> QED BY <1>0, <2>2, <3>2, <4>1, EditIs DEF SameRequest
    <3> QED BY <1>2, <3>1, <3>2 DEF ReturnEffect
  <2> QED BY <2>1, <2>2, <2>3 DEF Fresh
<1>3. CASE ReadHandler
  <2>1. /\ pc = "read" /\ UNCHANGED <<hreq, creq, cpiece, kind, replies, piped, eof, pending>>
        /\ ReadReset \/ ReadQuiet \/ ReadEnd \/ ReadBadLine \/ ReadOn \/ ReadResp
    BY <1>3, ReadEffect
  <2>2. Fresh /\ hreq \in Obj
    BY <1>f, <2>1
  <2>3. CASE ReadReset
    BY <2>3 DEF ReadReset, Patient
  <2>4. CASE ReadQuiet
    BY <2>1, <2>2, <2>4 DEF ReadQuiet, Fresh
  <2>5. CASE ReadEnd
    BY <2>1, <2>2, <2>5 DEF ReadEnd, Fresh
  <2>6. CASE ReadBadLine
    BY <2>2, <2>6 DEF ReadBadLine, LineEnds, Fresh
  <2>7. CASE ReadOn
    BY <2>2, <2>7 DEF ReadOn, Started, Fresh
  <2>8. CASE ReadResp
    BY <2>2, <2>8 DEF ReadResp, RespInv, Fresh
  <2> QED BY <2>1, <2>3, <2>4, <2>5, <2>6, <2>7, <2>8
<1>4. CASE HandleEffect
  BY <1>4, <1>f DEF HandleEffect, Fresh
<1>5. CASE NothingEffect
  BY <1>5, <1>f DEF NothingEffect, Fresh, Patient
<1>6. CASE FlushEffect
  <2>1. hreq \in Obj /\ hreq # 0 /\ pc = "flush"
        /\ UNCHANGED <<creq, cpiece, kind, piped, eof, pending, sock>>
    BY <1>6, Connected DEF FlushEffect
  <2>2. CASE FlushFails
    BY <2>2 DEF FlushFails, Patient
  <2>3. CASE FlushCloses
    BY <2>3 DEF FlushCloses, Patient
  <2>4. CASE FlushWaits
    <3>1. UNCHANGED <<hreq, replies>> /\ obj[hreq].out # <<>>
      BY <2>4 DEF FlushWaits
    <3> QED BY <1>f, <2>1, <3>1 DEF Fresh
  <2>5. CASE FlushGoesOn
    <3>1. ~piped /\ obj[hreq].out # <<>> /\ ~obj[hreq].close
      BY <2>1, <2>5 DEF FlushGoesOn, Patient
    <3>2. Served
      BY <1>6, <3>1, OnePage
    <3>3. hreq + 1 \in Obj
      BY <1>6, <2>5, RoomForNext
    <3>4. obj'[hreq + 1] = NewReq
      BY <1>0, <2>1, <2>5, <3>3 DEF FlushGoesOn
    <3>5. hreq' = hreq + 1 /\ status' = "first" /\ pc' = "return" /\ buf' = <<>>
      BY <2>5 DEF FlushGoesOn
    <3>6. pending'[hreq + 1] = 0
      BY <1>0, <2>1, <3>3 DEF OwnInv
    <3>7. Unread = <<>> /\ (eof \/ cpiece = Pieces(kind[creq]))
      BY <2>1, <3>1, <3>2 DEF Served, Handled, Bytes, Arrived
    <3>8. sock = <<>>
      <4>1. buf \in Seq(Piece) /\ sock \in Seq(Piece)
        BY DEF TypeOK, DataType
      <4>2. buf \o sock = <<>>
        BY <3>7 DEF Unread
      <4>3. Len(buf \o sock) = Len(buf) + Len(sock) /\ Len(buf) \in Nat /\ Len(sock) \in Nat
        BY <4>1, ConcatProperties
      <4>4. Len(sock) = 0
        BY <4>2, <4>3
      <4> QED BY <4>1, <4>4
    <3>9. Unread' = <<>>
      BY <2>1, <3>5, <3>8 DEF Unread
    <3> QED BY <1>n, <2>1, <3>4, <3>5, <3>6, <3>7, <3>9 DEF Fresh
  <2> QED BY <1>6, <2>2, <2>3, <2>4, <2>5 DEF FlushEffect
<1>7. CASE FailEffect
  <2>1. CASE ec = "INVALID"
    <3>1. UNCHANGED <<hreq, creq, cpiece, kind, replies, piped, eof>> /\ pc = "fail"
      BY <1>7, <2>1 DEF FailEffect
    <3>2. Fresh
      BY <1>f, <2>1, <3>1
    <3> QED BY <3>1, <3>2 DEF Fresh
  <2>2. CASE ec # "INVALID"
    BY <1>7, <2>2 DEF FailEffect, Patient
  <2> QED BY <2>1, <2>2
<1>8. CASE IdleEffect
  <2>1. /\ UNCHANGED <<hreq, creq, cpiece, kind, replies, piped, pending, status, obj>>
        /\ Unread' = Unread /\ (eof => eof')
    BY <1>8, UnreadSame DEF IdleEffect
  <2>2. Patient
    BY <1>8 DEF IdleEffect, Patient
  <2>3. Fresh
    BY <2>1, <2>2 DEF QuietInv
  <2>4. pc' # "fail" /\ (pc' = "handle" => pc = "handle")
    BY <1>8, <2>3 DEF IdleEffect, Fresh, Patient
  <2> QED BY <2>1, <2>3, <2>4 DEF Fresh
<1>9. CASE SendEffect
  <2>1. UNCHANGED <<hreq, replies, eof>> /\ pc = "loop" /\ ~eof
    BY <1>9 DEF SendEffect
  <2>2. CASE creq > 0 /\ cpiece < Pieces(kind[creq]) /\ UNCHANGED <<creq, piped>>
    <3>1. Fresh
      BY <2>1, <2>2 DEF Patient, QuietInv
    <3>2. cpiece = Pieces(kind[creq]) /\ Pieces(kind[creq]) \in Nat
      BY <2>1, <2>2, <3>1, PiecesIs DEF Fresh
    <3> QED BY <2>2, <3>2
  <2>3. CASE creq' = creq + 1 /\ (~piped' => ~piped)
    BY <1>c, <2>1, <2>3 DEF Patient, ReplyInv
  <2> QED BY <1>9, <2>2, <2>3 DEF SendEffect
<1>10. CASE \E o \in Obj : ReplyEffect(o)
  <2>1. PICK o \in Obj : ReplyEffect(o)
    BY <1>10
  <2>2. /\ UNCHANGED <<hreq, creq, cpiece, kind, replies, piped, eof, status, buf, sock>>
        /\ pc = "loop"
    BY <2>1 DEF ReplyEffect
  <2>3. Fresh /\ hreq \in Obj /\ Unread' = Unread
    BY <1>f, <2>2, UnreadSame
  <2>4. o # hreq
    BY <1>0, <2>1, <2>3 DEF Fresh, ReplyEffect
  <2>5. obj'[hreq] = obj[hreq] /\ pending'[hreq] = pending[hreq]
    BY <1>0, <2>1, <2>3, <2>4 DEF ReplyEffect, Edit
  <2>6. pc' = "loop"
    BY <2>1, <2>2, <2>4 DEF ReplyEffect, OwnInv
  <2> QED BY <2>2, <2>3, <2>5, <2>6 DEF Fresh
<1> QED BY <1>1, <1>2, <1>3, <1>4, <1>5, <1>6, <1>7, <1>8, <1>9, <1>10, StepIs
      DEF Cases

(* The pieces of the request that is arriving, when its first line has     *)
(* been read: o is its object and rest what follows.                       *)
Arriving(o, rest) ==
  /\ o.req = creq /\ o.out = <<>> /\ o.uri /\ o.last \in Nat
  /\ o.last + Len(rest) = cpiece /\ Rest(rest, cpiece)
  /\ status # "body" => o.last = 2
  /\ status = "body" => o.last >= 3 /\ kind[creq] = "post"

LEMMA RestSuffix ==
  ASSUME TypeOK, NEW b \in Seq(Piece), NEW c, Suffix(c, b), Rest(b, cpiece)
  PROVE  Rest(c, cpiece)
<1>1. PICK k \in 0..Len(b) : /\ Len(c) = Len(b) - k
                            /\ \A i \in 1..Len(c) : c[i] = b[i + k]
  BY DEF Suffix
<1>2. PICK m \in Nat : m = Len(b)
  OBVIOUS
<1>3. c \in Seq(Piece) /\ DOMAIN c = 1..Len(c) /\ DOMAIN b = 1..m /\ Len(c) \in Nat
  BY <1>2 DEF Suffix
<1>4. cpiece \in Nat /\ m <= cpiece /\ Len(c) = m - k /\ k \in 0..m
  BY <1>1, <1>2, Counts DEF Rest
<1>5. ASSUME NEW i \in DOMAIN c PROVE c[i] = <<creq, (cpiece - Len(c)) + i>>
  <2>1. i \in 1..Len(c) /\ i + k \in DOMAIN b
    BY <1>3, <1>4
  <2>2. c[i] = b[i + k] /\ b[i + k] = <<creq, (cpiece - m) + (i + k)>>
    BY <1>1, <1>2, <2>1 DEF Rest
  <2>3. (cpiece - m) + (i + k) = (cpiece - Len(c)) + i
    BY <1>3, <1>4, <2>1
  <2> QED BY <2>2, <2>3
<1>6. Len(c) <= cpiece
  BY <1>3, <1>4
<1> QED BY <1>5, <1>6 DEF Rest

LEMMA ArrivingFacts ==
  ASSUME TypeOK, OrderInv, RankInv, RespInv, StatusInv, hreq \in Obj, pc = "read",
         ~obj[hreq].resp, Served, NEW o, NEW rest, Started(o, rest)
  PROVE  Arriving(o, rest) /\ rest \in Seq(Piece)
<1>0. /\ Unread \in Seq(Piece) /\ Len(Unread) \in Nat /\ DOMAIN Unread = 1..Len(Unread)
      /\ cpiece \in Nat /\ creq \in Nat /\ obj[hreq] \in Request
  BY Counts DEF TypeOK, ObjType
<1>1. rest \in Seq(Piece) /\ Suffix(rest, Unread) /\ Kept(o, obj[hreq])
  BY StartedFacts
<1>2. Rest(Unread, cpiece)
  BY DEF Served, Bytes
<1>3. Rest(rest, cpiece)
  BY <1>0, <1>1, <1>2, RestSuffix
<1>4. CASE status \in {"headers", "body"} /\ o = obj[hreq] /\ rest = Unread
  <2>1. o.last \in Nat
    BY <1>0, <1>4 DEF Request
  <2>2. obj[hreq].req = creq
    BY <1>4 DEF Served, Page
  <2>3. o.last + Len(rest) = cpiece /\ o.out = <<>>
    BY <1>4 DEF Served, Between
  <2>4. CASE status = "headers"
    <3>1. o.last = 2 /\ o.uri
      BY <1>4, <2>4 DEF Served, Between
    <3> QED BY <1>1, <1>3, <1>4, <2>1, <2>2, <2>3, <2>4, <3>1 DEF Arriving
  <2>5. CASE status = "body"
    <3>1. o.last >= 3 /\ kind[creq] = "post"
      BY <1>4, <2>5 DEF Served, Between
    <3>2. o.uri
      BY <1>4, <2>5 DEF StatusInv, Obj
    <3> QED BY <1>1, <1>3, <1>4, <2>1, <2>2, <2>3, <2>5, <3>1, <3>2 DEF Arriving
  <2> QED BY <1>4, <2>4, <2>5
<1>5. CASE /\ status = "first" /\ Len(Unread) >= 2 /\ Unread[1] = <<o.req, 1>>
           /\ Len(rest) = Len(Unread) - 2 /\ o.uri /\ o.last = 2
  <2>1. 0 + Len(Unread) = cpiece /\ obj[hreq].out = <<>>
    BY <1>5 DEF Served, Between
  <2>2. 1 \in DOMAIN Unread
    BY <1>0, <1>5
  <2>3. Unread[1] = <<creq, (cpiece - Len(Unread)) + 1>>
    BY <1>2, <2>2 DEF Rest
  <2>4. o.req = creq /\ o.out = <<>>
    BY <1>1, <1>5, <2>1, <2>3 DEF Kept
  <2>5. o.last + Len(rest) = cpiece /\ o.last \in Nat
    <3>1. PICK n \in Nat : n = Len(Unread)
      BY <1>0
    <3>2. n = cpiece
      BY <2>1, <3>1
    <3>3. o.last = 2 /\ Len(rest) = n - 2
      BY <1>5, <3>1
    <3> QED BY <3>2, <3>3
  <2> QED BY <1>1, <1>3, <1>5, <2>4, <2>5 DEF Arriving
<1> QED BY <1>4, <1>5 DEF Started

(* The body: all that has been sent is taken. *)
LEMMA ArrivingLast ==
  ASSUME TypeOK, NEW o, NEW rest \in Seq(Piece), Arriving(o, rest), NEW p, p \in Request,
         NEW h \in {0, 1}, LastSeen(p, o, rest, h),
         h = 1 => rest # <<>> /\ o.last = 2
  PROVE  p.last = cpiece
<1>0. /\ cpiece \in Nat /\ o.last \in Nat /\ p.last \in Nat
      /\ o.last + Len(rest) = cpiece
  BY Counts DEF Arriving, Request
<1>1. PICK n \in Nat : n = Len(rest)
  OBVIOUS
<1>2. DOMAIN rest = 1..n /\ o.last = cpiece - n
  BY <1>0, <1>1
<1>3. PICK l \in Nat : l = IF h = 1 THEN 3 ELSE o.last
  BY <1>0
<1>4. /\ p.last >= l
      /\ p.last = l \/ \E i \in DOMAIN rest : rest[i] = <<o.req, p.last>>
      /\ \A i \in DOMAIN rest : i > h /\ rest[i][1] = o.req => p.last >= rest[i][2]
  BY <1>3 DEF LastSeen
<1>5. \A i \in 1..n : rest[i] = <<creq, (cpiece - n) + i>>
  BY <1>1, <1>2 DEF Arriving, Rest
<1>6. h = 1 => n >= 1 /\ o.last = 2
  BY <1>1
<1>7. l <= cpiece
  BY <1>0, <1>1, <1>3, <1>6
<1>8. p.last <= cpiece
  <2>1. CASE p.last = l
    BY <1>7, <2>1
  <2>2. CASE \E i \in DOMAIN rest : rest[i] = <<o.req, p.last>>
    <3>1. PICK i \in 1..n : rest[i] = <<o.req, p.last>>
      BY <1>2, <2>2
    <3>2. p.last = (cpiece - n) + i
      BY <1>5, <3>1
    <3> QED BY <1>0, <1>1, <3>2
  <2> QED BY <1>4, <2>1, <2>2
<1>9. p.last >= cpiece
  <2>1. CASE n > h
    <3>1. n \in 1..n /\ n \in DOMAIN rest
      BY <1>1, <1>2, <2>1
    <3>2. rest[n] = <<creq, (cpiece - n) + n>>
      BY <1>5, <3>1
    <3>3. rest[n][1] = o.req /\ rest[n][2] = cpiece
      BY <1>0, <1>1, <3>2 DEF Arriving
    <3> QED BY <1>4, <2>1, <3>1, <3>3
  <2>2. CASE ~(n > h)
    <3>1. l = cpiece
      BY <1>0, <1>1, <1>3, <1>6, <2>2
    <3> QED BY <1>4, <3>1
  <2> QED BY <2>1, <2>2
<1> QED BY <1>0, <1>8, <1>9

(* Reading keeps account of what has arrived. *)
LEMMA BusyRead ==
  ASSUME TypeOK, TypeOK', OwnInv, OrderInv, RankInv, RespInv, StatusInv, ReadHandler,
         Served, creq > 0, Patient'
  PROVE  Served'
<1>0. /\ Unread \in Seq(Piece) /\ Len(Unread) \in Nat /\ DOMAIN Unread = 1..Len(Unread)
      /\ cpiece \in Nat /\ creq \in Nat /\ obj \in [Obj -> Request] /\ ObjType
      /\ status \in {"first", "headers", "body", "writing", "disconnected"}
  BY Counts DEF TypeOK, ObjType, CallType
<1> USE DEF clvars
<1>1. /\ hreq \in Obj /\ sock' = <<>> /\ pc = "read" /\ obj[hreq] \in Request
      /\ UNCHANGED <<hreq, kind, creq, cpiece, eof, blocked, pending>>
      /\ ReadReset \/ ReadQuiet \/ ReadEnd \/ ReadBadLine \/ ReadOn \/ ReadResp
  BY <1>0, ReadEffect
<1>2. CASE ReadReset
  BY <1>2 DEF ReadReset, Patient
<1>3. CASE ReadQuiet
  <2>1. Unread' = Unread /\ UNCHANGED <<status, obj>> /\ pc' = "return"
    BY <1>3 DEF ReadQuiet
  <2>2. Bytes' /\ Page' /\ Handled'
    BY <1>1, <2>1 DEF Served, Bytes, Rest, Arrived, Page, Handled
  <2>3. Between'
    BY <1>1, <2>1 DEF Served, Between
  <2> QED BY <2>2, <2>3 DEF Served
<1>4. CASE ReadEnd
  <2>1. /\ eof /\ Unread = <<>> /\ Unread' = <<>> /\ status' = "disconnected"
        /\ UNCHANGED obj /\ pc' = "handle"
    BY <1>4 DEF ReadEnd
  <2>2. Bytes'
    BY <1>1, <2>1 DEF Served, Bytes, Rest, Arrived
  <2>3. status # "first"
    <3>1. Len(Unread) = 0 /\ cpiece >= 1
      BY <2>1 DEF OrderInv
    <3> QED BY <1>1, <3>1 DEF Served, Between
  <2>4. Page'
    BY <1>1, <2>1, <2>3 DEF Served, Page
  <2>5. obj[hreq].out # <<>> => ~obj[hreq].uri
    BY <1>1 DEF Served, Between
  <2>6. Handled'
    BY <1>1, <2>1, <2>3, <2>5 DEF Served, Handled, Page
  <2> QED BY <2>1, <2>2, <2>4, <2>6 DEF Served, Between
<1>5. CASE ReadBadLine
  <2>1. PICK i \in LineEnds(Unread) :
          /\ status = "first" /\ status' = "first" /\ pc' = "fail" /\ ec' = "INVALID"
          /\ obj' = [obj EXCEPT ![hreq].req = Unread[i][1]]
          /\ Unread' = SubSeq(Unread, i + 1, Len(Unread))
          /\ \A j \in LineEnds(Unread) : i <= j
          /\ \/ kind[Unread[i][1]] = "badline" \/ obj[hreq].resp
             \/ SubSeq(Unread, 1, i) # <<<<Unread[i][1], 1>>, <<Unread[i][1], 2>>>>
    BY <1>5 DEF ReadBadLine
  <2>2. /\ Len(Unread) = cpiece /\ obj[hreq].out = <<>> /\ Rest(Unread, cpiece)
    BY <1>0, <1>1, <2>1 DEF Served, Between, Bytes
  <2>3. \A j \in DOMAIN Unread : Unread[j] = <<creq, j>>
    BY <1>0, <2>2 DEF Rest
  <2>4. i \in DOMAIN Unread /\ Unread[i][2] \in {2, 3} /\ i \in Nat
    BY <1>0, <2>1 DEF LineEnds
  <2>5. i = 2
    <3>1. i \in {2, 3}
      BY <2>3, <2>4
    <3>2. 2 \in DOMAIN Unread
      BY <1>0, <2>4, <3>1
    <3>3. 2 \in LineEnds(Unread)
      BY <2>3, <3>2 DEF LineEnds
    <3> QED BY <2>1, <3>1, <3>3
  <2>6. SubSeq(Unread, 1, i) = <<<<creq, 1>>, <<creq, 2>>>>
    <3>1. 1 \in DOMAIN Unread /\ 2 \in DOMAIN Unread /\ 2 <= Len(Unread)
      BY <1>0, <2>4, <2>5
    <3>2. Unread[1] = <<creq, 1>> /\ Unread[2] = <<creq, 2>>
      BY <2>3, <3>1
    <3>3. PICK s : s = SubSeq(Unread, 1, 2)
      OBVIOUS
    <3>4. s \in Seq(Piece) /\ Len(s) = 2 /\ s[1] = Unread[1] /\ s[2] = Unread[2]
      <4>1. 1 \in Int /\ 2 \in Int /\ \A j \in 1..2 : Unread[j] \in Piece
        BY <1>0, <3>1
      <4>2. /\ s \in Seq(Piece)
            /\ Len(s) = IF 1 <= 2 THEN 2 - 1 + 1 ELSE 0
            /\ \A j \in 1..(2 - 1 + 1) : s[j] = Unread[1 + j - 1]
        BY <1>0, <3>3, <4>1, SubSeqProperties
      <4>3. s[1] = Unread[1 + 1 - 1] /\ s[2] = Unread[1 + 2 - 1]
        BY <4>2
      <4> QED BY <4>2, <4>3
    <3>5. s = <<<<creq, 1>>, <<creq, 2>>>>
      BY <3>2, <3>4
    <3> QED BY <2>5, <3>3, <3>5
  <2>7. Unread[i][1] = creq
    BY <2>3, <2>4
  <2>8. kind[creq] = "badline"
    <3>1. ~obj[hreq].resp
      BY <1>1, <2>2 DEF RespInv
    <3> QED BY <2>1, <2>6, <2>7, <3>1
  <2>9. obj'[hreq].req = creq /\ obj'[hreq].out = <<>>
    BY <1>0, <1>1, <2>1, <2>2, <2>7 DEF Request
  <2>10. Suffix(Unread', Unread)
    <3>1. i \in 0..Len(Unread)
      BY <1>0, <2>4
    <3> QED BY <1>0, <2>1, <3>1, SuffixSub
  <2>11. Rest(Unread', cpiece)
    BY <1>0, <2>2, <2>10, RestSuffix
  <2>12. Bytes'
    BY <1>1, <2>1, <2>11 DEF Served, Bytes, Rest
  <2>13. ~blocked
    BY <2>2 DEF Served, Page
  <2> QED BY <1>1, <2>1, <2>8, <2>9, <2>12, <2>13 DEF Served, Page, Between, Handled
<1>6. CASE ReadOn
  <2>1. PICK o, rest, p :
          /\ ~obj[hreq].resp /\ Started(o, rest)
          /\ Kept(p, o) /\ p.req = o.req /\ p.uri = o.uri
          /\ obj' = [obj EXCEPT ![hreq] = p]
          /\ Suffix(Unread', rest)
          /\ \/ HeaderWait(p, o, rest) \/ HeaderBad(p, o, rest)
             \/ HeaderDone(p, o, rest) \/ BodyRead(p, o, rest)
    BY <1>6 DEF ReadOn
  <2>2. Arriving(o, rest) /\ rest \in Seq(Piece) /\ Len(rest) \in Nat
    BY <1>1, <2>1, ArrivingFacts
  <2>3. /\ obj'[hreq] = p /\ p.req = creq /\ p.out = <<>> /\ p.uri /\ p \in Request
        /\ p.last \in Nat
    BY <1>0, <1>1, <2>1, <2>2 DEF Kept, Arriving, Request
  <2>4. Rest(Unread', cpiece)
    BY <2>1, <2>2, RestSuffix DEF Arriving
  <2>5. cpiece <= Pieces(kind[creq])
    BY DEF Served, Bytes
  <2>6. ~blocked
    <3>1. CASE status \in {"first", "headers", "body"}
      BY <1>1, <3>1 DEF Served, Between, Page
    <3> QED BY <2>1, <3>1 DEF Started
  <2>7. Page'
    BY <1>1, <2>3, <2>6 DEF Page
  <2>8. (status' \in {"writing", "disconnected"} => Arrived') => Bytes'
    BY <1>1, <2>4, <2>5 DEF Bytes, Rest
  <2>9. CASE HeaderWait(p, o, rest)
    <3>1. rest = <<>> /\ p = o /\ status' = "headers" /\ pc' = "return" /\ status # "body"
      BY <2>9 DEF HeaderWait
    <3>2. Unread' = <<>>
      BY <2>1, <3>1 DEF Suffix
    <3>3. p.last = 2 /\ p.last + Len(Unread') = cpiece
      BY <2>2, <3>1, <3>2 DEF Arriving
    <3>4. Between'
      BY <1>1, <2>3, <3>1, <3>3 DEF Between
    <3> QED BY <2>7, <2>8, <3>1, <3>4 DEF Served, Handled
  <2>10. CASE HeaderBad(p, o, rest)
    <3>1. kind[creq] = "badhead" /\ status' \in {"headers", "body"} /\ pc' = "fail"
      BY <2>2, <2>10 DEF HeaderBad, Arriving
    <3>2. Handled'
      BY <1>1, <2>3, <3>1 DEF Handled
    <3> QED BY <2>7, <2>8, <3>1, <3>2 DEF Served, Between
  <2>11. CASE HeaderDone(p, o, rest)
    <3>1. /\ rest # <<>> /\ kind[creq] # "post" /\ Unread' = Tail(rest)
          /\ status' = "writing" /\ pc' = "handle" /\ o.last = 2
      BY <2>2, <2>11 DEF HeaderDone, Arriving
    <3>2. cpiece <= 3 /\ Pieces(kind[creq]) = 3
      BY <2>5, <3>1 DEF Pieces
    <3>3. Len(rest) = 1 /\ cpiece = 3
      <4>1. Len(rest) >= 1 /\ 2 + Len(rest) = cpiece
        BY <2>2, <3>1 DEF Arriving
      <4>2. PICK n \in Nat : n = Len(rest)
        BY <2>2
      <4>3. n >= 1 /\ 2 + n = cpiece
        BY <4>1, <4>2
      <4>4. n = 1 /\ cpiece = 3
        BY <3>2, <4>2, <4>3
      <4> QED BY <4>2, <4>4
    <3>4. Unread' = <<>>
      <4>1. Tail(rest) \in Seq(Piece) /\ Len(Tail(rest)) = 0
        BY <2>2, <3>1, <3>3
      <4> QED BY <3>1, <4>1
    <3>5. Arrived'
      BY <1>1, <3>2, <3>3, <3>4 DEF Arrived
    <3>6. Handled'
      BY <1>1, <2>3, <3>1 DEF Handled
    <3> QED BY <2>7, <2>8, <3>1, <3>5, <3>6 DEF Served, Between
  <2>12. CASE BodyRead(p, o, rest)
    <3>1. p.last = cpiece
      <4>1. CASE status = "body"
        <5>1. LastSeen(p, o, rest, 0)
          BY <2>12, <4>1 DEF BodyRead
        <5> QED BY <2>2, <2>3, <5>1, ArrivingLast
      <4>2. CASE status # "body"
        <5>1. LastSeen(p, o, rest, 1) /\ rest # <<>> /\ o.last = 2
          BY <2>2, <2>12, <4>2 DEF BodyRead, Arriving
        <5> QED BY <2>2, <2>3, <5>1, ArrivingLast
      <4> QED BY <4>1, <4>2
    <3>2. Unread' = <<>> /\ kind[creq] = "post" /\ Pieces(kind[creq]) = 5
      BY <2>2, <2>12 DEF BodyRead, Arriving, Pieces
    <3>3. p.last >= 3
      <4>1. CASE status = "body"
        <5>1. p.last >= o.last
          BY <2>12, <4>1 DEF BodyRead, LastSeen
        <5>2. o.last >= 3 /\ o.last \in Nat
          BY <2>2, <4>1 DEF Arriving
        <5> QED BY <2>3, <5>1, <5>2
      <4>2. CASE status # "body"
        BY <2>12, <4>2 DEF BodyRead, LastSeen
      <4> QED BY <4>1, <4>2
    <3>4. \/ p.last = 5 /\ status' = "writing" /\ pc' = "handle"
          \/ status' = "body" /\ pc' = "return"
          \/ eof /\ status' = "disconnected" /\ pc' = "handle"
      BY <2>12 DEF BodyRead
    <3>5. status' \in {"writing", "disconnected"} => Arrived'
      BY <1>1, <3>1, <3>2, <3>4 DEF Arrived
    <3>6. Handled'
      BY <1>1, <2>3, <3>4 DEF Handled
    <3>7. p.last + Len(Unread') = cpiece
      BY <2>3, <3>1, <3>2
    <3>8. Between'
      BY <1>1, <2>3, <3>2, <3>3, <3>4, <3>7 DEF Between
    <3> QED BY <2>7, <2>8, <3>5, <3>6, <3>8 DEF Served
  <2> QED BY <2>1, <2>9, <2>10, <2>11, <2>12
<1>7. CASE ReadResp
  <2>1. obj[hreq].resp /\ status \in {"first", "headers", "body"}
    BY <1>7 DEF ReadResp
  <2>2. obj[hreq].out = <<>>
    BY <1>1, <2>1 DEF Served, Between
  <2> QED BY <1>1, <2>1, <2>2 DEF RespInv
<1> QED BY <1>1, <1>2, <1>3, <1>4, <1>5, <1>6, <1>7

(* The last request is served, whatever happens. *)
LEMMA BusyStep ==
  ASSUME TypeOK, TypeOK', OwnInv, OrderInv, RankInv, RespInv, StatusInv, HandsInv,
         ClearInv, StartInv, ReplyInv, QuietInv, BusyInv, [Next]_vars
  PROVE  BusyInv'
<1>0. /\ ObjType /\ 0 \notin Obj /\ Obj \subseteq Nat
      /\ obj \in [Obj -> Request] /\ pending \in [Obj -> Nat]
      /\ hreq \in Obj \cup {0} /\ hreq \in Nat
      /\ status \in {"first", "headers", "body", "writing", "disconnected"}
  <2>1. ObjType /\ CallType /\ Obj \subseteq Nat /\ 0 \notin Obj
    BY DEF TypeOK, Obj
  <2> QED BY <2>1 DEF ObjType, CallType
<1>c. /\ creq \in Nat /\ cpiece \in Nat /\ Len(replies) \in Nat /\ Unread \in Seq(Piece)
      /\ Len(Unread) \in Nat /\ DOMAIN Unread = 1..Len(Unread)
  BY Counts
<1> USE DEF call, hvars, wvars, svars, clvars, hist
<1> SUFFICES ASSUME Patient', creq' > Len(replies') PROVE Served'
  BY DEF BusyInv
<1>f. ASSUME UNCHANGED <<hreq, creq, replies, piped>>, pc # "fail" \/ ec = "INVALID"
      PROVE  Served /\ hreq \in Obj /\ creq > 0
  BY <1>0, <1>c, <1>f DEF Patient, BusyInv
<1>b. ASSUME UNCHANGED <<creq, cpiece, kind, status, buf, sock>>, eof => eof', Served
      PROVE  Bytes'
  <2>1. Unread' = Unread
    BY <1>b, UnreadSame
  <2> QED BY <1>b, <2>1 DEF Served, Bytes, Rest, Arrived
<1>1. CASE AcceptEffect
  <2>1. creq' = 0 /\ replies' = replies
    BY <1>1 DEF AcceptEffect, StartInv
  <2> QED BY <1>c, <2>1
<1>2. CASE ReturnEffect
  <2>1. /\ pc = "return" /\ pc' \in {"write", "loop"}
        /\ UNCHANGED <<hreq, creq, cpiece, kind, replies, piped, eof, pending, status, buf,
                       sock, blocked>>
    BY <1>2 DEF ReturnEffect
  <2>2. Served /\ hreq \in Obj /\ Unread' = Unread
    BY <1>f, <2>1, UnreadSame
  <2>3. Bytes'
    BY <1>b, <2>1, <2>2
  <2>4. /\ obj'[hreq].out = obj[hreq].out /\ obj'[hreq].last = obj[hreq].last
        /\ obj'[hreq].req = obj[hreq].req
        /\ \/ obj'[hreq].uri = obj[hreq].uri
           \/ obj'[hreq].uri = FALSE /\ status \in {"writing", "disconnected"}
    <3>1. CASE UNCHANGED obj
      BY <3>1
    <3>2. ASSUME NEW p, clear # 0, Edit(clear, p), SameRequest(p, obj[clear]), p.uri = FALSE
          PROVE  /\ obj'[hreq].out = obj[hreq].out /\ obj'[hreq].last = obj[hreq].last
                 /\ obj'[hreq].req = obj[hreq].req
                 /\ \/ obj'[hreq].uri = obj[hreq].uri
                    \/ obj'[hreq].uri = FALSE /\ status \in {"writing", "disconnected"}
      <4>1. clear \in Obj
        BY <3>2 DEF TypeOK, CallType
      <4>2. obj'[clear] = p /\ \A q \in Obj : q # clear => obj'[q] = obj[q]
        BY <1>0, <3>2, <4>1, EditIs
      <4>3. CASE clear = hreq
        BY <3>2, <4>2, <4>3 DEF SameRequest, ClearInv
      <4>4. CASE clear # hreq
        BY <2>2, <4>2, <4>4
      <4> QED BY <4>3, <4>4
    <3> QED BY <1>2, <3>1, <3>2 DEF ReturnEffect
  <2>5. Page'
    BY <2>1, <2>2, <2>4 DEF Served, Page
  <2>6. Between'
    BY <2>1, <2>2, <2>4 DEF Served, Between
  <2> QED BY <2>1, <2>3, <2>5, <2>6 DEF Served, Handled
<1>3. CASE ReadHandler
  <2>1. pc = "read" /\ UNCHANGED <<hreq, creq, replies, piped>>
    BY <1>3, ReadEffect
  <2>2. Served /\ creq > 0
    BY <1>f, <2>1
  <2> QED BY <1>3, <2>2, BusyRead
<1>4. CASE HandleEffect
  <2>1. /\ pc = "handle" /\ obj[hreq].uri
        /\ UNCHANGED <<hreq, creq, cpiece, kind, replies, piped, eof, status, buf, sock, blocked>>
    BY <1>4 DEF HandleEffect
  <2>2. Served /\ hreq \in Obj /\ hreq # 0
    BY <1>0, <1>f, <2>1
  <2>3. Bytes'
    BY <1>b, <2>1, <2>2
  <2>4. obj[hreq].req = creq /\ obj[hreq].out = <<>>
    BY <2>1, <2>2 DEF Served, Handled
  <2>5. status \in {"writing", "disconnected"}
    BY <1>0, <2>1, <2>2 DEF StatusInv
  <2>6. ~blocked
    BY <2>2, <2>4 DEF Served, Page
  <2>7. PICK p : /\ Edit(hreq, p)
                 /\ \/ SameRequest(p, obj[hreq]) /\ pc' = "return"
                    \/ /\ Answered(p, obj[hreq]) /\ pc' = "flush"
                       /\ kind[obj[hreq].req] \in {"status", "sync"}
    BY <1>4 DEF HandleEffect
  <2>8. obj'[hreq] = p
    BY <1>0, <2>2, <2>7, EditIs
  <2>9. CASE SameRequest(p, obj[hreq]) /\ pc' = "return"
    <3>1. obj'[hreq].req = creq /\ obj'[hreq].out = <<>>
      BY <2>4, <2>8, <2>9 DEF SameRequest
    <3> QED BY <2>1, <2>3, <2>5, <2>6, <2>9, <3>1 DEF Served, Page, Between, Handled
  <2>10. CASE /\ Answered(p, obj[hreq]) /\ pc' = "flush"
              /\ kind[obj[hreq].req] \in {"status", "sync"}
    <3>1. obj'[hreq].req = creq /\ obj'[hreq].out = <<creq>>
      BY <2>4, <2>8, <2>10 DEF Answered
    <3> QED BY <2>1, <2>3, <2>4, <2>5, <2>6, <2>10, <3>1 DEF Served, Page, Between, Handled
  <2> QED BY <2>7, <2>9, <2>10
<1>5. CASE NothingEffect
  <2>1. /\ pc = "handle" /\ ~obj[hreq].uri
        /\ UNCHANGED <<hreq, creq, cpiece, kind, replies, piped, eof, status, buf, sock, blocked>>
    BY <1>5 DEF NothingEffect
  <2>2. Served /\ hreq \in Obj /\ hreq # 0
    BY <1>0, <1>f, <2>1
  <2>3. Bytes'
    BY <1>b, <2>1, <2>2
  <2>4. CASE pc' = "fail" /\ ec' = "READ_EOF"
    BY <2>4 DEF Patient
  <2>5. CASE status # "disconnected" /\ pc' = "flush"
    <3>a. obj[hreq].req = creq /\ obj[hreq].out = <<>>
      BY <2>1, <2>2, <2>5 DEF Served, Handled
    <3>1. status \in {"first", "headers", "body"}
      <4>1. ~obj[hreq].resp
        BY <2>2, <3>a DEF RespInv
      <4> QED BY <1>0, <2>1, <2>2, <2>5, <4>1 DEF StatusInv
    <3>2. /\ obj[hreq].req = creq /\ obj[hreq].out = <<>>
          /\ kind[creq] \in {"badline", "badhead"}
      BY <2>1, <2>2, <3>a, <3>1 DEF Served, Handled
    <3>3. ~blocked
      BY <2>2, <3>2 DEF Served, Page
    <3>4. PICK p : Edit(hreq, p) /\ Answered(p, obj[hreq]) /\ p.close = TRUE
      BY <1>5, <2>5 DEF NothingEffect
    <3>5. obj'[hreq] = p
      BY <1>0, <2>2, <3>4, EditIs
    <3>6. p.req = creq /\ p.out = <<creq>>
      BY <3>2, <3>4 DEF Answered
    <3>7. Page'
      BY <2>1, <3>3, <3>5, <3>6 DEF Page
    <3>8. Handled'
      BY <2>1, <2>5, <3>2, <3>4, <3>5, <3>6 DEF Handled
    <3> QED BY <2>3, <2>5, <3>7, <3>8 DEF Served, Between
  <2> QED BY <1>5, <2>4, <2>5 DEF NothingEffect
<1>6. CASE FlushEffect
  <2>1. hreq \in Obj /\ hreq # 0 /\ pc = "flush"
        /\ UNCHANGED <<creq, cpiece, kind, piped, eof, pending, sock>>
    BY <1>6, Connected DEF FlushEffect
  <2>2. CASE FlushFails
    BY <2>2 DEF FlushFails, Patient
  <2>3. CASE FlushCloses
    BY <2>3 DEF FlushCloses, Patient
  <2>4. CASE FlushGoesOn
    <3>1. ~piped /\ obj[hreq].out # <<>> /\ replies' = replies \o obj[hreq].out
      BY <2>1, <2>4 DEF FlushGoesOn, Patient
    <3>2. Len(replies') = creq
      BY <1>6, <3>1, OnePage
    <3> QED BY <1>c, <2>1, <3>2
  <2>5. CASE FlushWaits
    <3>1. /\ ~piped /\ obj[hreq].out # <<>> /\ UNCHANGED <<hreq, status, buf, replies>>
          /\ (blocked \/ MayBlock) /\ pc' = "return" /\ blocked' = TRUE
      BY <2>1, <2>5 DEF FlushWaits, Patient
    <3>2. Served
      BY <1>6, <3>1, OnePage
    <3>3. Bytes'
      BY <1>b, <2>1, <3>1, <3>2
    <3>4. obj[hreq].req = creq
      BY <2>1, <3>1, <3>2 DEF Served, Handled
    <3>5. kind[creq] \in {"get", "post"}
      BY <3>1, <3>2, <3>4 DEF Served, Page, MayBlock
    <3>6. /\ status \in {"writing", "disconnected"}
          /\ ~obj[hreq].uri /\ pending[hreq] = 0
      BY <2>1, <3>1, <3>2, <3>5 DEF Served, Handled
    <3>7. PICK p : Edit(hreq, p) /\ SameRequest(p, obj[hreq]) /\ p.uri = obj[hreq].uri
      BY <2>5 DEF FlushWaits
    <3>8. obj'[hreq] = p /\ p.out = obj[hreq].out /\ p.req = creq
      BY <1>0, <2>1, <3>4, <3>7, EditIs DEF SameRequest
    <3>9. Page'
      BY <2>1, <3>1, <3>2, <3>5, <3>8 DEF Served, Page
    <3>10. Between'
      BY <2>1, <3>1, <3>5, <3>6, <3>7, <3>8 DEF Between
    <3> QED BY <3>1, <3>3, <3>9, <3>10 DEF Served, Handled
  <2> QED BY <1>6, <2>2, <2>3, <2>4, <2>5 DEF FlushEffect
<1>7. CASE FailEffect
  <2>1. CASE ec # "INVALID"
    BY <1>7, <2>1 DEF FailEffect, Patient
  <2>2. CASE ec = "INVALID"
    <3>1. /\ UNCHANGED <<hreq, creq, cpiece, kind, replies, piped, eof, status, buf, sock, blocked>>
          /\ pc = "fail" /\ pc' = "handle"
      BY <1>7, <2>2 DEF FailEffect
    <3>2. Served /\ hreq \in Obj
      BY <1>f, <2>2, <3>1
    <3>3. Bytes'
      BY <1>b, <3>1, <3>2
    <3>4. PICK p : Edit(hreq, p) /\ SameRequest(p, obj[hreq])
      BY <1>7 DEF FailEffect
    <3>5. obj'[hreq].req = obj[hreq].req /\ obj'[hreq].out = obj[hreq].out
      BY <1>0, <3>2, <3>4, EditIs DEF SameRequest
    <3>6. Page'
      BY <3>1, <3>2, <3>5 DEF Served, Page
    <3>7. Handled'
      BY <3>1, <3>2, <3>5 DEF Served, Handled
    <3> QED BY <3>1, <3>3, <3>6, <3>7 DEF Served, Between
  <2> QED BY <2>1, <2>2
<1>8. CASE IdleEffect
  <2>1. /\ UNCHANGED <<hreq, creq, cpiece, kind, replies, piped, pending, status, obj, buf, sock>>
        /\ Unread' = Unread /\ (eof => eof') /\ (blocked' => blocked)
    BY <1>8, UnreadSame DEF IdleEffect
  <2>2. Patient
    BY <1>8 DEF IdleEffect, Patient
  <2>3. Served
    BY <2>1, <2>2 DEF BusyInv
  <2>4. Bytes'
    BY <1>b, <2>1, <2>3
  <2>5. Page'
    BY <2>1, <2>3 DEF Served, Page
  <2>6. \/ pc' = pc
        \/ pc \in {"loop", "write"} /\ pc' \in {"read", "write", "flush", "return"}
    BY <1>8 DEF IdleEffect, Patient
  <2>7. Between'
    BY <2>1, <2>3, <2>6 DEF Served, Between
  <2>8. Handled'
    <3>1. CASE pc' = pc
      BY <2>1, <2>3, <3>1 DEF Served, Handled
    <3>2. CASE pc \in {"loop", "write"} /\ pc' \in {"read", "write", "flush", "return"}
      <4>1. obj[hreq].out # <<>> =>
              /\ status \in {"writing", "disconnected"} /\ obj[hreq].req = creq
              /\ ~obj[hreq].uri /\ pending[hreq] = 0
        BY <1>0, <2>3, <3>2 DEF Served, Between, Page
      <4> QED BY <2>1, <3>2, <4>1 DEF Handled
    <3> QED BY <2>6, <3>1, <3>2
  <2> QED BY <2>4, <2>5, <2>7, <2>8 DEF Served
<1>9. CASE SendEffect
  <2>1. /\ UNCHANGED <<hreq, replies, eof, obj, pending, status, blocked, pc>>
        /\ pc = "loop" /\ ~eof
    BY <1>9 DEF SendEffect
  <2>2. /\ Unread' \in Seq(Piece) /\ Len(Unread') = Len(Unread) + 1
        /\ \A i \in 1..Len(Unread) : Unread'[i] = Unread[i]
        /\ Unread'[Len(Unread) + 1] = <<creq', cpiece'>>
    BY <1>9, SendUnread
  <2>3. PICK n \in Nat : n = Len(Unread)
    BY <1>c
  <2>4. Len(Unread') = n + 1 /\ DOMAIN Unread' = 1..(n + 1)
    BY <2>2, <2>3
  <2>5. CASE creq > 0 /\ cpiece < Pieces(kind[creq]) /\ creq' = creq /\ cpiece' = cpiece + 1
             /\ UNCHANGED <<kind, piped>>
    <3>1. Served
      BY <1>f, <2>1, <2>5
    <3>2. Pieces(kind[creq]) \in Nat
      BY PiecesIs
    <3>3. status \notin {"writing", "disconnected"}
      BY <1>c, <2>1, <2>5, <3>1, <3>2 DEF Served, Bytes, Arrived
    <3>4. status \in {"first", "headers", "body"}
      BY <1>0, <3>3
    <3>5. n <= cpiece /\ \A i \in 1..n : Unread[i] = <<creq, (cpiece - n) + i>>
      BY <1>c, <2>3, <3>1 DEF Served, Bytes, Rest
    <3>6. ASSUME NEW i \in 1..(n + 1)
          PROVE  Unread'[i] = <<creq, ((cpiece + 1) - (n + 1)) + i>>
      <4>1. CASE i \in 1..n
        <5>1. (cpiece - n) + i = ((cpiece + 1) - (n + 1)) + i
          BY <1>c, <2>3
        <5>2. Unread'[i] = <<creq, (cpiece - n) + i>>
          BY <2>2, <2>3, <3>5, <4>1
        <5> QED BY <5>1, <5>2
      <4>2. CASE i = n + 1
        <5>1. Unread'[i] = <<creq, cpiece + 1>>
          BY <2>2, <2>3, <2>5, <4>2
        <5>2. ((cpiece + 1) - (n + 1)) + i = cpiece + 1
          BY <1>c, <2>3, <4>2
        <5> QED BY <5>1, <5>2
      <4> QED BY <2>3, <4>1, <4>2
    <3>7. Rest(Unread, cpiece)'
      <4>1. n + 1 <= cpiece + 1
        BY <1>c, <2>3, <3>5
      <4> QED BY <2>4, <2>5, <3>6, <4>1 DEF Rest
    <3>8. cpiece + 1 <= Pieces(kind[creq])
      BY <1>c, <2>5, <3>2
    <3>9. Bytes'
      BY <2>1, <2>5, <3>3, <3>7, <3>8 DEF Bytes
    <3>10. Page'
      BY <2>1, <2>5, <3>1 DEF Served, Page
    <3>11. obj[hreq].last + (n + 1) = cpiece + 1 /\ obj[hreq].out = <<>>
      <4>1. obj[hreq].last + n = cpiece /\ obj[hreq].out = <<>>
        BY <2>1, <2>3, <3>1, <3>4 DEF Served, Between
      <4>2. obj[hreq].last \in Nat
        BY <1>0, <1>f, <2>1, <2>5 DEF Request
      <4> QED BY <1>c, <2>3, <4>1, <4>2
    <3>12. Between'
      BY <2>1, <2>4, <2>5, <3>1, <3>11 DEF Served, Between
    <3> QED BY <2>1, <3>9, <3>10, <3>12 DEF Served, Handled
  <2>6. CASE creq' = creq + 1 /\ cpiece' = 1 /\ (~piped' => ~piped /\ Waited)
    <3>1. ~piped /\ creq = Len(replies) /\ ~blocked
      BY <1>c, <2>6 DEF Patient, Waited, ReplyInv
    <3>2. Fresh
      BY <2>1, <3>1 DEF Patient, QuietInv
    <3>3. Unread = <<>> /\ status = "first" /\ obj[hreq].out = <<>> /\ obj[hreq].last = 0
      BY <2>1, <3>2 DEF Fresh
    <3>4. n = 0
      BY <2>3, <3>3
    <3>5. Len(Unread') = 1 /\ DOMAIN Unread' = 1..1 /\ Unread'[1] = <<creq', 1>>
      BY <2>2, <2>3, <2>4, <2>6, <3>4
    <3>6. Rest(Unread, cpiece)'
      BY <2>6, <3>5 DEF Rest
    <3>7. 1 <= Pieces(kind'[creq'])
      BY PiecesIs
    <3>8. Bytes'
      BY <2>1, <2>6, <3>3, <3>6, <3>7 DEF Bytes
    <3>9. Page'
      BY <2>1, <3>1, <3>3 DEF Page
    <3>10. Between'
      BY <2>1, <2>6, <3>3, <3>5 DEF Between
    <3> QED BY <2>1, <3>8, <3>9, <3>10 DEF Served, Handled
  <2> QED BY <1>9, <2>5, <2>6 DEF SendEffect
<1>10. CASE \E o \in Obj : ReplyEffect(o)
  <2>1. PICK o \in Obj : ReplyEffect(o)
    BY <1>10
  <2>2. /\ UNCHANGED <<hreq, creq, cpiece, kind, replies, piped, eof, status, buf, sock, blocked>>
        /\ pc = "loop" /\ pending[o] > 0 /\ pending' = [pending EXCEPT ![o] = @ - 1]
    BY <2>1 DEF ReplyEffect
  <2>3. Served /\ hreq \in Obj /\ hreq # 0 /\ Unread' = Unread
    BY <1>0, <1>f, <2>2, UnreadSame
  <2>4. Bytes'
    BY <1>b, <2>2, <2>3
  <2>5. CASE o # hreq
    <3>1. obj'[hreq] = obj[hreq] /\ pending'[hreq] = pending[hreq]
      BY <1>0, <2>1, <2>3, <2>5 DEF ReplyEffect, Edit
    <3>2. pc' = "loop"
      BY <2>1, <2>2, <2>5 DEF ReplyEffect, OwnInv
    <3>3. Page'
      BY <2>2, <2>3, <3>1 DEF Served, Page
    <3>4. Between'
      BY <2>2, <2>3, <3>1, <3>2 DEF Served, Between
    <3> QED BY <2>4, <3>2, <3>3, <3>4 DEF Served, Handled
  <2>6. CASE o = hreq
    <3>1. obj[hreq].state = "live" /\ obj[hreq].attached
      BY <2>3 DEF OwnInv
    <3>2. PICK p : Edit(hreq, p) /\ Answered(p, obj[hreq]) /\ pc' = "flush"
      BY <2>1, <2>6, <3>1 DEF ReplyEffect
    <3>3. status \in {"writing", "disconnected"}
      BY <1>0, <2>2, <2>3, <2>6 DEF StatusInv
    <3>4. obj[hreq].req = creq /\ obj[hreq].out = <<>> /\ ~blocked
      BY <1>0, <2>2, <2>3, <2>6, <3>3 DEF Served, Page, Between
    <3>5. obj'[hreq] = p /\ p.req = creq /\ p.out = <<creq>> /\ p.uri = obj[hreq].uri
      BY <1>0, <2>3, <3>2, <3>4, EditIs DEF Answered
    <3>6. kind[creq] \in {"get", "post"} => ~obj[hreq].uri /\ pending[hreq] = 1
      BY <2>2, <2>3, <2>6, <3>4 DEF HandsInv
    <3>7. pending'[hreq] = pending[hreq] - 1
      BY <1>0, <2>2, <2>3, <2>6
    <3>8. kind[creq] \in {"get", "post"} => ~p.uri /\ pending'[hreq] = 0
      BY <3>5, <3>6, <3>7
    <3>9. Page'
      BY <2>2, <3>4, <3>5 DEF Page
    <3>10. Handled'
      BY <2>2, <3>2, <3>3, <3>5, <3>8 DEF Handled
    <3> QED BY <2>4, <3>2, <3>9, <3>10 DEF Served, Between
  <2> QED BY <2>5, <2>6
<1> QED BY <1>1, <1>2, <1>3, <1>4, <1>5, <1>6, <1>7, <1>8, <1>9, <1>10, StepIs
      DEF Cases

-----------------------------------------------------------------------------
(* The theorems.                                                           *)

LEMMA InitInv == Init => Inv
<1> SUFFICES ASSUME Init PROVE Inv
  OBVIOUS
<1> USE DEF Init
<1>o. PICK e : e = [NewReq EXCEPT !.state = "new", !.attached = FALSE]
  OBVIOUS
<1>e. /\ e.state = "new" /\ e.attached = FALSE /\ e.uri = FALSE /\ e.userdone = TRUE
      /\ e.req = 0 /\ e.last = 0 /\ e.out = <<>> /\ e.close = FALSE /\ e \in Request
      /\ e.resp = FALSE
  <2>1. e = [state |-> "new", attached |-> FALSE, uri |-> FALSE,
             resp |-> FALSE, userdone |-> TRUE, close |-> FALSE, req |-> 0,
             last |-> 0, out |-> <<>>, blocks |-> 0]
    BY <1>o DEF NewReq
  <2>2. <<>> \in Seq(Req \cup {0}) /\ 0 \in 0..Blocks /\ 0 \in 0..5 /\ 0 \in Req \cup {0}
    OBVIOUS
  <2>3. e \in Request
    BY <2>1, <2>2 DEF Request
  <2> QED BY <2>1, <2>3
<1>q. \A o \in Obj : obj[o] = e /\ pending[o] = 0
  BY <1>o
<1>u. Unread = <<>>
  BY DEF Unread
<1>1. TypeOK
  <2>1. CallType
    BY DEF CallType, Code
  <2>2. FlagType
    BY DEF FlagType
  <2>3. ObjType
    BY <1>o, <1>e DEF ObjType
  <2>4. DataType
    <3>1. buf \in Seq(Piece) /\ sock \in Seq(Piece) /\ replies \in Seq(Req \cup {0})
      OBVIOUS
    <3>2. kind \in [Req -> Kind] /\ keep \in [Req -> BOOLEAN]
      BY DEF Kind
    <3> QED BY <3>1, <3>2 DEF DataType
  <2> QED BY <2>1, <2>2, <2>3, <2>4 DEF TypeOK
<1>2. OwnInv
  <2>1. /\ open = FALSE /\ hreq = 0 /\ wtimer = FALSE /\ pc = "accept" /\ 0 \notin Obj
    BY DEF Obj
  <2> HIDE DEF Init
  <2>2. \A o \in Obj : /\ o # hreq /\ obj[o].state # "live" /\ pending[o] = 0
    BY <1>q, <1>e, <2>1
  <2> QED BY <2>1, <2>2 DEF OwnInv
<1>3. OrderInv
  <2>1. creq = 0
    OBVIOUS
  <2> HIDE DEF Init
  <2>2. DOMAIN Unread = {}
    BY <1>u
  <2>3. \A o \in Obj : obj[o].req <= creq
    BY <1>q, <1>e, <2>1
  <2> QED BY <2>1, <2>2, <2>3 DEF OrderInv, Sorted, After
<1>4. RankInv /\ StatusInv /\ ClearInv /\ FaultInv /\ WholeInv /\ StartInv
  BY DEF RankInv, StatusInv, ClearInv, FaultInv, WholeInv, StartInv, Unread
<1>5. RespInv /\ HandsInv
  <2>1. hreq = 0
    OBVIOUS
  <2> HIDE DEF Init
  <2> QED BY <1>q, <1>e, <2>1 DEF RespInv, HandsInv
<1>6. ReplyInv /\ QuietInv /\ BusyInv
  BY DEF ReplyInv, QuietInv, BusyInv, Patient
<1> QED BY <1>1, <1>2, <1>3, <1>4, <1>5, <1>6 DEF Inv

LEMMA StepInv == Inv /\ [Next]_vars => Inv'
<1> SUFFICES ASSUME Inv, [Next]_vars PROVE Inv'
  OBVIOUS
<1>0. /\ TypeOK /\ OwnInv /\ OrderInv /\ RankInv /\ RespInv /\ StatusInv /\ HandsInv
      /\ ClearInv /\ FaultInv /\ WholeInv /\ StartInv /\ ReplyInv /\ QuietInv /\ BusyInv
  BY DEF Inv
<1>1. TypeOK'
  BY <1>0, TypeStep
<1>2. OwnInv' /\ OrderInv' /\ RankInv' /\ RespInv'
  BY <1>0, <1>1, OwnStep, OrderStep, RankStep, RespStep
<1>3. StatusInv' /\ HandsInv' /\ ClearInv'
  BY <1>0, <1>1, StatusStep, HandsStep, ClearStep
<1>4. FaultInv' /\ WholeInv' /\ StartInv'
  BY <1>0, FaultStep, WholeStep, StartStep
<1>5. ReplyInv' /\ QuietInv' /\ BusyInv'
  BY <1>0, <1>1, ReplyStep, QuietStep, BusyStep
<1> QED BY <1>1, <1>2, <1>3, <1>4, <1>5 DEF Inv

LEMMA InvAlways == SafeSpec => []Inv
  BY InitInv, StepInv, PTL DEF SafeSpec

(* Whichever comes first, the reply, the client's leaving or the timeout,  *)
(* no request object of a connection is leaked, none is used by            *)
(* http_send_reply or http_handle_request after http_request_free has      *)
(* cleared it, but for the two known cases: for any number of requests.    *)
THEOREM RequestsOwnedAlways == SafeSpec => []Owned
<1>1. Inv => Owned
  <2> SUFFICES ASSUME Inv PROVE Owned
    OBVIOUS
  <2>1. TypeOK /\ OwnInv /\ FaultInv
    BY DEF Inv
  <2>2. hreq # 0 => hreq \in Obj
    BY <2>1 DEF TypeOK, CallType
  <2>3. open = (hreq # 0)
    <3>1. open \in BOOLEAN /\ (open <=> hreq # 0)
      BY <2>1 DEF TypeOK, FlagType, OwnInv
    <3> QED BY <3>1
  <2>4. open => obj[hreq].state = "live" /\ obj[hreq].attached
    BY <2>1, <2>2 DEF OwnInv
  <2>5. \A o \in Obj : obj[o].state = "live" /\ o # hreq
                         => ~obj[o].attached /\ pending[o] > 0
    BY <2>1 DEF OwnInv
  <2> QED BY <2>1, <2>3, <2>4, <2>5 DEF Owned, FaultInv
<1> QED BY InvAlways, <1>1, PTL

(* However a request is cut into pieces and mixed with others in the       *)
(* socket, http_conn_done calls http_handle_request for it only when all   *)
(* of it has arrived, or the client has closed the connection.             *)
THEOREM RequestsWholeAlways == SafeSpec => []WholeUnlessClosed
<1>1. Inv => WholeUnlessClosed
  BY DEF Inv, WholeInv, WholeUnlessClosed
<1> QED BY InvAlways, <1>1, PTL

(* A client that waits for each reply before it sends the next request     *)
(* gets exactly the reply to it, for every sequence of requests, good and  *)
(* malformed, on one connection, at every speed of reading.                *)
THEOREM InOrderAlways == SafeSpec => []InOrder
<1>1. Inv => InOrder
  BY DEF Inv, ReplyInv, InOrder
<1> QED BY InvAlways, <1>1, PTL
=============================================================================
