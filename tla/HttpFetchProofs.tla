-------------------------- MODULE HttpFetchProofs --------------------------
(***************************************************************************)
(* Three results about fetch(), for every set of URLs and of servers, and  *)
(* every size of the buffers and of the TCP window.                        *)
(*                                                                         *)
(* No stall: every segment is acknowledged in full, also what fetch_body   *)
(* has no room for, so that the window is open whenever a segment comes.   *)
(*                                                                         *)
(* The answer is the server's: Core 0 begins every request afresh, and a   *)
(* status is left behind by a connection that was closed with the body     *)
(* complete, after its headers, and by no other (Heard).  OneFetch says    *)
(* where the request of the script is meanwhile.                           *)
(*                                                                         *)
(* The text is the body's: what has come is a piece that the segments      *)
(* still to come complete to the body, and fetch_body is as much of its    *)
(* beginning as fits.  What the segments make together is a fold, and      *)
(* that it may be cut anywhere is proved by induction on their number.     *)
(***************************************************************************)
EXTENDS HttpFetch, SequenceTheorems, WellFoundedInduction, TLAPS

Hosts == {u.host : u \in Urls} \union {"", "cut"}
Ports == {Port(u) : u \in Urls} \union {0}
Paths == {u.path : u \in Urls} \union {""}
Ats   == {"none", "connecting", "headers", "body", "closed"}
Hows  == {"none", "unreachable", "closed", "reset", "timeout"}
Conns == [at : Ats, host : Hosts, port : Ports, path : Paths,
          reply : Replies \union {NoReply}, rest : Seq(Seq(Nat)), unread : {0}, how : Hows]

(***************************************************************************)
(* The window                                                              *)
(***************************************************************************)
WindowInv ==
  /\ conn \in Conns /\ (url.http => url \in Urls)
  /\ conn.at # "closed" => conn.how = "none"
  /\ \A i \in DOMAIN conn.rest : Len(conn.rest[i]) <= Window
  /\ NoStall

LEMMA NoConnIsConn == NoConn \in Conns
  BY DEF NoConn, Conns, Ats, Hows, Hosts, Ports, Paths

LEMMA WindowInit == Init => WindowInv
<1> SUFFICES ASSUME Init PROVE WindowInv
  OBVIOUS
<1>1. conn = NoConn /\ ~url.http
  BY DEF Init, NoUrl
<1>2. conn.rest = <<>> /\ conn.how = "none"
  BY <1>1 DEF NoConn
<1> QED
  BY <1>1, <1>2, NoConnIsConn DEF WindowInv, NoStall

LEMMA BeginKeepsWindow == WindowInv /\ (Begin \/ BeginFails) => WindowInv'
<1> SUFFICES ASSUME WindowInv, Begin \/ BeginFails PROVE WindowInv'
  OBVIOUS
<1>1. url' = url
  BY DEF Begin, BeginFails
<1>2. CASE conn' = NoConn
  <2>1. conn'.rest = <<>> /\ conn'.how = "none"
    BY <1>2 DEF NoConn
  <2> QED
    BY <1>1, <1>2, <2>1, NoConnIsConn DEF WindowInv, NoStall
<1>3. CASE Begin
  <2>1. url \in Urls
    BY <1>3 DEF Begin, Fits, WindowInv
  <2>2. conn' = [NoConn EXCEPT !.at = "connecting", !.host = Host(url), !.port = Port(url),
                               !.path = url.path]
    BY <1>3 DEF Begin
  <2>3. Host(url) \in Hosts /\ Port(url) \in Ports /\ url.path \in Paths
    BY <2>1 DEF Host, Hosts, Ports, Paths
  <2>4. conn' \in Conns /\ conn'.rest = NoConn.rest /\ conn'.how = NoConn.how
    BY <2>2, <2>3, NoConnIsConn DEF Conns, Ats
  <2>5. conn'.rest = <<>> /\ conn'.how = "none"
    BY <2>4 DEF NoConn
  <2> QED
    BY <1>1, <2>4, <2>5 DEF WindowInv, NoStall
<1> QED
  BY <1>2, <1>3 DEF BeginFails

LEMMA SegmentKeepsWindow == WindowInv /\ Segment => WindowInv'
<1> SUFFICES ASSUME WindowInv, Segment PROVE WindowInv'
  OBVIOUS
<1> DEFINE s == Head(conn.rest)
<1>1. conn \in Conns /\ conn.rest \in Seq(Seq(Nat)) /\ conn.rest # <<>> /\ conn.unread = 0
  BY DEF WindowInv, Conns, Segment, Comes
<1>2. s \in Seq(Nat) /\ Len(s) \in Nat /\ Tail(conn.rest) \in Seq(Seq(Nat))
  BY <1>1
<1>3. conn' = [conn EXCEPT !.rest = Tail(conn.rest), !.unread = 0]
  BY <1>1, <1>2 DEF Segment, Recved
<1>4. /\ conn' \in Conns /\ conn'.rest = Tail(conn.rest)
      /\ conn'.how = conn.how /\ conn'.reply = conn.reply /\ conn'.at = conn.at
  BY <1>1, <1>2, <1>3 DEF Conns
<1>5. \A i \in DOMAIN Tail(conn.rest) : i + 1 \in DOMAIN conn.rest /\ Tail(conn.rest)[i] = conn.rest[i + 1]
  BY <1>1
<1>6. url' = url
  BY DEF Segment, Quiet
<1> QED
  BY <1>4, <1>5, <1>6 DEF WindowInv, NoStall

LEMMA CloseKeepsWindow ==
  ASSUME WindowInv, NEW how \in Hows, NEW res, NEW srv, Close(how, res, srv),
         how = "timeout" => conn.reply.end = "silent"
  PROVE  WindowInv'
<1>1. conn' = [conn EXCEPT !.at = "closed", !.how = how] /\ url' = url
  BY DEF Close, Quiet
<1>2. conn' \in Conns /\ conn'.rest = conn.rest /\ conn'.how = how /\ conn'.reply = conn.reply
      /\ conn'.at = "closed"
  BY <1>1 DEF WindowInv, Conns, Ats
<1> QED
  BY <1>1, <1>2 DEF WindowInv, NoStall

LEMMA WindowInductive == WindowInv /\ [Next]_vars => WindowInv'
<1> SUFFICES ASSUME WindowInv, [Next]_vars PROVE WindowInv'
  OBVIOUS
<1>1. CASE \E u \in Urls : Fetch(u)
  BY <1>1 DEF Fetch, WindowInv, NoStall
<1>2. CASE UNCHANGED <<url, conn>>
  BY <1>2 DEF WindowInv, NoStall
<1>3. CASE FetchReply \/ Refuse \/ Completed \/ Finish \/ UNCHANGED vars
  BY <1>2, <1>3 DEF FetchReply, Refuse, Completed, Finish, vars, msgVars
<1>4. CASE Begin \/ BeginFails
  BY <1>4, BeginKeepsWindow
<1>5. ASSUME NEW r \in Replies, Connect(r) PROVE WindowInv'
  <2>1. conn' = [conn EXCEPT !.at = "headers", !.reply = r, !.rest = r.segments] /\ url' = url
    BY <1>5 DEF Connect, Quiet
  <2>2. r.segments \in Seq(Seq(Nat)) /\ \A i \in DOMAIN r.segments : Len(r.segments[i]) <= Window
    BY FetchAssumption
  <2>3. conn' \in Conns /\ conn'.rest = r.segments /\ conn'.how = conn.how
    BY <2>1, <2>2 DEF WindowInv, Conns, Ats
  <2>4. conn.how = "none"
    BY <1>5 DEF Connect, WindowInv
  <2> QED
    BY <2>1, <2>2, <2>3, <2>4 DEF WindowInv, NoStall
<1>6. CASE Headers
  <2>1. conn' = [conn EXCEPT !.at = "body"] /\ url' = url
    BY <1>6 DEF Headers, Quiet
  <2>2. conn' \in Conns /\ conn'.rest = conn.rest /\ conn'.how = conn.how /\ conn'.reply = conn.reply
    BY <2>1 DEF WindowInv, Conns, Ats
  <2>3. conn.how = "none"
    BY <1>6 DEF Headers, WindowInv
  <2> QED
    BY <2>1, <2>2, <2>3 DEF WindowInv, NoStall
<1>7. CASE NoConnection \/ ServerCloses \/ ServerResets
  BY <1>7, CloseKeepsWindow DEF NoConnection, ServerCloses, ServerResets, Hows
<1>8. CASE TimesOut
  <2>1. conn.rest # <<>> /\ conn.at = "body" => Comes
    BY FetchAssumption DEF WindowInv, Conns, Comes
  <2> QED
    BY <1>8, <2>1, CloseKeepsWindow DEF TimesOut, AllCame, Hows
<1> QED
  BY <1>1, <1>3, <1>4, <1>5, <1>6, <1>7, <1>8, SegmentKeepsWindow DEF Next, Core0Step, NetworkStep

(* A server that sends all it has is never timed out.                      *)
THEOREM NeverStalls == Spec => []NoStall
<1>1. WindowInv => NoStall
  BY DEF WindowInv
<1> QED
  BY <1>1, WindowInit, WindowInductive, PTL DEF Spec

(***************************************************************************)
(* The answer                                                              *)
(***************************************************************************)
(* The connection is the one that the URL of Core 1 asks for ...           *)
Asked ==
  /\ Fits(url)
  /\ conn.at # "none" =>
       conn.host = url.host /\ conn.path = url.path /\ conn.port = Port(url)

(* ... and a status is that of a server that was heard to the end, as that *)
(* of every such server is.                                                *)
Heard ==
  /\ conn.at = "body" => reason = conn.reply.reason /\ conn.reply.status # 0
  /\ conn.at # "closed" => status = 0
  /\ Answered => Whole /\ status = conn.reply.status /\ reason = conn.reply.reason
  /\ Whole => Answered

NoAnswer == wanted.http /\ wanted.hostSize < HostMax => ~Whole

AnswerOf(r) ==
  /\ Whole /\ conn.host = wanted.host /\ conn.path = wanted.path
  /\ IsPort(wanted.port) => conn.port = wanted.port
  /\ r.status # 0 /\ r.status = conn.reply.status /\ r.text = conn.reply.reason
  /\ r.ok = Ok(r.status)

Waits(words0, words1, at) ==
  pc1 = "fetching" /\ url = wanted /\ toC0 = words0 /\ toC1 = words1 /\ pc0 \in at

OneFetch ==
  \/ pc1 = "script" /\ toC0 = <<>> /\ toC1 = <<>> /\ pc0 = "loop" /\ AnswerIsTheServers
  \/ Waits(<<"REQ">>, <<>>, {"loop"})
  \/ Waits(<<>>, <<>>, {"http", "done"}) /\ Asked
  \/ Waits(<<>>, <<"ERR">>, {"loop"}) /\ NoAnswer
  \/ Waits(<<>>, <<"OK">>, {"loop"}) /\ AnswerOf(msg)

FetchInv == Heard /\ OneFetch

LEMMA FetchInit == Init => FetchInv
<1> SUFFICES ASSUME Init PROVE FetchInv
  OBVIOUS
<1>1. conn.at = "none" /\ status = 0 /\ conn.how = "none"
  BY DEF Init, NoConn
<1>2. Heard
  BY <1>1 DEF Heard, Answered, Whole
<1>3. AnswerIsTheServers
  BY Zenon DEF Init, AnswerIsTheServers, Resolves
<1>4. OneFetch
  BY <1>3 DEF Init, OneFetch
<1> QED
  BY <1>2, <1>4 DEF FetchInv

(* The port of a URL that names a real one.                                *)
LEMMA PortIsKept == ASSUME NEW u \in Urls, IsPort(u.port) PROVE Port(u) = u.port
<1>1. ASSUME NEW p \in Int, 0 < p, p < 65536 PROVE p % 65536 = p
  BY <1>1
<1>2. u.port \in Int /\ u.port # -1 /\ u.port # 0 /\ u.port % 65536 = u.port
  BY <1>1, FetchAssumption DEF IsPort
<1> QED
  BY <1>2 DEF Port

LEMMA Queued ==
  /\ \A w : Append(<<>>, w) = <<w>> /\ Head(<<w>>) = w /\ Tail(<<w>>) = <<>>
  /\ \A w : <<w>> # <<>>
  /\ <<"OK">> # <<"ERR">>
  OBVIOUS

LEMMA ScriptKeepsAnswer ==
  ASSUME FetchInv, (\E u \in Urls : Fetch(u)) \/ FetchReply PROVE FetchInv'
<1>1. UNCHANGED <<conn, request, status, reason, pc0, msg>>
  BY DEF Fetch, FetchReply, msgVars, serviceVars
<1>2. Heard'
  BY <1>1 DEF FetchInv, Heard, Answered, Whole, Total
<1>3. ASSUME NEW u \in Urls, Fetch(u) PROVE OneFetch'
  <2>1. pc1 = "script" /\ toC0 = <<>> /\ toC1 = <<>> /\ pc0 = "loop"
    BY <1>3 DEF Fetch, FetchInv, OneFetch, Waits
  <2>2. CASE u.size >= UrlMax
    <3>1. response' = Rejected /\ UNCHANGED <<pc1, toC0, toC1, pc0>>
      BY <1>3, <2>2 DEF Fetch
    <3>2. AnswerIsTheServers'
      BY <3>1, Zenon DEF AnswerIsTheServers, Resolves
    <3> QED
      BY <2>1, <3>1, <3>2 DEF OneFetch
  <2>3. CASE ~(u.size >= UrlMax)
    BY <1>1, <1>3, <2>1, <2>3, Queued DEF Fetch, OneFetch, Waits
  <2> QED
    BY <2>2, <2>3
<1>4. ASSUME FetchReply PROVE OneFetch'
  <2>1. /\ pc1 = "fetching" /\ toC1 # <<>> /\ pc1' = "script" /\ UNCHANGED <<wanted, toC0>>
        /\ toC1' = Tail(toC1)
        /\ response' = IF Head(toC1) = "OK" THEN Resolved(msg, body) ELSE Resolved(NoMsg, <<>>)
    BY <1>4 DEF FetchReply
  <2>2. CASE Waits(<<>>, <<"ERR">>, {"loop"}) /\ NoAnswer
    <3>1. response' = Resolved(NoMsg, <<>>) /\ toC1' = <<>> /\ toC0' = <<>> /\ pc0' = "loop"
      BY <1>1, <2>1, <2>2, Queued DEF Waits
    <3>2. response'.status = 0
      BY <3>1 DEF Resolved, NoMsg
    <3>3. UNCHANGED <<conn, wanted>> /\ (Whole' <=> Whole)
      BY <1>1, <2>1 DEF Whole, Total
    <3>4. AnswerIsTheServers'
      BY <2>2, <3>1, <3>2, <3>3 DEF NoAnswer, AnswerIsTheServers, Resolved, NoMsg
    <3> QED
      BY <2>1, <3>1, <3>4 DEF OneFetch
  <2>3. CASE Waits(<<>>, <<"OK">>, {"loop"}) /\ AnswerOf(msg)
    <3>1. response' = Resolved(msg, body) /\ toC1' = <<>> /\ toC0' = <<>> /\ pc0' = "loop"
      BY <1>1, <2>1, <2>3, Queued DEF Waits
    <3>2. /\ response'.status = msg.status /\ response'.ok = msg.ok
          /\ response'.statusText = msg.text
      BY <3>1 DEF Resolved
    <3>3. AnswerIsTheServers'
      <4>1. /\ Whole /\ conn.host = wanted.host /\ conn.path = wanted.path
            /\ IsPort(wanted.port) => conn.port = wanted.port
            /\ response'.status # 0 /\ response'.status = conn.reply.status
            /\ response'.statusText = conn.reply.reason
            /\ response'.ok = Ok(response'.status)
        BY <2>3, <3>2, Zenon DEF AnswerOf
      <4>2. UNCHANGED <<conn, wanted>> /\ (Whole' <=> Whole)
        BY <1>1, <2>1 DEF Whole, Total
      <4> QED
        BY <4>1, <4>2, Zenon DEF AnswerIsTheServers
    <3> QED
      BY <2>1, <3>1, <3>3 DEF OneFetch
  <2> QED
    BY <2>1, <2>2, <2>3 DEF FetchInv, OneFetch, Waits
<1> QED
  BY <1>2, <1>3, <1>4 DEF FetchInv

LEMMA TakesOneRequest ==
  ASSUME OneFetch, Take
  PROVE  /\ Waits(<<"REQ">>, <<>>, {"loop"}) /\ toC0' = <<>>
  BY Queued DEF OneFetch, Waits, Take

LEMMA Core0KeepsAnswer ==
  ASSUME WindowInv, FetchInv, Core0Step PROVE FetchInv'
<1>1. CASE Refuse
  <2>1. Waits(<<"REQ">>, <<>>, {"loop"}) /\ toC0' = <<>>
    BY <1>1, TakesOneRequest DEF Refuse, FetchInv
  <2>2. /\ toC1' = <<"ERR">> /\ UNCHANGED <<pc1, wanted, pc0, url, conn, request, status, reason>>
    BY <1>1, <2>1, Queued DEF Refuse, Waits, core1Vars, serviceVars
  <2>3. Heard'
    BY <2>2 DEF FetchInv, Heard, Answered, Whole, Total
  <2>4. NoAnswer'
    BY <1>1, <2>1, <2>2 DEF Refuse, Fits, Waits, NoAnswer
  <2> QED
    BY <2>1, <2>2, <2>3, <2>4 DEF FetchInv, OneFetch, Waits
<1>2. CASE Begin
  <2>1. Waits(<<"REQ">>, <<>>, {"loop"}) /\ toC0' = <<>>
    BY <1>2, TakesOneRequest DEF Begin, FetchInv
  <2>2. /\ status' = 0 /\ pc0' = "http" /\ UNCHANGED <<pc1, wanted, toC1, url>> /\ Fits(url)
        /\ conn' = [NoConn EXCEPT !.at = "connecting", !.host = Host(url), !.port = Port(url),
                                  !.path = url.path]
    BY <1>2 DEF Begin, core1Vars
  <2>3. /\ conn'.at = "connecting" /\ conn'.host = Host(url)
        /\ conn'.port = Port(url) /\ conn'.path = url.path /\ conn'.how = "none"
    <3>1. NoConn.how = "none"
      BY DEF NoConn
    <3> QED
      BY <2>2, <3>1, NoConnIsConn DEF Conns
  <2>4. Host(url) = url.host
    BY <2>2 DEF Fits, Host
  <2>5. Heard'
    BY <2>2, <2>3 DEF Heard, Answered, Whole
  <2>6. Asked'
    BY <2>2, <2>3, <2>4 DEF Asked, Fits, Port
  <2> QED
    BY <2>1, <2>2, <2>5, <2>6 DEF FetchInv, OneFetch, Waits
<1>3. CASE BeginFails
  <2>1. Waits(<<"REQ">>, <<>>, {"loop"}) /\ toC0' = <<>>
    BY <1>3, TakesOneRequest DEF BeginFails, FetchInv
  <2>2. /\ status' = 0 /\ pc0' = "done" /\ UNCHANGED <<pc1, wanted, toC1, url>> /\ Fits(url)
        /\ conn' = NoConn
    BY <1>3 DEF BeginFails, core1Vars
  <2>3. conn'.at = "none" /\ conn'.how = "none"
    BY <2>2 DEF NoConn
  <2>4. Heard' /\ Asked'
    BY <2>2, <2>3 DEF Heard, Answered, Asked, Fits, Whole
  <2> QED
    BY <2>1, <2>2, <2>4 DEF FetchInv, OneFetch, Waits
<1>4. CASE Completed
  <2>1. /\ pc0 = "http" /\ pc0' = "done"
        /\ UNCHANGED <<pc1, wanted, toC0, toC1, url, conn, request, status, reason>>
    BY <1>4 DEF Completed, core1Vars, msgVars, serviceVars
  <2>2. Heard' /\ (Asked => Asked')
    BY <2>1 DEF FetchInv, Heard, Asked, Answered, Whole, Total, Fits, Port
  <2> QED
    BY <2>1, <2>2 DEF FetchInv, OneFetch, Waits
<1>5. CASE Finish
  <2>1. /\ pc0 = "done" /\ pc0' = "loop"
        /\ UNCHANGED <<pc1, wanted, toC0, url, conn, request, status, reason>>
        /\ msg' = IF Answered
                  THEN [status |-> status, ok |-> Ok(status), text |-> reason] ELSE NoMsg
        /\ toC1' = Append(toC1, IF Answered THEN "OK" ELSE "ERR")
    BY <1>5 DEF Finish, core1Vars, serviceVars
  <2>2. Waits(<<>>, <<>>, {"http", "done"}) /\ Asked /\ Heard
    BY <2>1 DEF FetchInv, OneFetch, Waits
  <2>3. Heard'
    BY <2>1, <2>2 DEF Heard, Answered, Whole, Total
  <2>4. CASE ~Answered
    <3>1. toC1' = <<"ERR">>
      BY <2>1, <2>2, <2>4, Queued DEF Waits
    <3>2. ~Whole /\ (Whole' <=> Whole)
      BY <2>1, <2>2, <2>4 DEF Heard, Whole, Total
    <3> QED
      BY <2>1, <2>2, <2>3, <3>1, <3>2 DEF FetchInv, OneFetch, Waits, NoAnswer
  <2>5. CASE Answered
    <3>1. toC1' = <<"OK">> /\ msg' = [status |-> status, ok |-> Ok(status), text |-> reason]
      BY <2>1, <2>2, <2>5, Queued DEF Waits
    <3>2. msg'.status = status /\ msg'.ok = Ok(status) /\ msg'.text = reason
      BY <3>1
    <3>3. /\ Whole /\ status = conn.reply.status /\ reason = conn.reply.reason /\ status # 0
          /\ conn.at = "closed"
      BY <2>2, <2>5 DEF Heard, Answered
    <3>4. /\ conn.host = wanted.host /\ conn.path = wanted.path /\ conn.port = Port(wanted)
          /\ wanted \in Urls
      BY <2>2, <3>3 DEF Asked, Waits, Fits, WindowInv
    <3>5. IsPort(wanted.port) => conn.port = wanted.port
      BY <3>4, PortIsKept
    <3>6. UNCHANGED <<conn, wanted>> /\ (Whole' <=> Whole)
      BY <2>1 DEF Whole, Total
    <3>7. AnswerOf(msg)'
      BY <3>2, <3>3, <3>4, <3>5, <3>6, Zenon DEF AnswerOf
    <3> QED
      BY <2>1, <2>2, <2>3, <3>1, <3>7 DEF FetchInv, OneFetch, Waits
  <2> QED
    BY <2>4, <2>5
<1> QED
  BY <1>1, <1>2, <1>3, <1>4, <1>5 DEF Core0Step

(* What the network does leaves Asked alone; it remains to hear.           *)
LEMMA NetworkStaysAsked ==
  ASSUME FetchInv, Polled, Quiet, Heard', conn' \in Conns,
         conn'.host = conn.host, conn'.port = conn.port, conn'.path = conn.path
  PROVE  FetchInv'
<1>1. Waits(<<>>, <<>>, {"http", "done"}) /\ Asked /\ conn.at # "none"
  BY DEF FetchInv, OneFetch, Waits, Polled
<1>2. UNCHANGED <<pc1, wanted, toC0, toC1, pc0, url>>
  BY DEF Quiet, core1Vars
<1>3. Asked'
  BY <1>1, <1>2 DEF Asked, Fits, Port
<1> QED
  BY <1>1, <1>2, <1>3 DEF FetchInv, OneFetch, Waits

LEMMA CloseKeepsAnswer ==
  ASSUME WindowInv, FetchInv, NEW how \in Hows, NEW res, NEW srv, Close(how, res, srv),
         res = "OK" => how = "closed" /\ conn.at = "body" /\ srv = conn.reply.status
                       /\ conn.reply.length \in {-1, Total(conn.reply)},
         how = "closed" /\ conn.reply.length \in {-1, Total(conn.reply)} /\ conn.reply.status # 0
           => res = "OK" /\ srv = conn.reply.status
  PROVE  FetchInv'
<1>1. /\ Polled /\ Quiet /\ UNCHANGED <<body, reason>> /\ status' = srv
      /\ request' = [complete |-> TRUE, result |-> res]
      /\ conn' = [conn EXCEPT !.at = "closed", !.how = how]
  BY DEF Close, ResultCb
<1>2. /\ conn' \in Conns /\ conn'.at = "closed" /\ conn'.how = how /\ conn'.reply = conn.reply
      /\ conn'.host = conn.host /\ conn'.port = conn.port /\ conn'.path = conn.path
  BY <1>1 DEF WindowInv, Conns, Ats
<1>3. request'.result = res
  BY <1>1
<1>4. ASSUME Answered'
      PROVE  Whole' /\ status' = conn'.reply.status /\ reason' = conn'.reply.reason
  <2>1. res = "OK" /\ srv # 0
    BY <1>1, <1>3, <1>4 DEF Answered
  <2>2. conn.reply.status # 0 /\ reason = conn.reply.reason /\ srv = conn.reply.status
    BY <2>1 DEF FetchInv, Heard
  <2>3. Whole'
    BY <1>2, <2>1, <2>2 DEF Whole, Total
  <2> QED
    BY <1>1, <1>2, <2>2, <2>3
<1>5. ASSUME Whole' PROVE Answered'
  <2>1. /\ how = "closed" /\ conn.reply.status # 0
        /\ conn.reply.length \in {-1, Total(conn.reply)}
    BY <1>2, <1>5 DEF Whole, Total
  <2> QED
    BY <1>1, <1>3, <2>1 DEF Answered
<1>6. Heard'
  BY <1>2, <1>4, <1>5 DEF Heard
<1> QED
  BY <1>1, <1>2, <1>6, NetworkStaysAsked

LEMMA NetworkKeepsAnswer ==
  ASSUME WindowInv, FetchInv, NetworkStep PROVE FetchInv'
<1>1. ASSUME NEW r \in Replies, Connect(r) PROVE FetchInv'
  <2>1. /\ Polled /\ Quiet /\ conn.at = "connecting" /\ UNCHANGED <<request, status, reason>>
        /\ conn' = [conn EXCEPT !.at = "headers", !.reply = r, !.rest = r.segments]
    BY <1>1 DEF Connect, serviceVars
  <2>2. r.segments \in Seq(Seq(Nat))
    BY FetchAssumption
  <2>3. /\ conn' \in Conns /\ conn'.at = "headers"
        /\ conn'.host = conn.host /\ conn'.port = conn.port /\ conn'.path = conn.path
        /\ conn'.how = "none"
    BY <2>1, <2>2 DEF WindowInv, Conns, Ats
  <2>4. Heard'
    BY <2>1, <2>3 DEF FetchInv, Heard, Answered, Whole
  <2> QED
    BY <2>1, <2>3, <2>4, NetworkStaysAsked
<1>2. CASE Headers
  <2>1. /\ Polled /\ Quiet /\ conn.at = "headers" /\ UNCHANGED <<request, status>>
        /\ conn.reply.status # 0 /\ reason' = conn.reply.reason
        /\ conn' = [conn EXCEPT !.at = "body"]
    BY <1>2 DEF Headers, HeadersCb
  <2>2. /\ conn' \in Conns /\ conn'.at = "body" /\ conn'.reply = conn.reply
        /\ conn'.host = conn.host /\ conn'.port = conn.port /\ conn'.path = conn.path
        /\ conn'.how = "none"
    BY <2>1 DEF WindowInv, Conns, Ats
  <2>3. Heard'
    BY <2>1, <2>2 DEF FetchInv, Heard, Answered, Whole
  <2> QED
    BY <2>1, <2>2, <2>3, NetworkStaysAsked
<1>3. CASE Segment
  <2> DEFINE s == Head(conn.rest)
  <2>1. /\ Polled /\ Quiet /\ conn.at = "body" /\ UNCHANGED <<request, status, reason>>
        /\ conn.rest # <<>> /\ conn.unread = 0 /\ conn \in Conns
    BY <1>3 DEF Segment, Comes, serviceVars, WindowInv, Conns
  <2>2. s \in Seq(Nat) /\ Tail(conn.rest) \in Seq(Seq(Nat))
    BY <2>1 DEF Conns
  <2>3. conn' = [conn EXCEPT !.rest = Tail(conn.rest), !.unread = 0]
    BY <1>3, <2>1, <2>2 DEF Segment, Recved
  <2>4. /\ conn' \in Conns /\ conn'.at = "body" /\ conn'.reply = conn.reply
        /\ conn'.host = conn.host /\ conn'.port = conn.port /\ conn'.path = conn.path
        /\ conn'.how = "none"
    BY <2>1, <2>2, <2>3 DEF WindowInv, Conns
  <2>5. Heard'
    BY <2>1, <2>4 DEF FetchInv, Heard, Answered, Whole
  <2> QED
    BY <2>1, <2>4, <2>5, NetworkStaysAsked
<1>4. CASE NoConnection \/ ServerResets \/ TimesOut
  <2>1. PICK how \in Hows \ {"closed"} : Close(how, "ERR", 0)
    BY <1>4 DEF NoConnection, ServerResets, TimesOut, Hows
  <2> QED
    BY <2>1, CloseKeepsAnswer
<1>5. CASE ServerCloses
  <2>1. PICK res : res = IF conn.at = "body" /\ conn.reply.length \in {-1, Total(conn.reply)}
                         THEN "OK" ELSE "ERR"
    OBVIOUS
  <2>2. /\ Close("closed", res, conn.reply.status) /\ "closed" \in Hows
        /\ conn.at = "body" \/ conn.reply.status = 0
    BY <1>5, <2>1 DEF ServerCloses, AllCame, Hows
  <2> QED
    BY <2>1, <2>2, CloseKeepsAnswer
<1> QED
  BY <1>1, <1>2, <1>3, <1>4, <1>5 DEF NetworkStep

LEMMA FetchInvariant == Spec => [](WindowInv /\ FetchInv)
<1>1. FetchInv /\ UNCHANGED vars => FetchInv'
  BY DEF vars, core1Vars, msgVars, serviceVars, FetchInv, Heard, OneFetch, Waits, Asked, Answered,
         Whole, Total, Fits, Port, NoAnswer, AnswerOf, AnswerIsTheServers, Resolves
<1>2. WindowInv /\ FetchInv /\ [Next]_vars => FetchInv'
  BY <1>1, ScriptKeepsAnswer, Core0KeepsAnswer, NetworkKeepsAnswer DEF Next
<1> QED
  BY <1>2, FetchInit, WindowInit, WindowInductive, PTL DEF Spec

(* The script gets the status of the server its URL names, when and only   *)
(* when that has given its answer to the end.                              *)
THEOREM AnswersAreTheServers == Spec => []AnswerIsTheServers
<1>1. FetchInv => AnswerIsTheServers
  BY DEF FetchInv, OneFetch, Waits, AnswerIsTheServers, Resolves
<1> QED
  BY <1>1, FetchInvariant, PTL

(***************************************************************************)
(* The body in pieces                                                      *)
(***************************************************************************)

LEMMA Induction ==
  ASSUME NEW S, 0 \in S, \A n \in Nat : n \in S => n + 1 \in S
  PROVE  \A n \in Nat : n \in S
<1> DEFINE R == {ss \in Nat \X Nat : ss[1] < ss[2]}
           T == {n \in Nat : n \notin S}
<1> SUFFICES ASSUME T # {} PROVE FALSE
  OBVIOUS
<1>1. IsWellFoundedOn(R, Nat)
  BY NatLessThanWellFounded DEF OpToRel
<1>2. T \in SUBSET Nat
  OBVIOUS
<1> HIDE DEF R, T
<1>3. PICK x \in T : \A y \in T : <<y, x>> \notin R
  BY <1>1, <1>2, WFMin
<1>4. x \in Nat /\ x # 0 /\ x - 1 \in Nat
  BY <1>2, <1>3 DEF T
<1>5. x - 1 \notin T
  <2>1. \A a, b \in Nat : a < b => <<a, b>> \in R
    BY DEF R
  <2>2. <<x - 1, x>> \in R
    BY <1>4, <2>1
  <2> QED
    BY <1>3, <2>2
<1> QED
  BY <1>3, <1>4, <1>5 DEF T

(* The function FlattenSeq computes: the first pieces together.            *)
Joins(s, f, n) == f = [i \in 1 .. n |-> IF i = 1 THEN s[i] ELSE f[i - 1] \o s[i]]

LEMMA JoinExists ==
  ASSUME NEW s, NEW n \in Nat
  PROVE  \E f : Joins(s, f, n)
<1> DEFINE Good == {k \in Nat : \E f : Joins(s, f, k)}
<1>1. 0 \in Good
  <2>1. Joins(s, [i \in 1 .. 0 |-> 0], 0)
    BY DEF Joins
  <2> QED
    BY <2>1
<1>2. ASSUME NEW k \in Nat, k \in Good PROVE k + 1 \in Good
  <2>1. PICK f : Joins(s, f, k)
    BY <1>2
  <2>2. \A i \in 1 .. k : f[i] = IF i = 1 THEN s[i] ELSE f[i - 1] \o s[i]
    BY <2>1 DEF Joins
  <2> DEFINE g == [i \in 1 .. k + 1 |->
                     IF i <= k THEN f[i] ELSE IF i = 1 THEN s[i] ELSE f[i - 1] \o s[i]]
             h == [i \in 1 .. k + 1 |-> IF i = 1 THEN s[i] ELSE g[i - 1] \o s[i]]
  <2>3. ASSUME NEW i \in 1 .. k + 1 PROVE g[i] = h[i]
    <3>1. CASE i = 1
      BY <2>2, <3>1
    <3>2. CASE i # 1
      <4>1. i - 1 \in 1 .. k + 1 /\ i - 1 <= k
        BY <3>2
      <4>2. g[i - 1] = f[i - 1]
        BY <4>1
      <4>3. h[i] = f[i - 1] \o s[i]
        BY <3>2, <4>2
      <4>4. g[i] = f[i - 1] \o s[i]
        <5>1. CASE i <= k
          <6>1. i \in 1 .. k /\ g[i] = f[i]
            BY <5>1
          <6> QED
            BY <2>2, <3>2, <6>1
        <5>2. CASE ~(i <= k)
          BY <3>2, <5>2
        <5> QED
          BY <5>1, <5>2
      <4> QED
        BY <4>3, <4>4
    <3> QED
      BY <3>1, <3>2
  <2>4. g = h
    BY <2>3
  <2>5. Joins(s, g, k + 1)
    <3> HIDE DEF g
    <3> QED
      BY <2>4 DEF Joins
  <2> QED
    BY <2>5
<1> HIDE DEF Good
<1>3. n \in Good
  BY <1>1, <1>2, Induction
<1> QED
  BY <1>3 DEF Good

(* f joins the pieces of s one by one.                                     *)
JoinsUp(s, f) == f[1] = s[1] /\ \A i \in 2 .. Len(s) : f[i] = f[i - 1] \o s[i]

LEMMA FlattenIsLast ==
  ASSUME NEW s \in Seq(Seq(Nat)), s # <<>>
  PROVE  \E f : JoinsUp(s, f) /\ FlattenSeq(s) = f[Len(s)]
<1> DEFINE f == CHOOSE g : Joins(s, g, Len(s))
<1>1. Len(s) \in Nat /\ Len(s) # 0
  OBVIOUS
<1>2. FlattenSeq(s) = f[Len(s)]
  BY <1>1 DEF FlattenSeq, Joins
<1>3. Joins(s, f, Len(s))
  BY <1>1, JoinExists
<1> HIDE DEF f
<1>4. \A i \in 1 .. Len(s) : f[i] = IF i = 1 THEN s[i] ELSE f[i - 1] \o s[i]
  BY <1>3 DEF Joins
<1>5. f[1] = s[1]
  <2>1. 1 \in 1 .. Len(s)
    BY <1>1
  <2> QED
    BY <1>4, <2>1
<1>6. ASSUME NEW i \in 2 .. Len(s) PROVE f[i] = f[i - 1] \o s[i]
  <2>1. i \in 1 .. Len(s) /\ i # 1
    BY <1>1
  <2> QED
    BY <1>4, <2>1
<1> QED
  BY <1>2, <1>5, <1>6 DEF JoinsUp

LEMMA FlattenEmpty == FlattenSeq(<<>>) = <<>>
  BY DEF FlattenSeq

LEMMA JoinStep ==
  ASSUME NEW s, NEW f, JoinsUp(s, f), Len(s) \in Nat, NEW k \in Nat, k # 0, k < Len(s)
  PROVE  f[k + 1] = f[k] \o s[k + 1]
<1>1. k + 1 \in 2 .. Len(s) /\ (k + 1) - 1 = k
  OBVIOUS
<1> QED
  BY <1>1 DEF JoinsUp

LEMMA JoinType ==
  ASSUME NEW s \in Seq(Seq(Nat)), NEW f, JoinsUp(s, f), NEW n \in 1 .. Len(s)
  PROVE  f[n] \in Seq(Nat)
<1> DEFINE Good == {k \in Nat : k \in 1 .. Len(s) => f[k] \in Seq(Nat)}
<1>1. 0 \in Good
  OBVIOUS
<1>2. ASSUME NEW k \in Nat, k \in Good PROVE k + 1 \in Good
  <2>1. SUFFICES ASSUME k + 1 <= Len(s) PROVE f[k + 1] \in Seq(Nat)
    OBVIOUS
  <2>2. s[k + 1] \in Seq(Nat)
    BY <2>1
  <2>3. CASE k = 0
    BY <2>2, <2>3 DEF JoinsUp
  <2>4. CASE k # 0
    <3>1. f[k] \in Seq(Nat)
      BY <1>2, <2>1, <2>4
    <3>2. f[k + 1] = f[k] \o s[k + 1]
      <4>1. Len(s) \in Nat /\ k < Len(s)
        BY <2>1
      <4> QED
        BY <2>4, <4>1, JoinStep
    <3> QED
      BY <2>2, <3>1, <3>2
  <2> QED
    BY <2>3, <2>4
<1> HIDE DEF Good
<1>3. n \in Nat
  OBVIOUS
<1>4. n \in Good
  BY <1>1, <1>2, <1>3, Induction
<1> QED
  BY <1>4 DEF Good

LEMMA FlattenType ==
  ASSUME NEW s \in Seq(Seq(Nat))
  PROVE  FlattenSeq(s) \in Seq(Nat)
<1>1. CASE s = <<>>
  <2>1. FlattenSeq(s) = <<>>
    BY <1>1, FlattenEmpty, Zenon
  <2> QED
    BY <2>1
<1>2. CASE s # <<>>
  <2>1. PICK f : JoinsUp(s, f) /\ FlattenSeq(s) = f[Len(s)]
    BY <1>2, FlattenIsLast
  <2>2. Len(s) \in 1 .. Len(s)
    BY <1>2
  <2> QED
    BY <2>1, <2>2, JoinType
<1> QED
  BY <1>1, <1>2

LEMMA Associative ==
  ASSUME NEW a \in Seq(Nat), NEW b \in Seq(Nat), NEW c \in Seq(Nat)
  PROVE  (a \o b) \o c = a \o (b \o c)
  OBVIOUS

LEMMA JoinShift ==
  ASSUME NEW s \in Seq(Seq(Nat)), NEW t \in Seq(Seq(Nat)), NEW f, NEW g,
         Len(s) = Len(t) + 1, \A i \in 1 .. Len(t) : t[i] = s[i + 1],
         JoinsUp(s, f), JoinsUp(t, g), t # <<>>
  PROVE  f[Len(s)] = s[1] \o g[Len(t)]
<1> DEFINE Good == {k \in Nat : k \in 1 .. Len(t) => f[k + 1] = s[1] \o g[k]}
<1>0. Len(t) \in Nat /\ Len(s) \in Nat /\ s[1] \in Seq(Nat)
  OBVIOUS
<1>1. 0 \in Good
  OBVIOUS
<1>2. ASSUME NEW k \in Nat, k \in Good PROVE k + 1 \in Good
  <2>a. k + 1 \in Nat
    OBVIOUS
  <2>1. SUFFICES ASSUME k + 1 \in 1 .. Len(t) PROVE f[(k + 1) + 1] = s[1] \o g[k + 1]
    BY <2>a, Zenon
  <2>2. t[k + 1] = s[(k + 1) + 1] /\ t[k + 1] \in Seq(Nat)
    BY <2>1
  <2>3. f[(k + 1) + 1] = f[k + 1] \o s[(k + 1) + 1]
    <3>1. k + 1 \in Nat /\ k + 1 # 0 /\ k + 1 < Len(s)
      BY <1>0, <2>1
    <3> QED
      BY <1>0, <3>1, JoinStep
  <2>4. CASE k = 0
    <3>1. f[k + 1] = s[1] /\ g[k + 1] = t[k + 1]
      BY <2>4 DEF JoinsUp
    <3> QED
      BY <2>2, <2>3, <3>1
  <2>5. CASE k # 0
    <3>0. k \in 1 .. Len(t)
      BY <1>0, <2>1, <2>5
    <3>1. f[k + 1] = s[1] \o g[k]
      BY <1>2, <3>0
    <3>2. g[k + 1] = g[k] \o t[k + 1]
      <4>1. k < Len(t)
        BY <1>0, <2>1
      <4> QED
        BY <1>0, <2>5, <4>1, JoinStep
    <3>3. g[k] \in Seq(Nat)
      BY <3>0, JoinType
    <3>4. (s[1] \o g[k]) \o t[k + 1] = s[1] \o (g[k] \o t[k + 1])
      BY <1>0, <2>2, <3>3, Associative
    <3> QED
      BY <2>2, <2>3, <3>1, <3>2, <3>4
  <2> QED
    BY <2>4, <2>5
<1> HIDE DEF Good
<1>3. Len(t) \in Good
  BY <1>0, <1>1, <1>2, Induction
<1>4. Len(t) \in 1 .. Len(t)
  BY <1>0
<1> QED
  BY <1>3, <1>4 DEF Good

LEMMA FlattenHead ==
  ASSUME NEW s \in Seq(Seq(Nat)), s # <<>>
  PROVE  FlattenSeq(s) = Head(s) \o FlattenSeq(Tail(s))
<1>1. PICK f : JoinsUp(s, f) /\ FlattenSeq(s) = f[Len(s)]
  BY FlattenIsLast
<1>2. PICK t : t = Tail(s)
  OBVIOUS
<1>3. t \in Seq(Seq(Nat)) /\ Len(s) = Len(t) + 1 /\ Len(t) \in Nat
      /\ \A i \in 1 .. Len(t) : t[i] = s[i + 1]
  BY <1>2
<1>4. Head(s) = s[1] /\ s[1] \in Seq(Nat)
  OBVIOUS
<1>5. CASE t = <<>>
  <2>1. FlattenSeq(t) = <<>>
    BY <1>5, FlattenEmpty, Zenon
  <2>2. Len(s) = 1
    BY <1>3, <1>5
  <2>3. FlattenSeq(s) = s[1]
    BY <1>1, <2>2 DEF JoinsUp
  <2> QED
    BY <1>2, <1>4, <2>1, <2>3
<1>6. CASE t # <<>>
  <2>1. PICK g : JoinsUp(t, g) /\ FlattenSeq(t) = g[Len(t)]
    BY <1>3, <1>6, FlattenIsLast
  <2>2. Len(t) \in 1 .. Len(t)
    BY <1>3, <1>6
  <2>3. f[Len(s)] = s[1] \o g[Len(t)]
    BY <1>1, <1>3, <1>6, <2>1, JoinShift
  <2> QED
    BY <1>1, <1>2, <1>3, <1>4, <2>1, <2>3
<1> QED
  BY <1>5, <1>6

(***************************************************************************)
(* The text of the answer                                                  *)
(***************************************************************************)
LEMMA Joined ==
  ASSUME NEW a \in Seq(Nat), NEW b \in Seq(Nat)
  PROVE  /\ a \o b \in Seq(Nat) /\ Len(a \o b) = Len(a) + Len(b)
         /\ \A i \in 1 .. Len(a) : (a \o b)[i] = a[i]
  OBVIOUS

LEMMA PrefixGrows ==
  ASSUME NEW x \in Seq(Nat), NEW s \in Seq(Nat)
  PROVE  /\ Prefix(Prefix(x, BodyMax) \o s, BodyMax) = Prefix(x \o s, BodyMax)
         /\ Prefix(x, BodyMax) \in Seq(Nat)
<1>0. BodyMax \in Nat /\ Len(x) \in Nat /\ Len(s) \in Nat
  BY FetchAssumption
<1>1. CASE Len(x) <= BodyMax
  <2>1. Prefix(x, BodyMax) = x
    <3>1. Prefix(x, BodyMax) = SubSeq(x, 1, Len(x))
      BY <1>0, <1>1 DEF Prefix
    <3> QED
      BY <3>1
  <2> QED
    BY <2>1
<1>2. CASE Len(x) > BodyMax
  <2>1. PICK p : p = SubSeq(x, 1, BodyMax)
    OBVIOUS
  <2>2. p \in Seq(Nat) /\ Len(p) = BodyMax /\ \A i \in 1 .. BodyMax : p[i] = x[i]
    BY <1>0, <1>2, <2>1
  <2>3. Prefix(x, BodyMax) = p
    BY <1>0, <1>2, <2>1 DEF Prefix
  <2>4. PICK q : q = p \o s
    OBVIOUS
  <2>5. PICK y : y = x \o s
    OBVIOUS
  <2>6. /\ q \in Seq(Nat) /\ Len(q) = BodyMax + Len(s)
        /\ \A i \in 1 .. BodyMax : q[i] = p[i]
    <3>1. q \in Seq(Nat) /\ Len(q) = Len(p) + Len(s)
      BY <2>2, <2>4, Joined
    <3>2. \A i \in 1 .. Len(p) : q[i] = p[i]
      BY <2>2, <2>4, Joined
    <3> QED
      BY <2>2, <3>1, <3>2
  <2>7. /\ y \in Seq(Nat) /\ Len(y) = Len(x) + Len(s)
        /\ \A i \in 1 .. BodyMax : y[i] = x[i]
    BY <1>0, <1>2, <2>5
  <2>8. Prefix(q, BodyMax) = SubSeq(q, 1, BodyMax) /\ Prefix(y, BodyMax) = SubSeq(y, 1, BodyMax)
    BY <1>0, <1>2, <2>6, <2>7 DEF Prefix
  <2>9. SubSeq(q, 1, BodyMax) = SubSeq(y, 1, BodyMax)
    <3>1. \A i \in 1 .. BodyMax : q[i] = y[i]
      BY <2>2, <2>6, <2>7
    <3>2. BodyMax <= Len(q) /\ BodyMax <= Len(y)
      BY <1>0, <1>2, <2>6, <2>7
    <3>3. SubSeq(q, 1, BodyMax) = [i \in 1 .. BodyMax |-> q[i]]
      BY <1>0, <2>6, <3>2
    <3>4. SubSeq(y, 1, BodyMax) = [i \in 1 .. BodyMax |-> y[i]]
      BY <1>0, <2>7, <3>2
    <3> QED
      BY <3>1, <3>3, <3>4
  <2> QED
    BY <2>2, <2>3, <2>4, <2>5, <2>8, <2>9
<1> QED
  BY <1>0, <1>1, <1>2

LEMMA NoNulIsKept ==
  ASSUME NEW x \in Seq(Nat), NEW s \in Seq(Nat), NEW r \in Seq(Nat),
         NUL \notin Range((x \o s) \o r)
  PROVE  Appended(Prefix(x, BodyMax), s) = Prefix(x \o s, BodyMax)
<1>1. PICK y : y = x \o s
  OBVIOUS
<1>2. y \in Seq(Nat) /\ \A i \in DOMAIN y : i \in DOMAIN (y \o r) /\ (y \o r)[i] = y[i]
  BY <1>1
<1>3. \A i \in DOMAIN y : y[i] # NUL
  BY <1>1, <1>2 DEF Range
<1>4. PICK p : p = Prefix(y, BodyMax)
  OBVIOUS
<1>5. \A i \in DOMAIN p : i \in DOMAIN y /\ p[i] = y[i]
  BY <1>2, <1>4, FetchAssumption DEF Prefix
<1>6. UpToNul(p) = p
  BY <1>3, <1>5 DEF UpToNul
<1> QED
  BY <1>1, <1>4, <1>6, PrefixGrows DEF Appended

Text == FlattenSeq(conn.reply.segments)

(* What has come of the text is a piece x that the segments still to come  *)
(* complete, and fetch_body is the beginning of it.                        *)
SoFar ==
  NUL \notin Range(Text) =>
    \E x \in Seq(Nat) : x \o FlattenSeq(conn.rest) = Text /\ body = Prefix(x, BodyMax)

TextInv ==
  /\ pc0 \in {"http", "done"} \/ toC1 = <<"OK">> => SoFar
  /\ conn.at = "connecting" => body = <<>>
  /\ conn.how = "closed" /\ conn.reply.status # 0 => conn.rest = <<>>
  /\ TextIsBody

LEMMA PrefixOfNone == Prefix(<<>>, BodyMax) = <<>>
  BY FetchAssumption DEF Prefix

LEMMA NothingYet ==
  ASSUME NEW segs \in Seq(Seq(Nat))
  PROVE  \E x \in Seq(Nat) : x \o FlattenSeq(segs) = FlattenSeq(segs) /\ <<>> = Prefix(x, BodyMax)
<1>1. <<>> \in Seq(Nat) /\ <<>> \o FlattenSeq(segs) = FlattenSeq(segs)
  BY FlattenType
<1> QED
  BY <1>1, PrefixOfNone

LEMMA TextInit == Init => TextInv
<1> SUFFICES ASSUME Init PROVE TextInv
  OBVIOUS
<1>1. conn = NoConn /\ pc0 = "loop" /\ toC1 = <<>> /\ body = <<>> /\ response = Rejected
  BY DEF Init
<1>2. conn.how = "none" /\ conn.at = "none"
  BY <1>1 DEF NoConn
<1>3. TextIsBody
  BY <1>1, Zenon DEF TextIsBody, Resolves
<1>4. toC1 # <<"OK">>
  BY <1>1
<1> QED
  BY <1>1, <1>2, <1>3, <1>4 DEF TextInv

(* Nothing of the text is looked at while the script waits.                *)
LEMMA WaitingIsText == pc1 = "fetching" => TextIsBody
  BY DEF TextIsBody, Resolves

LEMMA SegmentKeepsText ==
  ASSUME WindowInv, FetchInv, TextInv, Segment PROVE TextInv'
<1> DEFINE s == Head(conn.rest)
<1>1. /\ Polled /\ Quiet /\ conn.at = "body" /\ conn.rest # <<>> /\ conn.unread = 0
      /\ conn \in Conns /\ body' = Appended(body, s)
  BY DEF Segment, Comes, WindowInv, Conns
<1>2. conn.rest \in Seq(Seq(Nat)) /\ s \in Seq(Nat) /\ Tail(conn.rest) \in Seq(Seq(Nat))
  BY <1>1 DEF Conns
<1>3. conn' = [conn EXCEPT !.rest = Tail(conn.rest), !.unread = 0]
  BY <1>1, <1>2 DEF Segment, Recved
<1>4. /\ conn'.rest = Tail(conn.rest) /\ conn'.reply = conn.reply /\ conn'.at = "body"
      /\ conn'.how = conn.how
  BY <1>1, <1>2, <1>3 DEF Conns
<1>5. SoFar' 
  <2>1. Text' = Text
    BY <1>4 DEF Text
  <2> SUFFICES ASSUME NUL \notin Range(Text)
               PROVE  \E x \in Seq(Nat) : x \o FlattenSeq(conn'.rest) = Text
                                          /\ body' = Prefix(x, BodyMax)
    BY <2>1 DEF SoFar
  <2>2. PICK x \in Seq(Nat) : x \o FlattenSeq(conn.rest) = Text /\ body = Prefix(x, BodyMax)
    BY <1>1 DEF TextInv, SoFar, Polled
  <2>3. PICK r \in Seq(Nat) : r = FlattenSeq(Tail(conn.rest))
    BY <1>2, FlattenType
  <2>4. FlattenSeq(conn.rest) = s \o r
    BY <1>1, <1>2, <2>3, FlattenHead
  <2>5. (x \o s) \o r = Text
    <3>1. PICK a \in Seq(Nat) : a = s
      BY <1>2
    <3>2. x \o (a \o r) = Text
      BY <2>2, <2>4, <3>1
    <3> QED
      BY <3>1, <3>2, Associative
  <2>6. body' = Prefix(x \o s, BodyMax)
    BY <1>1, <1>2, <2>2, <2>5, NoNulIsKept
  <2>7. x \o s \in Seq(Nat)
    BY <1>2
  <2> QED
    BY <1>4, <2>3, <2>5, <2>6, <2>7
<1>6. conn'.how # "closed" /\ pc1' = "fetching"
  <2>1. conn.how = "none"
    BY <1>1 DEF WindowInv
  <2>2. pc1 = "fetching"
    BY <1>1 DEF FetchInv, OneFetch, Waits, Polled
  <2> QED
    BY <1>1, <1>4, <2>1, <2>2 DEF Quiet, core1Vars
<1>7. TextIsBody'
  BY <1>6 DEF TextIsBody, Resolves
<1> QED
  BY <1>4, <1>5, <1>6, <1>7 DEF TextInv

LEMMA CloseKeepsText ==
  ASSUME WindowInv, FetchInv, TextInv, NEW how \in Hows, NEW res, NEW srv, Close(how, res, srv),
         how = "closed" /\ conn.reply.status # 0 => conn.rest = <<>>
  PROVE  TextInv'
<1>1. /\ Polled /\ Quiet /\ body' = body /\ conn \in Conns
      /\ conn' = [conn EXCEPT !.at = "closed", !.how = how]
  BY DEF Close, WindowInv
<1>2. /\ conn'.at = "closed" /\ conn'.how = how /\ conn'.reply = conn.reply
      /\ conn'.rest = conn.rest
  BY <1>1 DEF Conns
<1>3. SoFar'
  BY <1>1, <1>2 DEF TextInv, SoFar, Polled, Text
<1>4. pc1' = "fetching"
  BY <1>1 DEF FetchInv, OneFetch, Waits, Polled, Quiet, core1Vars
<1>5. TextIsBody'
  BY <1>4 DEF TextIsBody, Resolves
<1> QED
  BY <1>2, <1>3, <1>5 DEF TextInv

LEMMA NetworkKeepsText ==
  ASSUME WindowInv, FetchInv, TextInv, NetworkStep PROVE TextInv'
<1>1. ASSUME NEW r \in Replies, Connect(r) PROVE TextInv'
  <2>1. /\ Polled /\ Quiet /\ conn.at = "connecting" /\ body' = body /\ conn \in Conns
        /\ conn' = [conn EXCEPT !.at = "headers", !.reply = r, !.rest = r.segments]
    BY <1>1 DEF Connect, WindowInv
  <2>2. /\ conn'.at = "headers" /\ conn'.how = "none"
        /\ conn'.rest = r.segments /\ conn'.reply = r
    BY <2>1 DEF Conns, WindowInv
  <2>3. SoFar'
    <3>1. \E x \in Seq(Nat) : /\ x \o FlattenSeq(r.segments) = FlattenSeq(r.segments)
                              /\ <<>> = Prefix(x, BodyMax)
      BY NothingYet, FetchAssumption
    <3>2. body' = <<>>
      BY <2>1 DEF TextInv
    <3> QED
      BY <2>2, <3>1, <3>2 DEF SoFar, Text
  <2>4. pc1' = "fetching"
    BY <2>1 DEF FetchInv, OneFetch, Waits, Polled, Quiet, core1Vars
  <2>5. TextIsBody'
    BY <2>4 DEF TextIsBody, Resolves
  <2> QED
    BY <2>2, <2>3, <2>5 DEF TextInv
<1>2. CASE Headers
  <2>1. /\ Polled /\ Quiet /\ conn.at = "headers" /\ body' = body /\ conn \in Conns
        /\ conn' = [conn EXCEPT !.at = "body"]
    BY <1>2 DEF Headers, WindowInv
  <2>2. /\ conn'.at = "body" /\ conn'.how = "none"
        /\ conn'.rest = conn.rest /\ conn'.reply = conn.reply
    BY <2>1 DEF Conns, WindowInv
  <2>3. SoFar'
    BY <2>1, <2>2 DEF TextInv, SoFar, Polled, Text
  <2>4. pc1' = "fetching"
    BY <2>1 DEF FetchInv, OneFetch, Waits, Polled, Quiet, core1Vars
  <2>5. TextIsBody'
    BY <2>4 DEF TextIsBody, Resolves
  <2> QED
    BY <2>2, <2>3, <2>5 DEF TextInv
<1>3. CASE NoConnection \/ ServerCloses \/ ServerResets \/ TimesOut
  BY <1>3, CloseKeepsText DEF NoConnection, ServerCloses, ServerResets, TimesOut, AllCame, Hows
<1> QED
  BY <1>1, <1>2, <1>3, SegmentKeepsText DEF NetworkStep

LEMMA Core0KeepsText ==
  ASSUME WindowInv, FetchInv, TextInv, Core0Step PROVE TextInv'
<1>1. pc1 = "fetching" /\ pc1' = "fetching"
  <2>1. CASE Take
    BY <2>1, TakesOneRequest DEF FetchInv, Waits, Core0Step, Refuse, Begin, BeginFails, Completed,
                                 Finish, core1Vars
  <2>2. CASE pc0 \in {"http", "done"}
    BY <2>2 DEF FetchInv, OneFetch, Waits, Core0Step, Refuse, Begin, BeginFails, Completed,
                Finish, core1Vars
  <2> QED
    BY <2>1, <2>2 DEF Core0Step, Refuse, Begin, BeginFails, Completed, Finish
<1>2. TextIsBody'
  BY <1>1 DEF TextIsBody, Resolves
<1>3. CASE Refuse
  <2>1. Waits(<<"REQ">>, <<>>, {"loop"})
    BY <1>3, TakesOneRequest DEF Refuse, FetchInv
  <2>2. body' = <<>> /\ conn' = conn /\ toC1' = <<"ERR">> /\ pc0' = "loop"
    BY <1>3, <2>1, Queued DEF Refuse, Take, ClearBody, Waits
  <2> QED
    BY <1>2, <2>2, Queued DEF TextInv
<1>4. CASE Begin \/ BeginFails
  <2>1. Waits(<<"REQ">>, <<>>, {"loop"})
    BY <1>4, TakesOneRequest DEF Begin, BeginFails, FetchInv
  <2>2. body' = <<>> /\ conn'.reply = NoReply /\ conn'.rest = <<>> /\ conn'.how = "none"
    <3>1. body' = <<>>
      BY <1>4 DEF Begin, BeginFails, Take, ClearBody
    <3>2. NoConn.reply = NoReply /\ NoConn.rest = <<>> /\ NoConn.how = "none"
      BY DEF NoConn
    <3>3. conn' = NoConn \/ conn' = [NoConn EXCEPT !.at = "connecting", !.host = Host(url),
                                                  !.port = Port(url), !.path = url.path]
      BY <1>4 DEF Begin, BeginFails
    <3>4. conn'.reply = NoConn.reply /\ conn'.rest = NoConn.rest /\ conn'.how = NoConn.how
      BY <3>3, NoConnIsConn DEF Conns
    <3> QED
      BY <3>1, <3>2, <3>4
  <2>3. SoFar'
    <3>1. <<>> \in Seq(Seq(Nat)) /\ NoReply.segments = <<>>
      BY DEF NoReply
    <3>2. \E x \in Seq(Nat) : x \o FlattenSeq(<<>>) = FlattenSeq(<<>>) /\ <<>> = Prefix(x, BodyMax)
      BY <3>1, NothingYet
    <3> QED
      BY <2>2, <3>1, <3>2 DEF SoFar, Text
  <2> QED
    BY <1>2, <2>2, <2>3 DEF TextInv
<1>5. CASE Completed
  BY <1>2, <1>5 DEF Completed, TextInv, SoFar, Text, msgVars
<1>6. CASE Finish
  BY <1>2, <1>6 DEF Finish, TextInv, SoFar, Text
<1> QED
  BY <1>3, <1>4, <1>5, <1>6 DEF Core0Step

LEMMA ScriptKeepsText ==
  ASSUME WindowInv, FetchInv, TextInv, (\E u \in Urls : Fetch(u)) \/ FetchReply PROVE TextInv'
<1>1. UNCHANGED <<conn, body, pc0>>
  BY DEF Fetch, FetchReply, msgVars
<1>2. SoFar => SoFar'
  BY <1>1 DEF SoFar, Text
<1>3. ASSUME NEW u \in Urls, Fetch(u) PROVE TextInv'
  <2>1. toC1' = toC1 /\ (response' = Rejected \/ pc1' = "fetching")
    BY <1>3 DEF Fetch
  <2>2. TextIsBody'
    <3>1. CASE response' = Rejected
      BY <3>1, Zenon DEF TextIsBody, Resolves
    <3>2. CASE pc1' = "fetching"
      BY <3>2 DEF TextIsBody, Resolves
    <3> QED
      BY <2>1, <3>1, <3>2
  <2> QED
    BY <1>1, <1>2, <2>1, <2>2 DEF TextInv
<1>4. CASE FetchReply
  <2>1. /\ pc1 = "fetching" /\ toC1 # <<>> /\ toC1' = Tail(toC1)
        /\ response' = IF Head(toC1) = "OK" THEN Resolved(msg, body) ELSE Resolved(NoMsg, <<>>)
    BY <1>4 DEF FetchReply
  <2>2. CASE Waits(<<>>, <<"ERR">>, {"loop"})
    <3>1. response' = Resolved(NoMsg, <<>>) /\ toC1' = <<>> /\ pc0' = "loop"
      BY <1>1, <2>1, <2>2, Queued DEF Waits
    <3>2. response'.status = 0
      BY <3>1 DEF Resolved, NoMsg
    <3>3. TextIsBody'
      BY <3>2 DEF TextIsBody
    <3>4. <<>> # <<"OK">>
      OBVIOUS
    <3> QED
      BY <1>1, <3>1, <3>3, <3>4 DEF TextInv
  <2>3. CASE Waits(<<>>, <<"OK">>, {"loop"}) /\ AnswerOf(msg)
    <3>1. response' = Resolved(msg, body) /\ toC1' = <<>> /\ pc0' = "loop" /\ toC1 = <<"OK">>
      BY <1>1, <2>1, <2>3, Queued DEF Waits
    <3>2. conn.rest = <<>> /\ SoFar
      BY <2>3, <3>1 DEF AnswerOf, Whole, TextInv
    <3>3. NUL \notin Range(Text) => body = Prefix(Text, BodyMax)
      <4> SUFFICES ASSUME NUL \notin Range(Text) PROVE body = Prefix(Text, BodyMax)
        OBVIOUS
      <4>1. PICK x \in Seq(Nat) : x \o FlattenSeq(conn.rest) = Text /\ body = Prefix(x, BodyMax)
        BY <3>2 DEF SoFar
      <4>2. FlattenSeq(conn.rest) = <<>>
        BY <3>2, FlattenEmpty, Zenon
      <4>3. x \o <<>> = x
        OBVIOUS
      <4> QED
        BY <4>1, <4>2, <4>3
    <3>4. response'.body = body
      BY <3>1 DEF Resolved
    <3>5. TextIsBody'
      BY <1>1, <3>3, <3>4 DEF TextIsBody, Text
    <3>6. <<>> # <<"OK">>
      OBVIOUS
    <3> QED
      BY <1>1, <3>1, <3>2, <3>5, <3>6 DEF TextInv
  <2> QED
    BY <2>1, <2>2, <2>3 DEF FetchInv, OneFetch, Waits
<1> QED
  BY <1>3, <1>4

(* The text of the answer is the beginning of the body, however the network *)
(* cut it up.                                                              *)
THEOREM TextIsTheBody == Spec => []TextIsBody
<1>1. TextInv /\ UNCHANGED vars => TextInv'
  BY DEF vars, core1Vars, msgVars, serviceVars, TextInv, SoFar, Text, TextIsBody, Resolves
<1>2. WindowInv /\ FetchInv /\ TextInv /\ [Next]_vars => TextInv'
  BY <1>1, ScriptKeepsText, Core0KeepsText, NetworkKeepsText DEF Next
<1>3. TextInv => TextIsBody
  BY DEF TextInv
<1>4. Spec => [](WindowInv /\ FetchInv)
  BY FetchInvariant
<1> QED
  BY <1>2, <1>3, <1>4, TextInit, PTL DEF Spec
=============================================================================
