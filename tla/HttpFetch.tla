----------------------------- MODULE HttpFetch ------------------------------
(***************************************************************************)
(* fetch() of a script: js_fetch.c asks on Core 1, js_worker.c performs    *)
(* the request on Core 0 with httpc.c, whose callbacks run while Core 0    *)
(* polls lwIP.  The words between the cores are those of MdjsWorker, here  *)
(* with nothing else going on.                                             *)
(*                                                                         *)
(* lwIP's HTTP client, its name service and the server are external.  The  *)
(* client parses the headers, passes the body on as it arrives, compares   *)
(* its length with Content-Length and gives up when nothing comes.         *)
(***************************************************************************)
EXTENDS Integers, SequencesExt

CONSTANTS
  Urls,        (* [http, size, host, hostSize, port, path]: what scripts    *)
               (* fetch; port -1: none in the URL                           *)
  UrlMax,      (* sizeof(fetch_url)                                         *)
  HostMax,     (* sizeof(hostname) in js_handle_fetch_request               *)
  BodyMax,     (* sizeof(fetch_body) - 1                                    *)
  Window,      (* TCP_WND                                                   *)
  Replies,     (* [status, reason, segments, length, end]: what servers do; *)
               (* status 0: no status line; length -1: no Content-Length    *)
  MaxFetches   (* bound: fetches of a script                                *)

ASSUME FetchAssumption ==
  /\ BodyMax \in Nat /\ Window \in Nat
  /\ \A u \in Urls : u.port \in Int
  /\ \A r \in Replies : r.end \in {"close", "reset", "silent"}
  /\ \A r \in Replies : r.segments \in Seq(Seq(Nat))
  /\ \A r \in Replies : \A i \in DOMAIN r.segments : Len(r.segments[i]) <= Window

VARIABLES
  pc1, fetches, wanted,    (* Core 1; fetches so far; the URL of the last   *)
  response,                (* the Response the script gets                  *)
  toC0, toC1,              (* words in the FIFOs: "REQ", "OK", "ERR"        *)
  pc0,                     (* Core 0: "loop", "http", "done"                *)
  url, body, msg,          (* fetch_url, fetch_body; fetch_status, _ok and  *)
                           (* _status_text                                  *)
  request,                 (* complete, result of the HTTPC_REQUEST_T       *)
  status, reason,          (* s_fetch_http_status, s_fetch_reason           *)
  conn                     (* the connection and what the server does on it *)

core1Vars  == <<pc1, fetches, wanted, response>>
msgVars    == <<url, body, msg>>
serviceVars == <<request, status, reason>>
vars == <<core1Vars, toC0, toC1, pc0, msgVars, serviceVars, conn>>

NUL == 0
UpToNul(s) == IF \E i \in DOMAIN s : s[i] = NUL
              THEN SubSeq(s, 1, SelectInSeq(s, LAMBDA c : c = NUL) - 1) ELSE s
Prefix(s, n) == SubSeq(s, 1, IF Len(s) < n THEN Len(s) ELSE n)

NoMsg      == [status |-> 0, ok |-> FALSE, text |-> ""]
NoReply    == [status |-> 0, reason |-> "", segments |-> <<>>, length |-> -1, end |-> "close"]
NoConn     == [at |-> "none", host |-> "", port |-> 0, path |-> "", reply |-> NoReply,
               rest |-> <<>>, unread |-> 0, how |-> "none"]
NoUrl      == [http |-> FALSE, size |-> 0, host |-> "", hostSize |-> 0, port |-> -1, path |-> ""]
Rejected   == [kind |-> "rejected"]
Resolved(m, b) == [kind |-> "response", ok |-> m.ok, status |-> m.status,
                   statusText |-> m.text, body |-> b]

Init ==
  /\ pc1 = "script" /\ fetches = 0 /\ wanted = NoUrl /\ response = Rejected
  /\ toC0 = <<>> /\ toC1 = <<>> /\ pc0 = "loop"
  /\ url = NoUrl /\ body = <<>> /\ msg = NoMsg
  /\ request = [complete |-> FALSE, result |-> "OK"] /\ status = 0 /\ reason = ""
  /\ conn = NoConn

(***************************************************************************)
(* Core 1: fetch_handler                                                   *)
(***************************************************************************)
Fetch(u) ==
  /\ pc1 = "script" /\ fetches < MaxFetches
  /\ fetches' = fetches + 1 /\ wanted' = u
  /\ IF u.size >= UrlMax
     THEN response' = Rejected /\ UNCHANGED <<pc1, toC0, url>>
     ELSE /\ url' = u /\ toC0' = Append(toC0, "REQ") /\ pc1' = "fetching"
          /\ UNCHANGED response
  /\ UNCHANGED <<toC1, pc0, body, msg, serviceVars, conn>>

FetchReply ==
  /\ pc1 = "fetching" /\ toC1 # <<>>
  /\ toC1' = Tail(toC1) /\ pc1' = "script"
  /\ response' = IF Head(toC1) = "OK" THEN Resolved(msg, body) ELSE Resolved(NoMsg, <<>>)
  /\ UNCHANGED <<fetches, wanted, toC0, pc0, msgVars, serviceVars, conn>>

(***************************************************************************)
(* Core 0: js_handle_fetch_request                                         *)
(***************************************************************************)
Fits(u) == u.http /\ u.hostSize < HostMax

(* Mutant: fetch_body keeps what it held.                                  *)
ClearBody_Keep == body' = body
ClearBody      == body' = <<>>

(* atoi into a uint16_t; httpc.c takes 0 for the default.                  *)
Port(u) == IF u.port = -1 \/ u.port % 65536 = 0 THEN 80 ELSE u.port % 65536
Host(u) == IF u.hostSize < HostMax THEN u.host ELSE "cut"

Take ==
  /\ pc0 = "loop" /\ toC0 # <<>> /\ toC0' = Tail(toC0)
  /\ ClearBody /\ msg' = [msg EXCEPT !.status = 0, !.ok = FALSE]

Refuse ==
  /\ Take /\ ~Fits(url)
  /\ toC1' = Append(toC1, "ERR")
  /\ UNCHANGED <<core1Vars, pc0, url, serviceVars, conn>>

Begin ==
  /\ Take /\ Fits(url)
  /\ request' = [complete |-> FALSE, result |-> "OK"] /\ status' = 0 /\ reason' = ""
  /\ conn' = [NoConn EXCEPT !.at = "connecting", !.host = Host(url), !.port = Port(url),
                            !.path = url.path]
  /\ pc0' = "http"
  /\ UNCHANGED <<core1Vars, toC1, url>>

(* httpc_get_file_dns takes no request: no memory, or no link.             *)
BeginFails ==
  /\ Take /\ Fits(url)
  /\ request' = [complete |-> FALSE, result |-> "ERR"] /\ status' = 0 /\ reason' = ""
  /\ conn' = NoConn /\ pc0' = "done"
  /\ UNCHANGED <<core1Vars, toC1, url>>

(* The callbacks: js_fetch_headers_cb, ...                                 *)
HeadersCb(r) == reason' = r.reason

(* ... js_fetch_recv_cb, which takes fetch_body for a string, ...          *)
Appended(b, s) == UpToNul(Prefix(b \o s, BodyMax))

(* Mutant: altcp_recved only for what was kept.                            *)
Recved_Kept(b, s) == Len(Appended(b, s)) - Len(b)
Recved(b, s)      == Len(s)

(* ... internal_result_fn and js_fetch_result_cb.                          *)
ResultCb(result, srv) == request' = [complete |-> TRUE, result |-> result] /\ status' = srv

Ok(srv)  == srv >= 200 /\ srv <= 299
(* Mutant: only a status 2xx is an answer.                                 *)
Answered_2xx == request.result = "OK" /\ Ok(status)
Answered     == request.result = "OK" /\ status # 0

Finish ==
  /\ pc0 = "done" /\ pc0' = "loop"
  /\ msg' = IF Answered
            THEN [status |-> status, ok |-> Ok(status), text |-> reason] ELSE NoMsg
  /\ toC1' = Append(toC1, IF Answered THEN "OK" ELSE "ERR")
  /\ UNCHANGED <<core1Vars, toC0, url, body, serviceVars, conn>>

(* http_client_request_sync stops polling.                                 *)
Completed ==
  /\ pc0 = "http" /\ request.complete /\ pc0' = "done"
  /\ UNCHANGED <<core1Vars, toC0, toC1, msgVars, serviceVars, conn>>

Core0Step == Refuse \/ Begin \/ BeginFails \/ Completed \/ Finish

(***************************************************************************)
(* lwIP and the server, while Core 0 polls                                 *)
(***************************************************************************)
Polled == pc0 = "http" /\ conn.at \in {"connecting", "headers", "body"}
Quiet  == UNCHANGED <<core1Vars, toC0, toC1, pc0, url, msg>>

Connect(r) ==
  /\ Polled /\ conn.at = "connecting"
  /\ conn' = [conn EXCEPT !.at = "headers", !.reply = r, !.rest = r.segments]
  /\ Quiet /\ UNCHANGED <<body, serviceVars>>

Headers ==
  /\ Polled /\ conn.at = "headers" /\ conn.reply.status # 0
  /\ HeadersCb(conn.reply) /\ conn' = [conn EXCEPT !.at = "body"]
  /\ Quiet /\ UNCHANGED <<body, request, status>>

(* A segment comes when the window has room for it.                        *)
Comes == conn.at = "body" /\ conn.rest # <<>> /\ conn.unread + Len(Head(conn.rest)) <= Window
Segment ==
  /\ Polled /\ Comes
  /\ LET s == Head(conn.rest) IN
     /\ body' = Appended(body, s)
     /\ conn' = [conn EXCEPT !.rest = Tail(@), !.unread = @ + Len(s) - Recved(body, s)]
  /\ Quiet /\ UNCHANGED serviceVars

Close(how, result, srv) ==
  /\ Polled
  /\ ResultCb(result, srv) /\ conn' = [conn EXCEPT !.at = "closed", !.how = how]
  /\ Quiet /\ UNCHANGED <<body, reason>>

(* The server has nothing more to send.                                    *)
AllCame ==
  \/ conn.at = "body" /\ conn.rest = <<>>
  \/ conn.at = "headers" /\ conn.reply.status = 0
Total(r) == Len(FlattenSeq(r.segments))

NoConnection == conn.at = "connecting" /\ Close("unreachable", "ERR", 0)
ServerCloses ==
  /\ AllCame /\ conn.reply.end = "close"
  /\ Close("closed", IF conn.at = "body" /\ conn.reply.length \in {-1, Total(conn.reply)}
                     THEN "OK" ELSE "ERR", conn.reply.status)
ServerResets == AllCame /\ conn.reply.end = "reset" /\ Close("reset", "ERR", 0)
TimesOut ==
  /\ \/ AllCame /\ conn.reply.end = "silent"
     \/ conn.at = "body" /\ conn.rest # <<>> /\ ~Comes
  /\ Close("timeout", "ERR", 0)

NetworkStep ==
  \/ \E r \in Replies : Connect(r)
  \/ Headers \/ Segment \/ NoConnection \/ ServerCloses \/ ServerResets \/ TimesOut

Next == (\E u \in Urls : Fetch(u)) \/ FetchReply \/ Core0Step \/ NetworkStep
Spec == Init /\ [][Next]_vars

(***************************************************************************)
(* What fetch() is worth                                                   *)
(***************************************************************************)
Resolves == pc1 = "script" /\ response # Rejected
IsPort(p) == 0 < p /\ p < 65536
Whole == /\ conn.how = "closed" /\ conn.reply.status # 0
         /\ conn.reply.length \in {-1, Total(conn.reply)}

(* The script gets a status if and only if the server its URL names has    *)
(* given its answer to the end, and then that status and reason, whatever  *)
(* was fetched before: js_worker.c:541, "OK whenever the server answered,  *)
(* whatever its status".  Of a URL that is never asked for, one that is    *)
(* not http or whose host name is too long, it gets none (js_worker.c:554, *)
(* 570), whatever the connection of the fetch before heard.                *)
AnswerIsTheServers ==
  Resolves =>
    IF response.status = 0
    THEN /\ response = Resolved(NoMsg, <<>>)
         /\ wanted.http /\ wanted.hostSize < HostMax => ~Whole
    ELSE /\ Whole /\ conn.host = wanted.host /\ conn.path = wanted.path
         /\ IsPort(wanted.port) => conn.port = wanted.port
         /\ response.status = conn.reply.status /\ response.statusText = conn.reply.reason
         /\ response.ok = Ok(response.status)

(* Its text is the beginning of the body, as much as fits, however the     *)
(* network cut the body up.  A body with a NUL is the exception: what      *)
(* comes in the same segment after the NUL is lost.                        *)
TextIsBody ==
  Resolves /\ response.status # 0 =>
    LET sent == FlattenSeq(conn.reply.segments)
    IN NUL \notin Range(sent) => response.body = Prefix(sent, BodyMax)

(* A server that sends all it has is never timed out, though the body be   *)
(* bigger than fetch_body and the TCP window (test.sh: "one bigger than    *)
(* lwIP's TCP window").                                                    *)
NoStall == conn.how = "timeout" => conn.reply.end = "silent"
=============================================================================
