----------------------------- MODULE StaConnect -----------------------------
(***************************************************************************)
(* emul_start and network.c: the radio is initialised, the worker started, *)
(* and the connection attempted in a loop that polls the radio and, as the *)
(* polling callback, the worker.  The loop reads connectionStatus, which   *)
(* is refreshed from the driver at most once per Interval and set to       *)
(* "connected with an address" by the interface's status callback.         *)
(*                                                                         *)
(* Time is counted in ticks; a turn of the loop takes 1 .. MaxTurn of them *)
(* (the worker it polls may take long).                                    *)
(*                                                                         *)
(* The driver and lwIP are external.  Their state changes only inside a    *)
(* poll (the build is cyw43_arch_lwip_poll), and the status callback is    *)
(* called whenever the address of the interface, which is always up,       *)
(* changes.  A chip that failed to initialise lets no connection start.    *)
(* Addresses in the configuration are well-formed.                         *)
(***************************************************************************)
EXTENDS Integers

CONSTANTS
  Interval,   (* wifiConnPollingInterval                                    *)
  Timeout,    (* NETWORK_CONNECT_TIMEOUT                                    *)
  MaxTurn,    (* a turn of the loop takes no longer                         *)
  Unlinked    (* what the driver says while there is no link                *)

ASSUME TimesAssumption ==
  /\ Interval \in Nat \ {0} /\ Timeout \in Nat \ {0} /\ MaxTurn \in Nat \ {0}
  /\ "down" \in Unlinked /\ Unlinked \cap {"linked", "noip", "up"} = {}

VARIABLES
  pc,           (* where emul_start is                                      *)
  config,       (* [dhcp, ssid, auth]: DHCP on, an SSID and an auth mode set *)
  flag, driver, (* cyw43Initialized; whether the chip is initialised        *)
  radio, ip,    (* the radio's link; whether the interface has an address   *)
  conn,         (* connectionStatus                                         *)
  status,       (* the loop's copy of it                                    *)
  now, checkAt, (* time since the loop was entered; wifiConnStatusTime      *)
  callback,     (* networkPollingCallback is js_worker_loop                 *)
  staRet,       (* what network_wifiStaConnect returned                     *)
  served,       (* when the worker was polled last                          *)
  upAt,         (* since when the link has been up without a break, or -1   *)
  seenAt,       (* when the status was read as connected, or -1             *)
  joined        (* the link was up at some time of this attempt             *)

loopVars  == <<status, now, checkAt>>
radioVars == <<radio, ip, upAt, joined>>
staVars   == <<pc, config, flag, driver, conn, callback, staRet, served, seenAt, loopVars, radioVars>>

Configs  == [dhcp : BOOLEAN, ssid : BOOLEAN, auth : BOOLEAN]
Refusals == {"not_initialized", "mac_failed", "no_ssid", "no_auth", "failed"}
Times    == 0 .. Timeout + MaxTurn

StaTypeOK ==
  /\ pc \in {"off", "wifi", "worker", "begin", "test", "poll", "callback", "done", "loop"}
  /\ config \in Configs /\ flag \in BOOLEAN /\ driver \in {"none", "ready", "failed"}
  /\ radio \in Unlinked \cup {"linked"} /\ {ip, callback, joined} \subseteq BOOLEAN
  /\ {conn, status} \subseteq Unlinked \cup {"noip", "up"}
  /\ staRet \in Refusals \cup {"none", "ok", "timeout"}
  /\ {now, served} \subseteq Times /\ checkAt \in 0 .. Timeout + Interval
  /\ {upAt, seenAt} \subseteq Times \cup {-1}

(* cyw43_tcpip_link_status                                                 *)
LinkStatus == IF radio # "linked" THEN radio ELSE IF ip THEN "up" ELSE "noip"

StaOff ==
  /\ pc = "off" /\ flag = FALSE /\ driver = "none" /\ radio = "down" /\ ip = FALSE
  /\ conn = "down" /\ status = "down" /\ now = 0 /\ checkAt = 0
  /\ callback = FALSE /\ staRet = "none"
  /\ served = 0 /\ upAt = -1 /\ seenAt = -1 /\ joined = FALSE

StaStart(c) ==
  /\ pc = "off" /\ pc' = "wifi" /\ config' = c
  /\ UNCHANGED <<flag, driver, conn, callback, staRet, served, seenAt, loopVars, radioVars>>

(* network_wifiInit; emul_start does not look at what it returns.          *)
WifiInit(ok) ==
  /\ pc = "wifi" /\ pc' = "worker"
  /\ flag' = TRUE
  /\ driver' = IF ok THEN "ready" ELSE "failed"
  /\ UNCHANGED <<config, conn, callback, staRet, served, seenAt, loopVars, radioVars>>

WorkerInit ==
  /\ pc = "worker" /\ pc' = "begin" /\ callback' = TRUE
  /\ UNCHANGED <<config, flag, driver, conn, staRet, served, seenAt, loopVars, radioVars>>

(* networkStatusCallback: the interface is up, whatever its link is.       *)
StatusCallback(changed) == conn' = IF changed THEN "up" ELSE conn

(* network_wifiStaConnect before its loop.  A static address is set before *)
(* the attempt begins.                                                     *)
Why(r) ==
  CASE r = "not_initialized" -> ~flag
    [] r = "mac_failed"      -> flag
    [] r = "no_ssid"         -> flag /\ ~config.ssid
    [] r = "no_auth"         -> flag /\ config.ssid /\ ~config.auth
    [] r = "failed"          -> flag /\ config.ssid /\ config.auth

SetAddress ==
  /\ ip' = (flag /\ ~config.dhcp)
  /\ StatusCallback(ip' # ip)
  /\ UNCHANGED <<radio, upAt, joined>>

Refuse(r) ==
  /\ pc = "begin" /\ Why(r)
  /\ SetAddress
  /\ pc' = "loop" /\ staRet' = r /\ callback' = FALSE
  /\ UNCHANGED <<config, flag, driver, served, seenAt, loopVars>>

EnterLoop ==
  /\ pc = "begin" /\ flag /\ driver = "ready" /\ config.ssid /\ config.auth
  /\ SetAddress
  /\ pc' = "test" /\ checkAt' = now + Interval
  /\ UNCHANGED <<config, flag, driver, callback, staRet, status, now, served, seenAt>>

(* The head of the loop, and network_wifiConnStatus.                       *)
ReadStatus ==
  /\ pc = "test" /\ now < Timeout
  /\ IF checkAt < now THEN conn' = LinkStatus /\ checkAt' = now + Interval
                      ELSE UNCHANGED <<conn, checkAt>>
  /\ status' = conn' /\ pc' = "poll"
  /\ seenAt' = IF status' = "up" /\ seenAt = -1 THEN now ELSE seenAt
  /\ UNCHANGED <<config, flag, driver, callback, staRet, now, served, radioVars>>

(* The radio and the address change while the radio is polled; an address  *)
(* is obtained over a link.                                                *)
Radio(r, a) ==
  /\ radio' = r /\ ip' = a
  /\ a /\ ~ip => r = "linked" /\ config.dhcp
  /\ ~config.dhcp => a = ip
  /\ StatusCallback(a # ip)
  /\ upAt' = IF r = "linked" /\ a THEN IF upAt = -1 THEN now ELSE upAt ELSE -1
  /\ joined' = (joined \/ (r = "linked" /\ a))

Poll(r, a) ==
  /\ pc = "poll" /\ pc' = "callback"
  /\ Radio(r, a)
  /\ UNCHANGED <<config, flag, driver, callback, staRet, served, seenAt, loopVars>>

(* The worker's turn, and the end of the loop's.                           *)
(* Mutants: the callback is cleared; the status is not looked at.          *)
PollNobody == served' = served
PollWorker == served' = IF callback THEN now' ELSE served
KeepOn     == FALSE
Connected  == status = "up"

Turn(t) ==
  /\ pc = "callback" /\ now' = now + t
  /\ PollWorker
  /\ pc' = IF Connected THEN "done" ELSE "test"
  /\ UNCHANGED <<config, flag, driver, conn, callback, staRet, status, checkAt, seenAt, radioVars>>

(* After the loop the deadline is looked at again.                         *)
TooLate  == now >= Timeout
(* Mutant: the loop waits for the link for ever.                           *)
WhenDone == pc = "done"
Over     == now >= Timeout \/ pc = "done"

LeaveLoop ==
  /\ pc \in {"test", "done"} /\ Over
  /\ pc' = "loop" /\ callback' = FALSE
  /\ staRet' = IF TooLate THEN "timeout" ELSE "ok"
  /\ UNCHANGED <<config, flag, driver, conn, served, seenAt, loopVars, radioVars>>

StaStep ==
  \/ \E ok \in BOOLEAN : WifiInit(ok)
  \/ WorkerInit \/ EnterLoop \/ ReadStatus \/ LeaveLoop
  \/ \E r \in Refusals : Refuse(r)
  \/ \E r \in Unlinked \cup {"linked"}, a \in BOOLEAN : Poll(r, a)
  \/ \E t \in 1 .. MaxTurn : Turn(t)

(* The main loop polls the radio: the address may come and go.             *)
MainTurn(r, a) ==
  /\ pc = "loop" /\ flag /\ driver = "ready"
  /\ Radio(r, a)
  /\ UNCHANGED <<pc, config, flag, driver, callback, staRet, served, seenAt, loopVars>>

(***************************************************************************)
(* What the loop is worth                                                  *)
(***************************************************************************)
(* With DHCP, success is only reported when the link did come up with an   *)
(* address, although the status read may be older than the link.           *)
OKMeansJoined == staRet = "ok" /\ config.dhcp => joined

(* A connection that comes up and stays is noticed within two turns,       *)
(* though the driver is asked less often: the attempt ends well unless it  *)
(* came up that late.                                                      *)
UpIsNoticed ==
  staRet = "timeout" /\ upAt # -1 => upAt + 2 * MaxTurn >= Timeout

(* A connection that was seen is only reported as a timeout when the last  *)
(* turn of the loop ran over the deadline (network.c:786).                 *)
SeenIsReported ==
  staRet = "timeout" /\ seenAt # -1 => seenAt + MaxTurn >= Timeout

(* What network_wifiStaConnect returns is what happened on the radio, for  *)
(* all that the status is read late and the worker delays the loop.        *)
ReportIsRight == OKMeansJoined /\ UpIsNoticed /\ SeenIsReported

(* The ST is served while the board connects (emul.c:46): between two      *)
(* polls of the worker there is at most one turn.                          *)
ServedMeanwhile == pc \in {"test", "poll", "callback", "done"} => now - served <= MaxTurn

=============================================================================
