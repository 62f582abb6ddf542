---------------------------- MODULE RealtimeClient ----------------------------
(***************************************************************************)
(* The app's RealtimeClient and who calls it: signing in connects, signing *)
(* out and an expired session disconnect, a channel that ends is dialed    *)
(* again after a while. A channel is an IOWebSocketChannel: it dials when  *)
(* it is made, tells its end once, and closing it ends it for the app at   *)
(* once, while the Future of the close waits for a dial under way and is   *)
(* never completed when that dial fails (web_socket_channel 3.0.3). Where  *)
(* there is no dart:io, as in a web build, making a channel throws.        *)
(***************************************************************************)
EXTENDS Naturals

CONSTANTS
  Slots,      \* room for channels: one that is over and that nothing waits for is used again
  MaxTroubles \* bound on logouts, expiries of the token, failed dials and ends of channels

ASSUME LinkAssumption == Slots \subseteq Nat \ {0} /\ MaxTroubles \in Nat

VARIABLES
  native,   \* the build has dart:io (realtime_connector.dart); it never changes
  signed,   \* what the app shows: signed in or not
  token,    \* tokens.accessToken: "none", or one the server still takes or not
  expiring, \* the interceptor has cleared the tokens and is about to call onSessionExpired
  channels, \* "dialing", "open", "aborted" (closed while dialing), "lost" (and never opened), "ended"
  current,  \* _channel, 0 for null
  closed,   \* _closed
  timer,    \* _retry: its delay in seconds, 0 when it is not active
  attempt,  \* _attempt, as far as it is read: clamp(0, 5)
  closing,  \* the disconnects that wait for a channel, and who called each
  crossed,  \* history: a disconnect came to its end after a connect that was later than its call
  troubles

account == <<signed, token, expiring>>
socket == <<channels, current, closed, timer, attempt, closing, crossed>>
link == <<native, account, socket, troubles>>

LinkTypeOK ==
  /\ native \in BOOLEAN
  /\ signed \in BOOLEAN /\ token \in {"none", "fresh", "stale"} /\ expiring \in BOOLEAN
  /\ channels \in [Slots -> {"dialing", "open", "aborted", "lost", "ended"}]
  /\ current \in Slots \cup {0} /\ closed \in BOOLEAN
  /\ timer \in 0 .. 30 /\ attempt \in 0 .. 5
  /\ closing \subseteq (Slots \cup {0}) \X {"logout", "expired"}
  /\ crossed \in BOOLEAN /\ troubles \in 0 .. MaxTroubles

LinkInit ==
  /\ native \in BOOLEAN
  /\ signed = FALSE /\ token = "none" /\ expiring = FALSE
  /\ channels = [c \in Slots |-> "ended"] /\ current = 0
  /\ closed = TRUE /\ timer = 0 /\ attempt = 0 /\ closing = {} /\ crossed = FALSE /\ troubles = 0

Over(c) == channels[c] \in {"ended", "lost"} /\ \A d \in closing : d[1] # c
Free(c) == Over(c) /\ \A s \in Slots : s < c => ~Over(s)
Trouble == troubles < MaxTroubles /\ troubles' = troubles + 1

Live == {c \in Slots : channels[c] \in {"dialing", "open"}}
Open == \E c \in Slots : channels[c] = "open"

-----------------------------------------------------------------------------
(* connect, _reconnect and disconnect *)

Delay(n) == IF n >= 5 THEN 30 ELSE 2 ^ n

\* The retry that _reconnect starts, unless one is under way.
Schedule == timer' = Delay(attempt) /\ attempt' = (IF attempt < 5 THEN attempt + 1 ELSE 5)

Reconnect ==
  /\ IF closed \/ timer > 0 THEN UNCHANGED <<timer, attempt>> ELSE Schedule
  /\ UNCHANGED closed

\* connect with a token: a native channel is there before its dial ends; elsewhere
\* connectWebSocket throws, and the catch tries again later and later.
Connect ==
  /\ closed' = FALSE
  /\ IF native
       THEN /\ \E c \in Slots : /\ Free(c)
                                /\ channels' = [channels EXCEPT ![c] = "dialing"] /\ current' = c
            /\ timer' = 0 /\ attempt' = 0
       ELSE Schedule /\ UNCHANGED <<channels, current>>
  /\ UNCHANGED <<closing, crossed>>

Shut == [open |-> "ended", dialing |-> "aborted", aborted |-> "aborted", lost |-> "lost", ended |-> "ended"]

\* Mutant of Disconnect: the retry under way is not cancelled.
DisconnectKeepingRetry(caller) ==
  /\ closed' = TRUE
  /\ channels' = [c \in Slots |-> IF c = current THEN Shut[channels[c]] ELSE channels[c]]
  /\ closing' = IF \E c \in Slots : c = current /\ channels[c] = "lost"
                THEN closing ELSE closing \cup {<<current, caller>>}
  /\ UNCHANGED <<current, timer, attempt, crossed>>

\* disconnect up to its await. The channel that ends is not dialed again: it is closed.
Disconnect(caller) ==
  /\ closed' = TRUE /\ timer' = 0
  /\ channels' = [c \in Slots |-> IF c = current THEN Shut[channels[c]] ELSE channels[c]]
  /\ closing' = IF \E c \in Slots : c = current /\ channels[c] = "lost"
                THEN closing ELSE closing \cup {<<current, caller>>}
  /\ UNCHANGED <<current, attempt, crossed>>

-----------------------------------------------------------------------------
(* The app *)

\* Logging in or registering, or starting with a stored session.
SignIn ==
  /\ ~signed /\ ~expiring
  /\ signed' = TRUE /\ token' = "fresh"
  /\ Connect
  /\ UNCHANGED <<native, expiring, troubles>>

Logout == Trouble /\ signed /\ Disconnect("logout") /\ UNCHANGED account

\* The rest of disconnect, and of logout after it.
Disconnected(d) ==
  /\ d \in closing
  /\ \A c \in Slots : d[1] = c => channels[c] = "ended"
  /\ closing' = closing \ {d}
  /\ current' = 0 /\ crossed' = (crossed \/ ~closed \/ current \notin {0, d[1]})
  /\ IF d[2] = "logout" THEN signed' = FALSE /\ token' = "none" ELSE UNCHANGED <<signed, token>>
  /\ UNCHANGED <<expiring, channels, closed, timer, attempt, troubles>>

TokenExpires == Trouble /\ token = "fresh" /\ token' = "stale" /\ UNCHANGED <<signed, expiring, socket>>

\* Only a request is refreshed and tried again; a dial is not.
TokenRefreshed == token = "stale" /\ token' = "fresh" /\ UNCHANGED <<signed, expiring, socket, troubles>>

\* The refresh of a request failed: the tokens are cleared, ...
ClearTokens ==
  /\ signed /\ token = "stale"
  /\ token' = "none" /\ expiring' = TRUE
  /\ UNCHANGED <<signed, socket, troubles>>

\* ... and onSessionExpired disconnects, waiting for nothing.
SessionExpired ==
  /\ expiring
  /\ expiring' = FALSE /\ signed' = FALSE
  /\ Disconnect("expired")
  /\ UNCHANGED <<token, troubles>>

\* connect returns early when it has no token.
RetryFires ==
  /\ timer > 0
  /\ IF token = "none"
     THEN timer' = 0 /\ UNCHANGED <<channels, current, closed, attempt, closing, crossed>>
     ELSE Connect
  /\ UNCHANGED <<account, troubles>>

-----------------------------------------------------------------------------
(* A channel *)

\* The server takes the token. A channel that was closed meanwhile is closed now.
Opens(c) ==
  /\ token # "stale"
  /\ \/ channels[c] = "dialing" /\ channels' = [channels EXCEPT ![c] = "open"]
     \/ channels[c] = "aborted" /\ channels' = [channels EXCEPT ![c] = "ended"]
  /\ UNCHANGED <<account, current, closed, timer, attempt, closing, crossed, troubles>>

\* Mutant of DialFails: onError alone, and nothing dials again.
DialFailsQuietly(c) ==
  /\ Trouble
  /\ channels[c] = "dialing" /\ channels' = [channels EXCEPT ![c] = "ended"]
  /\ UNCHANGED <<account, current, closed, timer, attempt, closing, crossed>>

\* An unreachable server, a refused token, a timeout: onError, then onDone.
DialFails(c) ==
  /\ Trouble
  /\ channels[c] = "dialing" /\ channels' = [channels EXCEPT ![c] = "ended"]
  /\ Reconnect
  /\ UNCHANGED <<account, current, closing, crossed>>

\* Whoever waits for the close waits for ever.
AbortedFails(c) ==
  /\ Trouble
  /\ channels[c] = "aborted" /\ channels' = [channels EXCEPT ![c] = "lost"]
  /\ closing' = {d \in closing : d[1] # c}
  /\ UNCHANGED <<account, current, closed, timer, attempt, crossed>>

\* The server or the network ends it: onDone.
Ends(c) ==
  /\ Trouble
  /\ channels[c] = "open" /\ channels' = [channels EXCEPT ![c] = "ended"]
  /\ Reconnect
  /\ UNCHANGED <<account, current, closing, crossed>>

LinkStep ==
  /\ \/ Logout \/ ClearTokens \/ SessionExpired \/ RetryFires \/ TokenExpires \/ TokenRefreshed
     \/ \E d \in closing : Disconnected(d)
     \/ \E c \in Slots : Opens(c) \/ DialFails(c) \/ AbortedFails(c) \/ Ends(c)
  /\ UNCHANGED native

-----------------------------------------------------------------------------
(* The property *)

\* One channel is live, the one the client names, and none once the user is signed out,
\* unless a disconnect came to its end after the user had signed in again: it forgets the
\* new channel, which stays when the user signs out.
OneChannel ==
  ~crossed => Live \subseteq {current} /\ (~signed => Live = {} /\ timer = 0)

-----------------------------------------------------------------------------
(* The inductive invariant behind it *)

LinkTypes ==
  /\ signed \in BOOLEAN /\ closed \in BOOLEAN /\ crossed \in BOOLEAN
  /\ channels \in [Slots -> {"dialing", "open", "aborted", "lost", "ended"}]
  /\ current \in Slots \cup {0}

\* What is live is the current channel, with no retry beside it; a closed client has
\* neither, and a client is closed when nobody is signed in.
OneDial ==
  /\ \A c \in Live : c = current /\ ~closed /\ timer = 0
  /\ closed => timer = 0
  /\ ~signed => closed

LinkInv == LinkTypes /\ (~crossed => OneDial)
=============================================================================
