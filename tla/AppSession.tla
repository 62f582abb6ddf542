----------------------------- MODULE AppSession -----------------------------
(***************************************************************************)
(* The session of one installed app: AuthCubit, TokenStore and the error   *)
(* interceptor of ApiClient, over the server's RefreshTokens.  The         *)
(* interceptor takes one error at a time: an answer 401 makes it refresh   *)
(* the session and send the request again, all while it holds the queue.   *)
(* Signing out and in does not wait for it.                                *)
(***************************************************************************)
EXTENDS RefreshTokens, Sequences

CONSTANTS
  Requests,   \* the requests of the app that need a session
  MaxFaults   \* bound on lost and missing answers, failed writes and kills

ASSUME AppAssumption ==
  /\ MaxFaults \in Nat
  /\ Requests \cap {None, "login", "logout"} = {}

VARIABLES
  held,     \* TokenStore: the tokens in memory
  disk,     \* and in the device's storage
  writes,   \* storage writes under way, and whose; the platform does them in order
  failed,   \* whose save or clear has had a write that failed
  stale,    \* expired access tokens
  ui,       \* what AuthCubit shows
  phase,    \* how far each request is
  used,     \* the access token it carries
  queue,    \* errors that wait for the interceptor
  busy,     \* the request whose error it holds
  stage,    \* and what it is doing
  signing,  \* the login or logout under way, and its step
  waits,    \* the calls the interceptor and the user's login or logout wait for
  mishaps,  \* history: what made the app and the server disagree
  faults    \* failures so far

store == <<held, disk, writes, failed>>
interceptor == <<queue, busy, stage>>
api == <<phase, used>>
app == <<store, stale, ui, api, interceptor, signing, waits>>
vars == <<server, app, mishaps, faults>>

\* The access token, the refresh token and the user of a session are stored apart; each is
\* named by the row made with it.
Keys == {"access", "refresh", "user"}
Tokens == [Keys -> Token \cup {None}]
NoTokens == [k \in Keys |-> None]
Session(t) == [k \in Keys |-> t]

\* The interceptor, and the user's login or logout.
Caller == {"interceptor", "user"}
Mishap == {"killed", "unstored", "resurrected", "expelled", "overlaid"}

\* A write or deletion under way: of which key, what, and for whom.
StorageWrite == Keys \X (Token \cup {None}) \X Caller

TypeOK ==
  /\ ServerTypeOK
  /\ held \in Tokens /\ disk \in Tokens
  /\ writes \in Seq(StorageWrite)
  /\ failed \subseteq Caller
  /\ stale \subseteq Token
  /\ ui \in {"out", "loading", "in"}
  /\ phase \in [Requests -> {"idle", "sent", "unauthorized", "failed", "done"}]
  /\ used \in [Requests -> Token \cup {None}]
  /\ queue \in Seq(Requests \cup {"login", "logout"})
  /\ busy \in Requests \cup {None}
  /\ stage \in {"idle", "refreshing", "saving", "retrying", "clearing", "stuck"}
  /\ (busy = None) <=> (stage = "idle")
  /\ signing \in {"none", "login", "saving", "logout", "disconnect", "clearing"}
  /\ waits \in [Caller -> Call \cup {None}]
  /\ mishaps \subseteq Mishap
  /\ faults \in 0 .. MaxFaults

Init ==
  /\ ServerInit
  /\ held = NoTokens /\ disk = NoTokens /\ writes = <<>> /\ failed = {}
  /\ stale = {} /\ ui = "out"
  /\ phase = [r \in Requests |-> "idle"] /\ used = [r \in Requests |-> None]
  /\ queue = <<>> /\ busy = None /\ stage = "idle"
  /\ signing = "none" /\ waits = [w \in Caller |-> None]
  /\ mishaps = {} /\ faults = 0

-----------------------------------------------------------------------------
(* TokenStore *)

\* save and clear set the memory first and then start the writes.
Keep(who, tokens) ==
  /\ held' = tokens
  /\ writes' = writes \o << <<"access", tokens.access, who>>, <<"refresh", tokens.refresh, who>>,
                           <<"user", tokens.user, who>> >>
  /\ UNCHANGED disk

Write ==
  /\ writes # <<>>
  /\ disk' = [disk EXCEPT ![Head(writes)[1]] = Head(writes)[2]]
  /\ writes' = Tail(writes)
  /\ UNCHANGED <<server, held, failed, stale, ui, api, interceptor, signing, waits, mishaps, faults>>

\* The storage refuses a write or a deletion; the others are still tried.
WriteFails ==
  /\ writes # <<>> /\ faults < MaxFaults /\ faults' = faults + 1
  /\ writes' = Tail(writes)
  /\ failed' = failed \cup {Head(writes)[3]}
  /\ UNCHANGED <<server, held, disk, stale, ui, api, interceptor, signing, waits, mishaps>>

\* Future.wait: all three writes have ended, well or with an error of one of them.
AllEnded(who) == \A i \in DOMAIN writes : writes[i][3] # who
Stored(who) == AllEnded(who) /\ who \notin failed
Unstored(who) == AllEnded(who) /\ who \in failed

\* The interceptor is doing nothing with the tokens.
Clean == stage \notin {"refreshing", "saving", "clearing"}

-----------------------------------------------------------------------------
(* Calls to the auth service *)

\* The caller begins to wait for a call of its own.
Ask(who, what, t) ==
  \E c \in Call :
    /\ \A d \in Call : d < c => pc[d] # "idle"
    /\ Arrive(c, what, t)
    /\ waits' = [waits EXCEPT ![who] = c]

\* It learns the outcome, or an error because the answer is lost.
Told(who, outcome) ==
  LET c == waits[who]
  IN /\ c # None
     /\ waits' = [waits EXCEPT ![who] = None]
     /\ \/ Ended(c) /\ outcome = pc[c] /\ UNCHANGED faults
        \/ outcome = "refused" /\ pc[c] # "refused" /\ faults < MaxFaults /\ faults' = faults + 1

-----------------------------------------------------------------------------
(* Requests and the interceptor *)

Send(r) ==
  /\ phase[r] = "idle" /\ ui = "in"
  /\ phase' = [phase EXCEPT ![r] = "sent"]
  /\ used' = [used EXCEPT ![r] = held.access]
  /\ UNCHANGED <<server, store, stale, ui, interceptor, signing, waits, mishaps, faults>>

Expire(t) ==
  /\ t \in Issued \ stale
  /\ stale' = stale \cup {t}
  /\ UNCHANGED <<server, store, ui, api, interceptor, signing, waits, mishaps, faults>>

\* A good answer; the one after a refresh also frees the interceptor.
Answer(r) ==
  /\ phase[r] = "sent" /\ used[r] \notin stale \cup {None}
  /\ phase' = [phase EXCEPT ![r] = "done"]
  /\ IF busy = r THEN busy' = None /\ stage' = "idle" ELSE UNCHANGED <<busy, stage>>
  /\ UNCHANGED <<server, store, stale, ui, used, queue, signing, waits, mishaps, faults>>

\* 401 without a token that works, another error at any time; errors queue up, also the
\* one of a request the interceptor is waiting for.
Fail(r) ==
  /\ phase[r] = "sent"
  /\ \/ used[r] \in stale \cup {None} /\ phase' = [phase EXCEPT ![r] = "unauthorized"]
     \/ phase' = [phase EXCEPT ![r] = "failed"]
  /\ queue' = Append(queue, r)
  /\ UNCHANGED <<server, store, stale, ui, used, busy, stage, signing, waits, mishaps, faults>>

Free == stage = "idle" /\ queue # <<>>

\* The conditions under which the interceptor does nothing.
PassesOn(e) == e \in Requests => phase[e] # "unauthorized" \/ held.refresh = None

Pass ==
  /\ Free /\ PassesOn(Head(queue))
  /\ queue' = Tail(queue)
  /\ IF Head(queue) \in Requests THEN phase' = [phase EXCEPT ![Head(queue)] = "done"] /\ UNCHANGED <<signing, ui>>
     ELSE IF Head(queue) = "logout" THEN signing' = "disconnect" /\ UNCHANGED <<phase, ui>>
     ELSE signing' = "none" /\ ui' = "out" /\ UNCHANGED phase
  /\ UNCHANGED <<server, store, stale, used, busy, stage, waits, mishaps, faults>>

Refresh ==
  /\ Free /\ ~PassesOn(Head(queue))
  /\ queue' = Tail(queue)
  /\ busy' = Head(queue) /\ stage' = "refreshing"
  /\ Ask("interceptor", "refresh", held.refresh)
  /\ UNCHANGED <<store, stale, ui, api, signing, mishaps, faults>>

\* The session the interceptor refreshes is no longer the one of the app.
Replaced == held.refresh # asked[waits["interceptor"]]

\* Mutant of Refreshed: the new tokens are not kept.
RefreshedUnkept ==
  /\ stage = "refreshing" /\ Told("interceptor", "ok")
  /\ used' = [used EXCEPT ![busy] = granted[waits["interceptor"]]]
  /\ stage' = "saving"
  /\ UNCHANGED <<server, store, stale, ui, phase, queue, busy, signing, mishaps>>

\* tokens.save, whatever has become of the session in the meantime.
Refreshed ==
  /\ stage = "refreshing" /\ Told("interceptor", "ok")
  /\ mishaps' = IF Replaced THEN mishaps \cup {"resurrected"} ELSE mishaps
  /\ Keep("interceptor", Session(granted[waits["interceptor"]]))
  /\ used' = [used EXCEPT ![busy] = granted[waits["interceptor"]]]
  /\ stage' = "saving"
  /\ UNCHANGED <<server, failed, stale, ui, phase, queue, busy, signing>>

\* The refresh goes through a client of its own, without timeouts: no answer, no end.
Silence ==
  /\ stage = "refreshing" /\ faults < MaxFaults /\ faults' = faults + 1
  /\ stage' = "stuck"
  /\ waits' = [waits EXCEPT !["interceptor"] = None]
  /\ UNCHANGED <<server, store, stale, ui, api, queue, busy, signing, mishaps>>

\* The request goes out again; the interceptor puts the token of the moment on it, if any.
Retry ==
  /\ stage = "saving" /\ Stored("interceptor")
  /\ stage' = "retrying"
  /\ phase' = [phase EXCEPT ![busy] = "sent"]
  /\ used' = [used EXCEPT ![busy] = IF held.access = None THEN @ ELSE held.access]
  /\ UNCHANGED <<server, store, stale, ui, queue, busy, signing, waits, mishaps, faults>>

\* The catch: the tokens are cleared, whosever they are by now.
Catch(ours) ==
  /\ Keep("interceptor", NoTokens)
  /\ stage' = "clearing"
  /\ mishaps' = IF held.refresh # None /\ (~ours \/ signing = "saving") THEN mishaps \cup {"expelled"}
                                                                       ELSE mishaps
  /\ UNCHANGED <<server, stale, ui, api, queue, busy, signing>>

RefreshFails == stage = "refreshing" /\ Told("interceptor", "refused") /\ Catch(~Replaced) /\ UNCHANGED failed

\* The new tokens could not be stored; used[busy] is the one among them.
SaveFails ==
  /\ stage = "saving" /\ Unstored("interceptor")
  /\ Catch(held.refresh = used[busy])
  /\ failed' = failed \ {"interceptor"}
  /\ UNCHANGED <<waits, faults>>

\* Mutant of Expel: the error is not passed on.
ExpelSilently ==
  /\ stage = "clearing" /\ Stored("interceptor")
  /\ ui' = "out"
  /\ mishaps' = IF held.refresh # None THEN mishaps \cup {"expelled"} ELSE mishaps
  /\ busy' = None /\ stage' = "idle"
  /\ UNCHANGED <<server, store, stale, api, queue, signing, waits, faults>>

\* onSessionExpired, and the error goes on.
Expel ==
  /\ stage = "clearing" /\ Stored("interceptor")
  /\ ui' = "out"
  /\ mishaps' = IF held.refresh # None THEN mishaps \cup {"expelled"} ELSE mishaps
  /\ phase' = [phase EXCEPT ![busy] = "done"]
  /\ busy' = None /\ stage' = "idle"
  /\ UNCHANGED <<server, store, stale, used, queue, signing, waits, faults>>

\* The catch throws: its handler is never called, and no other error ever handled.
ClearFails ==
  /\ stage = "clearing" /\ Unstored("interceptor")
  /\ stage' = "stuck"
  /\ failed' = failed \ {"interceptor"}
  /\ mishaps' = mishaps \cup {"unstored"}
  /\ UNCHANGED <<server, held, disk, writes, stale, ui, api, queue, busy, signing, waits, faults>>

-----------------------------------------------------------------------------
(* AuthCubit *)

\* Calls are left for the refreshes of the requests to come.
Spare == Cardinality({c \in Call : pc[c] = "idle"}) > Cardinality({r \in Requests : phase[r] # "done"})

Login ==
  /\ ui = "out" /\ signing = "none" /\ Spare
  /\ Ask("user", "login", None)
  /\ ui' = "loading" /\ signing' = "login"
  /\ UNCHANGED <<store, stale, api, interceptor, mishaps, faults>>

LoggedIn ==
  /\ signing = "login" /\ Told("user", "ok")
  /\ Keep("user", Session(granted[waits["user"]]))
  /\ mishaps' = (IF Clean THEN {} ELSE mishaps) \cup (IF Clean /\ mishaps = {} THEN {} ELSE {"overlaid"})
  /\ signing' = "saving"
  /\ UNCHANGED <<server, failed, stale, ui, api, interceptor>>

SignedIn ==
  /\ signing = "saving" /\ Stored("user")
  /\ ui' = "in" /\ signing' = "none"
  /\ UNCHANGED <<server, store, stale, api, interceptor, waits, mishaps, faults>>

\* The catch of _authenticate: signed out, with the new tokens in memory.
SignInFails ==
  /\ signing = "saving" /\ Unstored("user")
  /\ ui' = "out" /\ signing' = "none"
  /\ failed' = failed \ {"user"}
  /\ mishaps' = mishaps \cup {"unstored"}
  /\ UNCHANGED <<server, held, disk, writes, stale, api, interceptor, waits, faults>>

Logout ==
  /\ ui = "in" /\ signing = "none" /\ Spare
  /\ IF held.refresh = None
       THEN signing' = "disconnect" /\ UNCHANGED <<server, waits>>
       ELSE signing' = "logout" /\ Ask("user", "logout", held.refresh)
  /\ UNCHANGED <<store, stale, ui, api, interceptor, mishaps, faults>>

LoggedOut ==
  /\ signing = "logout" /\ Told("user", "ok")
  /\ signing' = "disconnect"
  /\ UNCHANGED <<server, store, stale, ui, api, interceptor, mishaps>>

\* The errors of both calls go through the interceptor's queue.
SigningFails ==
  /\ signing \in {"login", "logout"} /\ Told("user", "refused")
  /\ queue' = Append(queue, signing)
  /\ UNCHANGED <<server, store, stale, ui, api, busy, stage, signing, mishaps>>

\* Mutant of Clear: only the memory.
Forget ==
  /\ signing = "disconnect"
  /\ held' = NoTokens
  /\ signing' = "clearing"
  /\ UNCHANGED <<server, disk, writes, failed, stale, ui, api, interceptor, waits, mishaps, faults>>

\* After the socket is closed.
Clear ==
  /\ signing = "disconnect"
  /\ Keep("user", NoTokens)
  /\ mishaps' = IF Clean THEN mishaps \cap {"overlaid"} ELSE mishaps
  /\ signing' = "clearing"
  /\ UNCHANGED <<server, failed, stale, ui, api, interceptor, waits, faults>>

SignedOut ==
  /\ signing = "clearing" /\ Stored("user")
  /\ ui' = "out" /\ signing' = "none"
  /\ mishaps' = IF Clean /\ mishaps = {"overlaid"} THEN {} ELSE mishaps
  /\ UNCHANGED <<server, store, stale, api, interceptor, waits, faults>>

\* logout throws: what was shown is shown on, without tokens.
SignOutFails ==
  /\ signing = "clearing" /\ Unstored("user")
  /\ signing' = "none"
  /\ failed' = failed \ {"user"}
  /\ mishaps' = mishaps \cup {"unstored"}
  /\ UNCHANGED <<server, held, disk, writes, stale, ui, api, interceptor, waits, faults>>

\* Nothing is under way that the tokens depend on.
Settled == signing = "none" /\ stage \in {"idle", "retrying"} /\ writes = <<>>

\* The app is stopped and started: memory comes from the storage, requests are gone, the
\* server goes on with what it was asked.  At rest it may always happen, and nothing is lost.
Restart ==
  /\ IF Settled THEN UNCHANGED <<mishaps, faults>>
                ELSE faults < MaxFaults /\ faults' = faults + 1 /\ mishaps' = mishaps \cup {"killed"}
  /\ held' = disk /\ writes' = <<>> /\ failed' = {}
  /\ ui' = IF disk.access = None \/ disk.user = None THEN "out" ELSE "in"
  /\ phase' = [r \in Requests |-> IF phase[r] = "idle" THEN "idle" ELSE "done"]
  /\ queue' = <<>> /\ busy' = None /\ stage' = "idle" /\ signing' = "none"
  /\ waits' = [w \in DOMAIN waits |-> None]
  /\ UNCHANGED <<server, disk, stale, used>>

Serve ==
  /\ \E c \in Call : Statement(c)
  /\ UNCHANGED <<app, mishaps, faults>>

ServerFails ==
  /\ \E c \in Call : Refuse(c)
  /\ UNCHANGED <<app, mishaps, faults>>

AppStep ==
  \/ Write \/ Pass \/ Refresh \/ Refreshed \/ Retry \/ RefreshFails \/ SaveFails \/ Expel \/ ClearFails
  \/ LoggedIn \/ SignedIn \/ SignInFails \/ LoggedOut \/ SigningFails \/ Clear \/ SignedOut \/ SignOutFails

Network == \E r \in Requests : Answer(r) \/ Fail(r)

Next ==
  \/ AppStep \/ Network \/ Serve \/ ServerFails
  \/ \E r \in Requests : Send(r)
  \/ \E t \in Token : Expire(t)
  \/ Login \/ Logout \/ Restart \/ WriteFails \/ Silence

\* Statements and writes end and the app's callbacks run.  Requests, logins and logouts are
\* answered or time out (connectTimeout, receiveTimeout); a refresh is too, unless Silence
\* takes it, for it has no timeouts.
Fairness == WF_vars(AppStep \/ Network \/ Serve)

Spec == Init /\ [][Next]_vars /\ Fairness

-----------------------------------------------------------------------------
(* Properties *)

\* An app at rest that is signed in holds a refresh token the server takes, in memory and in
\* its storage, however refreshes, lost answers, expiry and signing out and in overlap, and
\* over any restart at rest: unless, since its tokens were last kept by a login or deleted by
\* a logout, it was killed amid something, its storage failed a login, a logout or a session's
\* end, or a refresh begun for an earlier session failed in this one.
HeldIsUsable ==
  Settled /\ ui = "in" /\ mishaps \cap {"killed", "unstored", "expelled"} = {} =>
    held = disk /\ held.refresh # None /\ row[held.refresh] = "active"

\* An app at rest that is signed out has forgotten its tokens, in memory and in its storage:
\* with the same exceptions, or when a refresh came back to an app that had signed out since.
SignedOutForgets ==
  Settled /\ ui = "out" /\ mishaps \cap {"killed", "unstored", "resurrected", "expelled"} = {} =>
    held = NoTokens /\ disk = NoTokens

OneRoot(tokens) ==
  \A j, k \in Keys : tokens[j] # None /\ tokens[k] # None => root[tokens[j]] = root[tokens[k]]

\* The three writes of a session are not one: killed between them an app may come back
\* signed in with a token that is used up, but never as one user with the tokens of another
\* login: unless a login was kept over what an earlier mishap had left, or a refresh of an
\* earlier session came back.
OneLogin == ui = "in" /\ mishaps \cap {"overlaid", "resurrected"} = {} => OneRoot(held)

\* The request sent again after a refresh has failed: its error waits for the
\* interceptor, which waits for it.
WaitsForItself == stage = "retrying" /\ \E i \in DOMAIN queue : queue[i] = busy

\* Every request ends, unless the interceptor waits for itself, for a refresh nobody will
\* answer, or has thrown in its catch.
RequestsEnd ==
  \A r \in Requests :
    phase[r] \in {"sent", "unauthorized", "failed"} ~> (phase[r] = "done" \/ WaitsForItself \/ stage = "stuck")

-----------------------------------------------------------------------------
(* The inductive invariant behind the first two, and behind those of RefreshTokens *)

\* All tokens the app has are the server's.
Genuine ==
  /\ held.refresh \in Issued \cup {None} /\ disk.refresh \in Issued \cup {None}
  /\ \A i \in DOMAIN writes : writes[i][1] = "refresh" => writes[i][2] \in Issued \cup {None}

\* When the writes are done, and none failed, the storage is what the memory is.
WillBe(k) ==
  \/ disk[k] = held[k] /\ \A i \in DOMAIN writes : writes[i][1] # k
  \/ \E i \in DOMAIN writes :
       writes[i][1] = k /\ writes[i][2] = held[k] /\ \A j \in DOMAIN writes : j > i => writes[j][1] # k

\* Who waits for which call, and for which request; and the error of a login or logout is
\* alone in the queue.
Waiting ==
  /\ waits["interceptor"] # None <=> stage = "refreshing"
  /\ waits["interceptor"] # None => kind[waits["interceptor"]] = "refresh"
  /\ waits["user"] # None => signing \in {"login", "logout"} /\ kind[waits["user"]] = signing
  /\ stage \in {"refreshing", "saving", "clearing", "stuck"} => phase[busy] = "unauthorized"
  /\ (\E i \in DOMAIN writes : writes[i][3] = "interceptor") \/ "interceptor" \in failed =>
       stage \in {"saving", "clearing"}
  /\ (\E i \in DOMAIN writes : writes[i][3] = "user") \/ "user" \in failed =>
       signing \in {"saving", "clearing"}
  /\ \A i \in DOMAIN queue : queue[i] \in {"login", "logout"} =>
       /\ queue[i] = signing /\ waits["user"] = None
       /\ \A j \in DOMAIN queue : queue[j] \in {"login", "logout"} => j = i

\* A token that is on its way to the app is good, and nobody has used it.
OnItsWay ==
  \A w \in DOMAIN waits : waits[w] # None /\ granted[waits[w]] # None =>
    /\ row[granted[waits[w]]] = "active" /\ granted[waits[w]] # held.refresh
    /\ \A c \in Call : asked[c] # granted[waits[w]]

\* Who may be about to revoke the token the app holds.
InUse == (stage = "refreshing" /\ ~Replaced) \/ stage = "stuck" \/ signing \in {"logout", "disconnect"}

\* The app holds a good token unless it is being used up.
Holds ==
  mishaps \cap {"killed", "unstored"} = {} =>
    /\ held = Session(held.refresh)
    /\ held.refresh # None /\ row[held.refresh] # "active" => InUse
    /\ \A c \in Call : Open(c) /\ asked[c] = held.refresh /\ asked[c] # None => InUse
    /\ signing = "login" => ui # "in"
    /\ "expelled" \notin mishaps =>
         /\ signing = "saving" => held.refresh # None
         /\ ui = "in" /\ signing = "none" => held.refresh # None \/ stage = "clearing"
         /\ "resurrected" \notin mishaps /\ (signing = "clearing" \/ (ui # "in" /\ signing # "saving")) =>
              held.refresh = None

StoreInv == Genuine /\ (failed = {} /\ "unstored" \notin mishaps => \A k \in Keys : WillBe(k))

AppInv == TypeOK /\ ServerInv /\ StoreInv /\ Waiting /\ OnItsWay /\ Holds
=============================================================================
