--------------------------- MODULE RefreshTokens ---------------------------
(***************************************************************************)
(* The refresh tokens of one user, as the auth service keeps them: login   *)
(* makes one, refresh rotates it in a transaction, logout revokes it.      *)
(* Calls overlap; the row of a token is locked from the UPDATE that        *)
(* revokes it to the end of its transaction.                               *)
(***************************************************************************)
EXTENDS Naturals, FiniteSets

CONSTANTS
  MaxTokens,  \* bound on the tokens made (random: each is new)
  MaxCalls,   \* bound on the calls
  None        \* no token

ASSUME TokenAssumption ==
  /\ MaxTokens \in Nat /\ MaxCalls \in Nat
  /\ None \notin Nat

Token == 1 .. MaxTokens
Call == 1 .. MaxCalls

VARIABLES
  row,      \* each token's row: revoked_at
  root,     \* the token of the login it descends from
  kind,     \* what each call asks
  asked,    \* the token it carries
  pc,       \* its next statement
  granted   \* the token in its answer

rows == <<row, root>>
calls == <<kind, asked, pc, granted>>
server == <<rows, calls>>

ServerTypeOK ==
  /\ row \in [Token -> {"none", "active", "revoked"}]
  /\ root \in [Token -> Token \cup {None}]
  /\ \A t \in Token : root[t] = None <=> row[t] = "none"
  /\ kind \in [Call -> {"none", "login", "refresh", "logout"}]
  /\ asked \in [Call -> Token \cup {None}]
  /\ pc \in [Call -> {"idle", "find", "update", "commit", "revoke", "insert", "ok", "refused"}]
  /\ granted \in [Call -> Token \cup {None}]

ServerInit ==
  /\ row = [t \in Token |-> "none"] /\ root = [t \in Token |-> None]
  /\ kind = [c \in Call |-> "none"] /\ asked = [c \in Call |-> None]
  /\ pc = [c \in Call |-> "idle"] /\ granted = [c \in Call |-> None]

Issued == {t \in Token : row[t] # "none"}
Fresh == Cardinality(Issued) + 1

FirstStatement == [login |-> "insert", logout |-> "revoke", refresh |-> "find"]

\* A call arrives; Logout goes to its one statement, Refresh first looks the token up.
Arrive(c, what, t) ==
  /\ pc[c] = "idle"
  /\ kind' = [kind EXCEPT ![c] = what]
  /\ asked' = [asked EXCEPT ![c] = t]
  /\ pc' = [pc EXCEPT ![c] = FirstStatement[what]]
  /\ UNCHANGED <<rows, granted>>

GoTo(c, phase) == pc' = [pc EXCEPT ![c] = phase]

\* Some call has revoked the token and not committed.
Locked(t) == \E c \in Call : pc[c] = "commit" /\ asked[c] = t

Find(c) ==
  /\ pc[c] = "find"
  /\ GoTo(c, IF row[asked[c]] = "active" THEN "update" ELSE "refused")
  /\ UNCHANGED <<rows, kind, asked, granted>>

\* Mutant of Revoke: the token found a statement earlier is revoked whatever it is now.
RevokeFound(c) ==
  /\ pc[c] = "update" /\ ~Locked(asked[c])
  /\ GoTo(c, "commit")
  /\ UNCHANGED <<rows, kind, asked, granted>>

\* RotateRefreshToken's UPDATE: it waits for the row, which must still be active.
Revoke(c) ==
  /\ pc[c] = "update" /\ ~Locked(asked[c])
  /\ GoTo(c, IF row[asked[c]] = "active" THEN "commit" ELSE "refused")
  /\ UNCHANGED <<rows, kind, asked, granted>>

\* Its INSERT and COMMIT.  When the COMMIT's outcome is unknown the answer is a refusal.
Rotate(c) ==
  /\ pc[c] = "commit" /\ Fresh \in Token
  /\ row' = [row EXCEPT ![asked[c]] = "revoked", ![Fresh] = "active"]
  /\ root' = [root EXCEPT ![Fresh] = root[asked[c]]]
  /\ granted' = [granted EXCEPT ![c] = Fresh]
  /\ GoTo(c, "ok")
  /\ UNCHANGED <<kind, asked>>

\* Mutant of RevokeOnly: the commit of another transaction is not waited for.
RevokeUncommitted(c) ==
  /\ pc[c] = "revoke"
  /\ row' = IF row[asked[c]] = "active" THEN [row EXCEPT ![asked[c]] = "revoked"] ELSE row
  /\ GoTo(c, IF row[asked[c]] = "active" THEN "ok" ELSE "refused")
  /\ UNCHANGED <<root, kind, asked, granted>>

\* RevokeRefreshToken: one statement.
RevokeOnly(c) ==
  /\ pc[c] = "revoke" /\ ~Locked(asked[c])
  /\ row' = IF row[asked[c]] = "active" THEN [row EXCEPT ![asked[c]] = "revoked"] ELSE row
  /\ GoTo(c, IF row[asked[c]] = "active" THEN "ok" ELSE "refused")
  /\ UNCHANGED <<root, kind, asked, granted>>

\* Login and Register end by inserting a token.
Insert(c) ==
  /\ pc[c] = "insert" /\ Fresh \in Token
  /\ row' = [row EXCEPT ![Fresh] = "active"]
  /\ root' = [root EXCEPT ![Fresh] = Fresh]
  /\ granted' = [granted EXCEPT ![c] = Fresh]
  /\ GoTo(c, "ok")
  /\ UNCHANGED <<kind, asked>>

Ended(c) == pc[c] \in {"ok", "refused"}
Open(c) == pc[c] # "idle" /\ ~Ended(c)

\* A wrong password, a cancelled request or a failure of the database: no rows change.
Refuse(c) == Open(c) /\ GoTo(c, "refused") /\ UNCHANGED <<rows, kind, asked, granted>>

Statement(c) == Find(c) \/ Revoke(c) \/ Rotate(c) \/ RevokeOnly(c) \/ Insert(c)

-----------------------------------------------------------------------------
(* Properties *)

Descendants(t) == {d \in Token : root[d] = t}

\* However refreshes and logouts overlap, a login never has two tokens that work.
OneActive == \A t \in Token : Cardinality({d \in Descendants(t) : row[d] = "active"}) <= 1

\* A logout that was answered ends the login for good: no refresh that was under way
\* brings it back.
LogoutFinal ==
  \A c \in Call : kind[c] = "logout" /\ pc[c] = "ok" =>
    \A d \in Descendants(root[asked[c]]) : row[d] = "revoked"

-----------------------------------------------------------------------------
(* The inductive invariant behind them *)

InOrder == Issued = 1 .. Cardinality(Issued)

\* Tokens descend from tokens, and of those of one login one at most is active.
Lineage ==
  /\ \A t \in Issued : root[t] \in Issued
  /\ \A s, t \in Issued : row[s] = "active" /\ row[t] = "active" /\ root[s] = root[t] => s = t

\* What a call asks and has found, and that its answer has a token of its own.
CallInv(c) ==
  /\ pc[c] = "idle" => kind[c] = "none"
  /\ pc[c] \in {"find", "update", "commit"} => kind[c] = "refresh"
  /\ pc[c] = "revoke" => kind[c] = "logout"
  /\ pc[c] = "insert" => kind[c] = "login"
  /\ asked[c] \in Issued \cup {None}
  /\ kind[c] \in {"refresh", "logout"} => asked[c] # None
  /\ pc[c] = "commit" => row[asked[c]] = "active"
  /\ granted[c] # None => pc[c] = "ok" /\ granted[c] \in Issued
  /\ pc[c] = "ok" /\ kind[c] # "logout" => granted[c] # None
  /\ \A d \in Call \ {c} :
       /\ pc[c] = "commit" /\ pc[d] = "commit" => asked[c] # asked[d]
       /\ granted[c] # None => granted[c] # granted[d]

ServerInv == ServerTypeOK /\ InOrder /\ Lineage /\ (\A c \in Call : CallInv(c)) /\ LogoutFinal
=============================================================================
