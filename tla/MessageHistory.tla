--------------------------- MODULE MessageHistory ---------------------------
(***************************************************************************)
(* Reading a conversation's messages: pages from the newest backwards      *)
(* (?cursor=) and, after a reconnect, from a sync cursor forwards          *)
(* (?after=).  Each request is two statements, the member count and the    *)
(* page; between any two of them messages appear (MessageLog, to which     *)
(* MessageStore is refined), perhaps older than what was read, and members *)
(* leave and return.  A client follows the protocol of backend/README.md.  *)
(***************************************************************************)
EXTENDS MessageLog, FiniteSets

CONSTANTS
  Clients,  \* API clients
  UserOf,   \* the user each is signed in as
  Limit     \* the page size they ask for

ASSUME HistoryAssumption ==
  /\ UserOf \in [Clients -> Users]
  /\ Limit \in 1 .. 100
  /\ None \notin Message

VARIABLES
  roster,  \* the members of the conversation
  pc,      \* the next statement of each client's request
  kind,    \* what it requests: the first page, an older one, or newer messages
  older,   \* next_cursor of the walk backwards; None: no more pages
  sync,    \* sync_cursor of the latest response
  more,    \* has_more of the latest response to ?after=
  walked,  \* the messages of the walk backwards
  count,   \* how many messages its pages have brought
  got,     \* every message the client has received since the first page
  opened,  \* history: the log when the first page was read
  from,    \* history: the cursor at which the current synchronization began
  seen     \* history: the log when its first page was read

request == <<pc, kind>>
known == <<older, sync, more, walked, count, got>>
history == <<opened, from, seen>>
vars == <<now, log, roster, request, known, history>>

Kind == {"open", "older", "sync"}
Cursor == Message \cup {None}

TypeOK ==
  /\ now \in Time /\ log \subseteq Message
  /\ roster \subseteq Users
  /\ pc \in [Clients -> {"idle", "member", "page"}]
  /\ kind \in [Clients -> Kind]
  /\ older \in [Clients -> Cursor] /\ sync \in [Clients -> Cursor]
  /\ more \in [Clients -> BOOLEAN]
  /\ walked \in [Clients -> SUBSET Message] /\ got \in [Clients -> SUBSET Message]
  /\ count \in [Clients -> Nat]
  /\ opened \in [Clients -> SUBSET Message]
  /\ from \in [Clients -> Cursor]
  /\ seen \in [Clients -> SUBSET Message]

Init ==
  /\ LogInit
  /\ roster = Users
  /\ pc = [c \in Clients |-> "idle"]
  /\ kind = [c \in Clients |-> "open"]
  /\ older = [c \in Clients |-> None] /\ sync = [c \in Clients |-> None]
  /\ more = [c \in Clients |-> FALSE]
  /\ walked = [c \in Clients |-> {}] /\ got = [c \in Clients |-> {}]
  /\ count = [c \in Clients |-> 0]
  /\ opened = [c \in Clients |-> {}]
  /\ from = [c \in Clients |-> None]
  /\ seen = [c \in Clients |-> {}]

-----------------------------------------------------------------------------
(* Pages: LIMIT limit + 1 cut to limit, has_more when something was cut *)

PageSize(P, S) == Cardinality(P) <= Limit /\ (P # S => Cardinality(P) = Limit)

\* ORDER BY created_at DESC, id DESC
Newest(P, S) == P \subseteq S /\ PageSize(P, S) /\ \A m \in P, n \in S \ P : Precedes(n, m)

\* ORDER BY created_at ASC, id ASC
Oldest(P, S) == P \subseteq S /\ PageSize(P, S) /\ \A m \in P, n \in S \ P : Precedes(m, n)

IsFirst(m, P) == m \in P /\ \A n \in P : ~Precedes(n, m)
IsLast(m, P) == m \in P /\ \A n \in P : ~Precedes(m, n)

\* Mutant of Before: what has the cursor's time comes again.
BeforeOrAt(m, c) == m.at <= c.at

Before(m, c) == Precedes(m, c)

\* Mutant of After: the time alone.
AfterByTime(m, c) == c.at < m.at

After(m, c) == Precedes(c, m)

-----------------------------------------------------------------------------
(* One request *)

Request(c) ==
  /\ pc[c] = "idle"
  /\ \E k \in Kind :
       /\ k = "older" => older[c] # None
       /\ k = "sync" => sync[c] # None
       /\ kind' = [kind EXCEPT ![c] = k]
  /\ pc' = [pc EXCEPT ![c] = "member"]
  /\ UNCHANGED <<now, log, roster, known, history>>

\* A client that is not a member gets an error, and keeps what it has.
CheckMember(c) ==
  /\ pc[c] = "member"
  /\ pc' = [pc EXCEPT ![c] = IF UserOf[c] \in roster THEN "page" ELSE "idle"]
  /\ UNCHANGED <<now, log, roster, kind, known, history>>

Answered(c) ==
  /\ pc[c] = "page"
  /\ pc' = [pc EXCEPT ![c] = "idle"]
  /\ UNCHANGED <<now, log, roster, kind>>

\* Mutant of NextCursor: taken before the page is cut to limit, from the message cut off.
CursorUncut(P, S, c) == IF P = S THEN c = None ELSE IsLast(c, S \ P)

\* next_cursor: the last message of the page as sent, here the oldest
NextCursor(P, S, c) == IF P = S THEN c = None ELSE IsFirst(c, P)

\* List without a cursor: the view starts anew.
FirstPage(c) ==
  /\ kind[c] = "open" /\ Answered(c)
  /\ \E P \in SUBSET log :
       /\ Newest(P, log)
       /\ \E m \in log \cup {None} : NextCursor(P, log, m) /\ older' = [older EXCEPT ![c] = m]
       /\ \E m \in P \cup {None} :
            /\ IF P = {} THEN m = None ELSE IsLast(m, P)
            /\ sync' = [sync EXCEPT ![c] = m]
            /\ from' = [from EXCEPT ![c] = m]
       /\ walked' = [walked EXCEPT ![c] = P]
       /\ count' = [count EXCEPT ![c] = Cardinality(P)]
       /\ got' = [got EXCEPT ![c] = P]
  /\ more' = [more EXCEPT ![c] = FALSE]
  /\ opened' = [opened EXCEPT ![c] = log]
  /\ seen' = [seen EXCEPT ![c] = log]

\* List with ?cursor=older.  (It has a sync_cursor of its own, which no client uses.)
OlderPage(c) ==
  /\ kind[c] = "older" /\ Answered(c)
  /\ LET S == {m \in log : Before(m, older[c])}
     IN \E P \in SUBSET S :
          /\ Newest(P, S)
          /\ \E m \in S \cup {None} : NextCursor(P, S, m) /\ older' = [older EXCEPT ![c] = m]
          /\ walked' = [walked EXCEPT ![c] = @ \cup P]
          /\ count' = [count EXCEPT ![c] = @ + Cardinality(P)]
          /\ got' = [got EXCEPT ![c] = @ \cup P]
  /\ UNCHANGED <<sync, more, history>>

\* SyncAfter with ?after=sync; while has_more the client goes on from the new cursor.
SyncPage(c) ==
  /\ kind[c] = "sync" /\ Answered(c)
  /\ LET S == {m \in log : After(m, sync[c])}
     IN \E P \in SUBSET S :
          /\ Oldest(P, S)
          /\ \E m \in P \cup {sync[c]} :
               /\ P # {} => IsLast(m, P)
               /\ sync' = [sync EXCEPT ![c] = m]
          /\ more' = [more EXCEPT ![c] = P # S]
          /\ got' = [got EXCEPT ![c] = @ \cup P]
  /\ IF more[c] THEN UNCHANGED <<from, seen>>
       ELSE from' = [from EXCEPT ![c] = sync[c]] /\ seen' = [seen EXCEPT ![c] = log]
  /\ UNCHANGED <<older, walked, count, opened>>

-----------------------------------------------------------------------------
(* Around it: messages appear (MessageStore), members come and go (GroupMembership) *)

Write == LogNext /\ UNCHANGED <<roster, request, known, history>>

Join(u) ==
  /\ u \notin roster
  /\ roster' = roster \cup {u}
  /\ UNCHANGED <<now, log, request, known, history>>

Leave(u) ==
  /\ u \in roster
  /\ roster' = roster \ {u}
  /\ UNCHANGED <<now, log, request, known, history>>

Next ==
  \/ \E c \in Clients :
       Request(c) \/ CheckMember(c) \/ FirstPage(c) \/ OlderPage(c) \/ SyncPage(c)
  \/ Write
  \/ \E u \in Users : Join(u) \/ Leave(u)

Spec == Init /\ [][Next]_vars

-----------------------------------------------------------------------------
(* Properties *)

\* Walking back, whatever appears meanwhile, a client has every message that was there
\* at its first page down to its cursor; with no cursor left it has them all
\* (README.md:103, keyset cursors skip no page when new messages arrive).
NothingSkipped ==
  \A c \in Clients : \A m \in opened[c] :
    (older[c] = None \/ ~Precedes(m, older[c])) => m \in walked[c]

\* Pages backwards never bring a message twice, however the log grows between them.
NothingRepeated == \A c \in Clients : count[c] = Cardinality(walked[c])

\* A synchronization has brought every message that was there when it began, from
\* the cursor it began at up to the cursor it has reached; when it ends, all of them.
SyncedUpTo ==
  \A c \in Clients : sync[c] # None => \A m \in seen[c] :
    Precedes(from[c], m) /\ (~more[c] \/ ~Precedes(sync[c], m)) => m \in got[c]

\* What the README promises of synchronization: a client that has walked back to the
\* beginning and whose synchronization has ended has missed nothing.
NothingMissed ==
  \A c \in Clients : sync[c] # None /\ older[c] = None /\ ~more[c] => seen[c] \subseteq got[c]
-----------------------------------------------------------------------------
(* What a request relies on when its page is read (MessageHistoryProofs) *)

\* The log only grows, one message per id, and clients have nothing but of it.
Grounded ==
  /\ IsFiniteSet(log)
  /\ \A m, n \in log : m.id = n.id => m = n
  /\ \A c \in Clients :
       /\ walked[c] \subseteq log /\ got[c] \subseteq log
       /\ opened[c] \subseteq log /\ seen[c] \subseteq log
       /\ older[c] \in log \cup {None} /\ sync[c] \in log \cup {None}
       /\ pc[c] # "idle" /\ kind[c] = "older" => older[c] # None
       /\ pc[c] # "idle" /\ kind[c] = "sync" => sync[c] # None

\* The walk has brought nothing beyond its cursor.
WalkedToCursor ==
  \A c \in Clients : older[c] # None => \A m \in walked[c] : ~Precedes(m, older[c])

IInv ==
  TypeOK /\ Grounded /\ WalkedToCursor /\ NothingSkipped /\ NothingRepeated /\ SyncedUpTo
=============================================================================
