------------------------- MODULE DirectConversation -------------------------
(***************************************************************************)
(* POST /conversations/direct: "the conversation of the two of us", created *)
(* by whoever asks first.  Each request is one transaction at READ         *)
(* COMMITTED, one action per SQL statement; the unique index on direct_key *)
(* is what keeps two concurrent requests of a pair from creating two.      *)
(***************************************************************************)
EXTENDS Names

CONSTANTS
  Convs,   \* the ids conversations may get
  Asks,    \* what callers may ask for
  Txs,     \* the requests; each is sent once, a retry is another request
  None     \* no value

Ask == [creator : Users, target : Ref]

ASSUME AsksAssumption == Asks \subseteq Ask

VARIABLES
  key,      \* committed rows of conversations: id -> direct_key, or None
  roster,   \* committed rows of conversation_members: id -> users, all "member"
  pc,       \* the next statement of each transaction
  asked,    \* its caller and the reference it names
  own,      \* the conversation it has inserted or found
  created,  \* whether it has inserted it
  joined,   \* its uncommitted member rows
  answer    \* the response that reached the caller, or None

vars == <<key, roster, pc, asked, own, created, joined, answer>>
committed == <<key, roster>>

Answer == [conv : Convs, created : BOOLEAN]     \* 201 when created, 200 when not
Phase == {"idle", "users", "insert", "select", "members", "commit", "done"}

\* The two texts sorted and joined: the order of the two does not show.
Key(a) == {Spelled(a.creator), a.target}
Pair(a) == {a.creator, IdOf(a.target)}

ASSUME NoneAssumption == None \notin Convs /\ \A a \in Asks : Key(a) # None

TypeOK ==
  /\ key \in [Convs -> (SUBSET Ref) \cup {None}]
  /\ roster \in [Convs -> SUBSET Users]
  /\ pc \in [Txs -> Phase]
  /\ asked \in [Txs -> Asks \cup {None}]
  /\ own \in [Txs -> Convs \cup {None}]
  /\ created \in [Txs -> BOOLEAN]
  /\ joined \in [Txs -> SUBSET Users]
  /\ answer \in [Txs -> Answer \cup {None}]

Init ==
  /\ key = [c \in Convs |-> None]
  /\ roster = [c \in Convs |-> {}]
  /\ pc = [t \in Txs |-> "idle"]
  /\ asked = [t \in Txs |-> None]
  /\ own = [t \in Txs |-> None]
  /\ created = [t \in Txs |-> FALSE]
  /\ joined = [t \in Txs |-> {}]
  /\ answer = [t \in Txs |-> None]

GoTo(t, phase) == pc' = [pc EXCEPT ![t] = phase]

\* Mutant of Rollback: the request returns its error and the transaction stays open.
ReturnOnly(t) ==
  /\ GoTo(t, "done")
  /\ UNCHANGED <<committed, asked, own, created, joined, answer>>

\* Nothing of the transaction stays: its row and its key are free again.
Rollback(t) ==
  /\ GoTo(t, "done")
  /\ own' = [own EXCEPT ![t] = None]
  /\ created' = [created EXCEPT ![t] = FALSE]
  /\ joined' = [joined EXCEPT ![t] = {}]
  /\ UNCHANGED <<committed, asked, answer>>

\* The service refuses the caller's own id, compared as text.
Submit(t) ==
  /\ pc[t] = "idle"
  /\ \E a \in Asks : /\ a.target # Spelled(a.creator)
                     /\ asked' = [asked EXCEPT ![t] = a]
  /\ GoTo(t, "users")
  /\ UNCHANGED <<committed, own, created, joined, answer>>

\* SELECT count( * ) FROM users WHERE id IN (creator, target) must be 2.
CountUsers(t) ==
  /\ pc[t] = "users"
  /\ IF AllRegistered(Key(asked[t]))
       THEN GoTo(t, "insert") /\ UNCHANGED <<committed, asked, own, created, joined, answer>>
       ELSE Rollback(t)

\* It has inserted a conversation and neither committed nor rolled back.
Open(t) == created[t] /\ key[own[t]] = None
Stored(k) == \E c \in Convs : key[c] = k

\* Mutant of InsertConversation: look first, insert when nothing is there, no unique index.
InsertUnlessSeen(t) ==
  /\ pc[t] = "insert"
  /\ IF Stored(Key(asked[t]))
       THEN GoTo(t, "select") /\ UNCHANGED <<own, created>>
       ELSE /\ \E c \in Convs :
                 /\ key[c] = None /\ \A t2 \in Txs : own[t2] # c
                 /\ own' = [own EXCEPT ![t] = c]
            /\ created' = [created EXCEPT ![t] = TRUE]
            /\ GoTo(t, "members")
  /\ UNCHANGED <<committed, asked, joined, answer>>

\* INSERT ... ON CONFLICT (direct_key) DO NOTHING: an open transaction that has
\* inserted the same key is waited for; once it commits there is nothing to do.
InsertConversation(t) ==
  /\ pc[t] = "insert"
  /\ LET k == Key(asked[t])
     IN \/ /\ Stored(k)
           /\ GoTo(t, "select")
           /\ UNCHANGED <<own, created>>
        \/ /\ ~Stored(k)
           /\ \A t2 \in Txs : Open(t2) => Key(asked[t2]) # k
           /\ \E c \in Convs :
                /\ key[c] = None /\ \A t2 \in Txs : own[t2] # c
                /\ own' = [own EXCEPT ![t] = c]
           /\ created' = [created EXCEPT ![t] = TRUE]
           /\ GoTo(t, "members")
  /\ UNCHANGED <<committed, asked, joined, answer>>

\* SELECT ... WHERE direct_key = the key: committed rows only.
SelectConversation(t) ==
  /\ pc[t] = "select"
  /\ IF Stored(Key(asked[t]))
       THEN /\ \E c \in Convs : /\ key[c] = Key(asked[t])
                                /\ own' = [own EXCEPT ![t] = c]
            /\ GoTo(t, "commit")
            /\ UNCHANGED <<committed, asked, created, joined, answer>>
       ELSE Rollback(t)

\* Mutant of InsertMembers: only the caller joins.
InsertCaller(t) ==
  /\ pc[t] = "members"
  /\ joined' = [joined EXCEPT ![t] = {asked[t].creator}]
  /\ GoTo(t, "commit")
  /\ UNCHANGED <<committed, asked, own, created, answer>>

InsertMembers(t) ==
  /\ pc[t] = "members"
  /\ joined' = [joined EXCEPT ![t] = Pair(asked[t])]
  /\ GoTo(t, "commit")
  /\ UNCHANGED <<committed, asked, own, created, answer>>

\* COMMIT; the response may still be lost on its way.
Commit(t) ==
  /\ pc[t] = "commit"
  /\ key' = IF created[t] THEN [key EXCEPT ![own[t]] = Key(asked[t])] ELSE key
  /\ roster' = IF created[t] THEN [roster EXCEPT ![own[t]] = joined[t]] ELSE roster
  /\ answer' \in {answer, [answer EXCEPT ![t] = [conv |-> own[t], created |-> created[t]]]}
  /\ GoTo(t, "done")
  /\ UNCHANGED <<asked, own, created, joined>>

\* A cancelled context, a failed statement or a crash.
Abort(t) == pc[t] \notin {"idle", "done"} /\ Rollback(t)

Statement(t) ==
  \/ CountUsers(t) \/ InsertConversation(t) \/ SelectConversation(t)
  \/ InsertMembers(t) \/ Commit(t)

Next == \E t \in Txs : Submit(t) \/ Statement(t) \/ Abort(t)

Fairness == \A t \in Txs : WF_vars(Statement(t))

Spec == Init /\ [][Next]_vars
FairSpec == Spec /\ Fairness

-----------------------------------------------------------------------------
(* Properties *)

\* Two users share at most one direct conversation, whoever asks and however the
\* requests overlap (README.md: creation with duplicate prevention).
OnePerPair ==
  \A c, d \in Convs : key[c] # None /\ key[d] # None /\ roster[c] = roster[d] => c = d

\* A caller is never sent to a half-made conversation: by the time of an answer both
\* of the pair, and nobody else, are members (the whole creation is one transaction); and
\* of all the answers that name it one says it was created (201), the others that it was
\* found (200), the retry of a lost answer too.
AnswerUsable ==
  \A t \in Txs : answer[t] # None =>
    /\ roster[answer[t].conv] = Pair(asked[t])
    /\ \A s \in Txs : answer[s] # None /\ answer[s].conv = answer[t].conv =>
         (answer[s].created /\ answer[t].created => s = t)

\* Every request ends: waiting for another transaction's key does not last.
Ends == \A t \in Txs : pc[t] # "idle" ~> pc[t] = "done"

-----------------------------------------------------------------------------
(* The inductive invariant behind OnePerPair and AnswerUsable *)

\* A conversation has the key of somebody's request for another user, the members that the
\* key names, and its key for itself.
Unique ==
  /\ \A c \in Convs : key[c] # None =>
       /\ roster[c] = Named(key[c])
       /\ \E a \in Asks : key[c] = Key(a)
  /\ \A c, d \in Convs : key[c] # None /\ key[c] = key[d] => c = d

\* A request whose conversation is inserted and not committed: the transaction that is Open.
Inserting(t) == pc[t] \in {"members", "commit"} /\ created[t]

\* What a transaction knows of its request, and what it has inserted or found.
TxInv(t) ==
  /\ pc[t] # "idle" => asked[t] \in Asks
  /\ pc[t] \in {"insert", "members"} => Pair(asked[t]) \subseteq Users
  /\ pc[t] \in {"idle", "users", "insert", "select"} => own[t] = None
  /\ pc[t] \in {"idle", "users", "insert", "select"} => ~created[t]
  /\ pc[t] = "members" => created[t]
  /\ created[t] \/ pc[t] = "commit" => own[t] # None
  /\ Inserting(t) => key[own[t]] = None /\ ~Stored(Key(asked[t]))
  /\ pc[t] = "commit" /\ created[t] => joined[t] = Pair(asked[t])
  /\ pc[t] \in {"commit", "done"} /\ own[t] # None /\ (pc[t] = "commit" => ~created[t]) =>
       key[own[t]] = Key(asked[t])
  /\ answer[t] # None =>
       pc[t] = "done" /\ own[t] # None /\ answer[t] = [conv |-> own[t], created |-> created[t]]

\* Two transactions have not inserted the same conversation, nor hold the same key.
Apart(s, t) ==
  /\ created[s] /\ created[t] => own[s] # own[t]
  /\ Inserting(s) /\ Inserting(t) => Key(asked[s]) # Key(asked[t])

IInv ==
  /\ TypeOK /\ Unique
  /\ \A t \in Txs : TxInv(t)
  /\ \A s, t \in Txs : s # t => Apart(s, t)
=============================================================================
