--------------------------- MODULE ConversationList ---------------------------
(***************************************************************************)
(* The list of conversations an app shows, seen through one conversation:  *)
(* what the server would answer (is the user a member, the last message,   *)
(* how many are unread), what tells the app to ask again, and the answers  *)
(* of requests under way at once. The order of messages and who sent them  *)
(* is left to ReadPointer, the bodies of events to Delivery.               *)
(***************************************************************************)
EXTENDS RealtimeClient, FiniteSets

CONSTANTS
  MaxChanges, \* bound on the changes of what the list would show
  MaxLoads    \* bound on the requests for the list under way at once

ASSUME ListAssumption == MaxChanges \in Nat /\ MaxLoads \in Nat

VARIABLES
  member, last, read,  \* the user's row, the number of the last message, the last one it read
  version,    \* history: one more than the changes so far
  announcing, \* the changes committed and not yet published, as conversation.updated
  events,     \* the changes published and on their way to the app
  asked,      \* the requests for the list the server has not answered yet
  answers,    \* its answers on their way: the list and the version it is of
  shown,      \* state.items
  due,        \* history: the version of which the app was told, or after which it asked by itself
  seen,       \* history: the highest version shown
  overlap     \* history: requests were under way at once, and what came of it may still be shown

server == <<member, last, read, version, announcing>>
page == <<asked, answers, shown, due, seen, overlap>>
vars == <<link, server, events, page>>

\* ListForUser, for this conversation.
Summary == IF member THEN [last |-> last, unread |-> last - read] ELSE [last |-> 0, unread |-> 0]
List == [at |-> version, summary |-> Summary]

\* Before the first answer; and the list of another account.
Nothing == [at |-> 0, summary |-> [last |-> 0, unread |-> 0]]

TypeOK ==
  /\ LinkTypeOK
  /\ member \in BOOLEAN /\ last \in 1 .. MaxChanges + 1 /\ read \in 0 .. last
  /\ version \in 1 .. MaxChanges + 1
  /\ announcing \subseteq (1 .. MaxChanges + 1) \X {"send", "read"}
  /\ events \subseteq 1 .. MaxChanges + 1
  /\ asked + Cardinality(answers) <= MaxLoads + 1
  /\ \A a \in answers \cup {shown} : a.at \in 0 .. version
  /\ due \in 0 .. version /\ seen \in 0 .. version /\ overlap \in BOOLEAN

\* A conversation with one message, unread.
Init ==
  /\ LinkInit
  /\ member = TRUE /\ last = 1 /\ read = 0 /\ version = 1
  /\ announcing = {} /\ events = {}
  /\ asked = 0 /\ answers = {} /\ shown = Nothing
  /\ due = 0 /\ seen = 0 /\ overlap = FALSE

-----------------------------------------------------------------------------
(* The server *)

Change == version <= MaxChanges /\ version' = version + 1

\* Somebody's message: the members of now are told.
Send ==
  /\ Change
  /\ last' = last + 1
  /\ announcing' = IF member THEN announcing \cup {<<version', "send">>} ELSE announcing
  /\ UNCHANGED <<member, read, link, events, page>>

\* The user reads on, here or on another device.
MarkRead ==
  /\ Change /\ member
  /\ read' \in (read + 1) .. last
  /\ announcing' = announcing \cup {<<version', "read">>}
  /\ UNCHANGED <<member, last, link, events, page>>

\* Group operations tell nobody. A new member has read nothing.
JoinOrLeave ==
  /\ Change
  /\ member' = ~member
  /\ read' = 0
  /\ UNCHANGED <<last, announcing, link, events, page>>

\* A message is for those who were members when it was stored, a mark for those who are now
\* and only as long as the reader is one.
Told(change) == change[2] = "send" \/ member

\* Publishing and the way to the app: every step may fail, and a client that is not there
\* is told nothing.
Announce(change) ==
  /\ change \in announcing
  /\ announcing' = announcing \ {change}
  /\ \/ Open /\ Told(change) /\ events' = events \cup {change[1]}
     \/ UNCHANGED events
  /\ UNCHANGED <<member, last, read, version, link, page>>

-----------------------------------------------------------------------------
(* The app's list *)

Busy == asked > 0 \/ answers # {}

\* load: what it answers is at least as new as told.
Ask(told) ==
  /\ asked + Cardinality(answers) < MaxLoads
  /\ asked' = asked + 1
  /\ due' = IF told > due THEN told ELSE due
  /\ overlap' = (Busy \/ (overlap /\ shown.at # seen))
  /\ UNCHANGED <<answers, shown, seen>>

\* Pulled down, or after creating a conversation or changing a group's members.
Refresh == signed /\ Ask(version) /\ UNCHANGED <<link, server, events>>

\* Mutant of Receive: one request at a time is enough.
ReceiveUnlessBusy(change) ==
  /\ Open /\ change \in events
  /\ events' = events \ {change}
  /\ IF Busy
     THEN due' = (IF change > due THEN change ELSE due) /\ UNCHANGED <<asked, answers, shown, seen, overlap>>
     ELSE Ask(change)
  /\ UNCHANGED <<link, server>>

Receive(change) ==
  /\ Open /\ change \in events
  /\ events' = events \ {change}
  /\ Ask(change)
  /\ UNCHANGED <<link, server>>

\* The query, one statement.
Answer ==
  /\ asked > 0 /\ token = "fresh"
  /\ asked' = asked - 1
  /\ answers' = answers \cup {List}
  /\ UNCHANGED <<link, server, events, shown, due, seen, overlap>>

\* Whichever answer comes is shown.
Show(a) ==
  /\ a \in answers
  /\ answers' = answers \ {a}
  /\ shown' = a
  /\ seen' = IF a.at > seen THEN a.at ELSE seen
  /\ UNCHANGED <<link, server, events, asked, due, overlap>>

\* The user is told of a request that failed; the list stays.
LoadFails ==
  /\ asked > 0
  /\ asked' = asked - 1
  /\ due' = seen
  /\ UNCHANGED <<link, server, events, answers, shown, seen, overlap>>

-----------------------------------------------------------------------------
(* The app as a whole *)

\* The page of conversations loads when it is made. Another account finds the list of the
\* last one, and what is still under way answers that one's requests.
Enter ==
  /\ SignIn
  /\ \/ Ask(version)
     \/ /\ asked' = 1
        /\ answers' = (IF Busy THEN {Nothing} ELSE {}) /\ shown' = Nothing
        /\ due' = version /\ seen' = 0 /\ overlap' = Busy
  /\ events' = {}
  /\ UNCHANGED server

\* What is on its way to a channel that ends is lost.
Link ==
  /\ LinkStep
  /\ events' = IF Open' THEN events ELSE {}
  /\ UNCHANGED <<server, page>>

Next ==
  \/ Send \/ MarkRead \/ JoinOrLeave
  \/ \E change \in announcing : Announce(change)
  \/ Refresh \/ Answer \/ LoadFails
  \/ \E change \in events : Receive(change)
  \/ \E a \in answers : Show(a)
  \/ Enter \/ Link

Spec == Init /\ [][Next]_vars

\* The timer fires, a dial ends, and what waited for it goes on.
FairSpec ==
  /\ Spec
  /\ WF_vars(RetryFires /\ Link) /\ WF_vars((\E d \in closing : Disconnected(d)) /\ Link)
  /\ \A c \in Slots : WF_vars((Opens(c) \/ DialFails(c) \/ AbortedFails(c)) /\ Link)

-----------------------------------------------------------------------------
(* Properties *)

\* Once nothing is under way the app has shown a list as new as the last change it was told
\* of, or failed to and said so; what it goes on showing is that list, and its account's,
\* unless requests were under way at once: then an older answer may have come last.
ListTrue ==
  signed /\ ~Busy => seen >= due /\ (overlap \/ shown.at = seen)

\* A signed in client of a native build whose token the server takes reaches the server in
\* the end, unless it is being signed out.
Redials ==
  native /\ signed /\ ~closed /\ token = "fresh" ~> Open \/ closed \/ token # "fresh"

-----------------------------------------------------------------------------
(* The inductive invariant behind ListTrue *)

ListTypes ==
  /\ version \in Nat \ {0} /\ asked \in Nat
  /\ shown.at \in Nat /\ \A a \in answers : a.at \in 0 .. version
  /\ due \in Nat /\ seen \in Nat /\ due <= version /\ seen <= version
  /\ announcing \subseteq (1 .. version) \X {"send", "read"} /\ events \subseteq 1 .. version
  /\ overlap \in BOOLEAN

\* What the app was told of is shown, or on its way.
OnItsWay == asked > 0 \/ (\E a \in answers : a.at >= due) \/ seen >= due

\* A request that is alone brings what is at least as new as anything shown.
Alone ==
  ~overlap =>
    /\ shown.at = seen
    /\ \/ asked <= 1 /\ answers = {}
       \/ asked = 0 /\ \E a \in answers : answers = {a} /\ a.at >= seen

ListInv == ListTypes /\ OnItsWay /\ Alone
=============================================================================
