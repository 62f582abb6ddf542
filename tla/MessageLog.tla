----------------------------- MODULE MessageLog -----------------------------
(***************************************************************************)
(* What the store of one conversation's messages promises to its readers:  *)
(* messages appear one at a time and whole, never change or go, and a      *)
(* sender's client_message_id and an uploaded image each stand for one     *)
(* message.  A message appears when its transaction commits, with the time *)
(* its server read at the insert: the log is not filled in order of time.  *)
(***************************************************************************)
EXTENDS LogTypes

VARIABLES
  now,   \* the clock of the API servers
  log    \* the messages a reader can see

logVars == <<now, log>>

\* The keys of the tables: messages(id), messages(sender_id, client_message_id)
\* and message_attachments(upload_id).
Fresh(m) ==
  /\ \A n \in log : m.id # n.id /\ <<m.sender, m.cid>> # <<n.sender, n.cid>>
  /\ m.upload # None => /\ \A n \in log : m.upload # n.upload
                        /\ Owner[m.upload] = m.sender

LogInit == now = 0 /\ log = {}

Tick == now' \in now + 1 .. MaxTime /\ UNCHANGED log

Appear(m) ==
  /\ m.at <= now
  /\ Fresh(m)
  /\ log' = log \cup {m}
  /\ UNCHANGED now

LogNext == Tick \/ \E m \in Message : Appear(m)

LogSpec == LogInit /\ [][LogNext]_logVars
=============================================================================
