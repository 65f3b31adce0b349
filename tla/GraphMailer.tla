---------------------------- MODULE GraphMailer ----------------------------
(***************************************************************************)
(* The Graph mailer (mail/graph.ts): one cached app token, used and        *)
(* replaced by concurrent sends, each of which may wait for the token      *)
(* endpoint and for Graph.  A request and what is decided about it is one  *)
(* step, its answer a later one; the secret may be rotated or the consent  *)
(* revoked in between, which ends every token there is.  Without a Next of *)
(* its own: Service composes it with the life of the process.              *)
(***************************************************************************)
EXTENDS Integers

CONSTANTS
  Task,            \* who may be in accessToken or send at once
  MaxMailFaults    \* bound: requests that fail, and revocations

VARIABLES
  token,           \* this.token
  task,            \* where a task is, and with which token
  mailFaults

Token == {"good", "dead"}
Idle == [pc |-> "idle", token |-> "none"]

MailTypeOK ==
  /\ token \in Token \cup {"none"}
  /\ task \in [Task -> [pc : {"idle", "issued", "posting", "refused"}, token : Token \cup {"none"}]]
  /\ mailFaults \in 0..MaxMailFaults

Empty ==
  /\ token = "none"
  /\ task = [t \in Task |-> Idle]

MailInit == Empty /\ mailFaults = 0

Is(t, pc) == task[t].pc = pc
Becomes(t, pc, k) == task' = [task EXCEPT ![t] = [pc |-> pc, token |-> k]]
Mishap == mailFaults < MaxMailFaults /\ mailFaults' = mailFaults + 1

\* accessToken: the cached one.
UseCached(t) ==
  /\ Is(t, "idle") /\ token # "none"
  /\ Becomes(t, "posting", token)
  /\ UNCHANGED <<token, mailFaults>>

\* accessToken: nothing cached, or nothing that lasts another minute; the token
\* endpoint issues one.
Ask(t) ==
  /\ Is(t, "idle")
  /\ Becomes(t, "issued", "good")
  /\ UNCHANGED <<token, mailFaults>>

\* Unreachable, or an answer without a token.
AskFails(t) == Is(t, "idle") /\ Mishap /\ UNCHANGED <<token, task>>

\* Its answer is here: cached, whatever was cached meanwhile.
Cached(t) == token' = task[t].token /\ UNCHANGED mailFaults
Cache(t) == Is(t, "issued") /\ Cached(t) /\ Becomes(t, "posting", task[t].token)

\* Graph takes the message, or refuses the token.
Post(t) ==
  /\ Is(t, "posting")
  /\ \/ task[t].token = "good" /\ Becomes(t, "idle", "none")
     \/ task[t].token = "dead" /\ Becomes(t, "refused", "dead")
  /\ UNCHANGED <<token, mailFaults>>

PostFails(t) ==
  /\ Is(t, "posting") /\ Mishap
  /\ Becomes(t, "idle", "none")
  /\ UNCHANGED token

\* Mutant: only the send fails.
StillCached == token
Dropped == "none"

\* 401 or 403: the cached token goes, whichever it is by now.
Drop(t) ==
  /\ Is(t, "refused")
  /\ token' = Dropped
  /\ Becomes(t, "idle", "none")
  /\ UNCHANGED mailFaults

Revoke ==
  /\ Mishap
  /\ token' = IF token = "good" THEN "dead" ELSE token
  /\ task' = [t \in Task |-> IF task[t].token = "good" THEN [task[t] EXCEPT !.token = "dead"] ELSE task[t]]

\* close, or the process is gone.
Closed == token' = "none" /\ task' = [t \in Task |-> Idle] /\ UNCHANGED mailFaults
=============================================================================
