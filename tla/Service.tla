------------------------------- MODULE Service -------------------------------
(***************************************************************************)
(* The life of the server (server.ts): it migrates, finds its storage,     *)
(* tries its mailer, and listens; then it sends mail until it is stopped,  *)
(* replaced or dies.  Composes Migrations, whose processes it takes over,  *)
(* and GraphMailer, which lives and dies with the server.                  *)
(***************************************************************************)
EXTENDS Migrations

CONSTANTS
  Send,            \* mails under way at once
  MaxMailFaults    \* bound: requests to Graph that fail, and revocations

ASSUME ServiceAssumption == Server \notin Send /\ MaxMailFaults \in Nat

VARIABLES token, task, mailFaults

\* The server is a task while it verifies the mailer.
Mail == INSTANCE GraphMailer WITH Task <- Send \cup {Server}

mail == <<token, task, mailFaults>>
all == <<vars, mail>>

ServiceInit == Init /\ Mail!MailInit

\* mailer.verify: a mail outage does not stop the start.
Verify ==
  /\ At(Server, "verify")
  /\ Mail!Ask(Server)
  /\ UNCHANGED vars
Verified ==
  /\ Mail!Is(Server, "issued")
  /\ Mail!Cached(Server) /\ Mail!Becomes(Server, "idle", "none")
ListenNow == Listen(Server) /\ (Verified \/ Mail!AskFails(Server))

\* A mail, of any of the handlers that send one.
Begin(m) == At(Server, "listening") /\ (Mail!Ask(m) \/ Mail!UseCached(m)) /\ UNCHANGED vars
Proceed(m) == (Mail!Cache(m) \/ Mail!Post(m) \/ Mail!Drop(m)) /\ UNCHANGED vars
MailFails(m) == (Mail!AskFails(m) \/ Mail!PostFails(m)) /\ UNCHANGED vars
Revoke == Mail!Revoke /\ UNCHANGED vars

Quiet(p) == Start(p) \/ MakeCopy(p) \/ Prune(p) \/ Apply(p)
Advance(p) == (Quiet(p) /\ UNCHANGED mail) \/ (p = Server /\ (Verify \/ ListenNow))

\* What ends the server ends its mailer.
Die(p) == Fail(p) /\ IF p = Server THEN Mail!Closed ELSE UNCHANGED mail
Replace == Deploy /\ Mail!Closed

ServiceNext ==
  \/ \E p \in Process : Advance(p) \/ Die(p) \/ (CopyFails(p) /\ UNCHANGED mail)
  \/ Replace
  \/ Tick /\ UNCHANGED mail
  \/ \E m \in Send : Begin(m) \/ Proceed(m) \/ MailFails(m)
  \/ Revoke

ServiceSpec == ServiceInit /\ [][ServiceNext]_all

ServiceFairSpec ==
  /\ ServiceSpec
  /\ \A p \in Process : WF_all(Advance(p))
  /\ WF_all(Tick /\ UNCHANGED mail)
  /\ \A m \in Send : WF_all(Proceed(m))

\* While mails are sent a revoked token does not stay: a send that finds it refused
\* drops it, however late an answer with it may be cached ("do not keep serving the
\* dead token").
MailSent == \E m \in Send : Begin(m)
RevokedTokenGoes == []<><<MailSent>>_all => <>[](token # "dead")
=============================================================================
