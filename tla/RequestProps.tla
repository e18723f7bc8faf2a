---------------------------- MODULE RequestProps ----------------------------
(***************************************************************************)
(* What the request context guarantees, and the audited change it          *)
(* implements.                                                             *)
(***************************************************************************)
EXTENDS Requests

Effect == Call \X (Nat \ {0})

Label == {"waiting", "opening", "run", "flush", "logging", "commit", "ok", "error", "dead"}

TypeOK ==
  /\ path \in [Call -> Path]
  /\ pc \in [Call -> Label]
  /\ at \in [Call -> Nat \ {0}]
  /\ holder \in [Doc -> [Service -> Call \cup {None}]]
  /\ trx \in [Call -> {"none", "open", "aborted", "committed", "rolledBack"}]
  /\ pending \in [Call -> SUBSET Effect]
  /\ buffer \in [Call -> SUBSET Effect]
  /\ batch \in [Call -> SUBSET Effect]
  /\ core \subseteq Effect
  /\ log \subseteq Effect

\* A change in the core database has all its events in the log database, and
\* is whole: the flush comes before the commit, and a call that throws, loses
\* its connection or dies with the process leaves none of its writes.
ChangesAreAudited ==
  \A c \in Call : Writes(c) \cap core # {} =>
    Writes(c) \subseteq core /\ Events(c) \subseteq log

\* A call that is answered without an error has done all it is there for: its
\* writes are committed and its events stored.  A later call of a service that
\* holds the context of an earlier one, or one that looks up a user through
\* it, runs on a transaction that is over; it is refused before it can pretend.
OkMeansDone ==
  \A c \in Call : pc[c] = "ok" => Writes(c) \subseteq core /\ Events(c) \subseteq log

\* Of two calls of a document that both changed the core database, the later is
\* of a service that the service of the earlier neither is nor reaches: a
\* service keeps the context it was given, by a call of its own or of one it is
\* injected into.  {createDocument, createDocumentTemplate} keeps the document
\* and refuses the template; {createDocumentTemplate, createDocument} keeps both,
\* and so do {createDocument, uploadFile} and {uploadFile, createDocument}.
OneChangePerContext ==
  \A c, d \in Call :
    /\ c # d /\ DocOf[c] = DocOf[d]
    /\ Writes(c) \cap core # {}
    /\ Writes(d) \cap core # {}
    => \/ c \in Before[d] /\ ServiceOf(d) \notin Reach[ServiceOf(c)]
       \/ d \in Before[c] /\ ServiceOf(c) \notin Reach[ServiceOf(d)]

\* A connection is held by a running call only: whichever way a call ends, the
\* transaction it opened ends with it.
NoLeakedConnection ==
  \A c \in Call : Live(c) => pc[c] \in {"run", "flush", "logging", "commit"}

\* Every call is answered, though calls wait for connections that others hold.
CallsAnswered ==
  \A c \in Call : pc[c] = "opening" ~> pc[c] \in {"ok", "error", "dead"}

\* The two databases, step by step: a step stores the events of one call or
\* commits the changes of one call whose events are stored.
Audited == INSTANCE Ledger
             WITH Unit <- Call, changes <- core, trail <- log,
                  work <- [c \in Call |-> [writes |-> Writes(c), events |-> Events(c)]]

ImplementsLedger == Audited!Spec
=============================================================================
