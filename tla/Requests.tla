------------------------------ MODULE Requests ------------------------------
(***************************************************************************)
(* The contexts of a request.  Every field of a GraphQL document, and      *)
(* every route of the file controller, is a call of a service method       *)
(* wrapped by @Context.  The services live as long as the request, and     *)
(* each has a context of its own.  A call of a service that has none opens *)
(* a transaction and leaves its context on the service and on those        *)
(* injected into it, as far as they have none either; a later call of one  *)
(* of these finds it there and runs on the same transaction, whatever has  *)
(* become of it, while a call of another service opens its own.  The call  *)
(* that opened a transaction ends it, after it has flushed the buffered    *)
(* events to the log database.                                             *)
(*                                                                         *)
(* The fields of a mutation are called one after the other, those of a     *)
(* query all at once.  A step is what happens between two awaits.          *)
(***************************************************************************)
EXTENDS Naturals, Sequences, FiniteSets

CONSTANTS
  Doc,       \* requests
  Service,   \* the services of a request
  Reach,     \* [Service -> SUBSET Service]: itself and what is injected into it
  Users,     \* the service that looks users up for the others
  Call,      \* calls of the services' methods
  DocOf,     \* [Call -> Doc]
  Before,    \* [Call -> SUBSET Call]: the calls that must be answered first
  Paths,     \* [Call -> SUBSET Path], see module Methods
  PoolSize,  \* connections to the core database
  None       \* no call

Kind == {"read", "write", "lookup", "emit", "other"}

Statements == {"read", "write", "lookup"}

\* The service a method is called on, and its steps.
Path == [on : Service, steps : Seq(Kind)]

Has(p, kinds) == \E k \in 1..Len(p.steps) : p.steps[k] \in kinds

ReadOnly(c) == \A p \in Paths[c] : ~Has(p, {"write", "emit"})

\* What is injected is injected all the way down.  The fields of a document are
\* ordered, or queries; a method with an event also has a statement, and one
\* with a lookup is of a service that reaches the users'.
ASSUME RequestsAssumption ==
  /\ Users \in Service
  /\ Reach \in [Service -> SUBSET Service]
  /\ \A s \in Service : s \in Reach[s] /\ \A t \in Reach[s] : Reach[t] \subseteq Reach[s]
  /\ DocOf \in [Call -> Doc]
  /\ Before \in [Call -> SUBSET Call]
  /\ \A c, d \in Call :
       /\ d \in Before[c] => DocOf[d] = DocOf[c]
       /\ c # d /\ DocOf[c] = DocOf[d]
            => c \in Before[d] \/ d \in Before[c] \/ (ReadOnly(c) /\ ReadOnly(d))
  /\ Paths \in [Call -> SUBSET Path]
  /\ \A c \in Call : \A p \in Paths[c] :
       /\ Has(p, {"emit"}) => Has(p, Statements)
       /\ Has(p, {"lookup"}) => Users \in Reach[p.on]
  /\ PoolSize \in Nat \ {0}
  /\ None \notin Call

VARIABLES
  path,     \* [Call -> Path]: the way through the method
  pc,       \* [Call -> control point]
  at,       \* [Call -> Nat]: position of the next step
  holder,   \* [Doc -> [Service -> Call or None]]: whose context a service holds
  trx,      \* [Call -> state of the transaction the call opened]
  pending,  \* [Call -> SUBSET effect]: uncommitted writes in it
  buffer,   \* [Call -> SUBSET effect]: eventBuffer of the context the call made
  batch,    \* [Call -> SUBSET effect]: the events a flush took from it
  core,     \* committed writes
  log       \* stored events

vars == <<path, pc, at, holder, trx, pending, buffer, batch, core, log>>

Steps(c) == path[c].steps
ServiceOf(c) == path[c].on

\* An effect is a step of a call.
Effects(c, kind) == {<<c, k>> : k \in {i \in 1..Len(Steps(c)) : Steps(c)[i] = kind}}
Writes(c) == Effects(c, "write")
Events(c) == Effects(c, "emit")

Answered(c) == pc[c] \in {"ok", "error"}
Live(c) == trx[c] \in {"open", "aborted"}     \* holds a connection

\* The call whose context the service holds, and the one whose transaction the
\* next statement runs on: a lookup is a method of the users' service, which
\* may hold another context.
Owner(c) == holder[DocOf[c]][ServiceOf(c)]
Lender(c) == IF Steps(c)[at[c]] = "lookup" THEN holder[DocOf[c]][Users] ELSE Owner(c)

Goto(c, label) == pc' = [pc EXCEPT ![c] = label]

-----------------------------------------------------------------------------
Init ==
  /\ path \in {f \in [Call -> UNION {Paths[c] : c \in Call}] : \A c \in Call : f[c] \in Paths[c]}
  /\ pc = [c \in Call |-> "waiting"]
  /\ at = [c \in Call |-> 1]
  /\ holder = [d \in Doc |-> [s \in Service |-> None]]
  /\ trx = [c \in Call |-> "none"]
  /\ pending = [c \in Call |-> {}]
  /\ buffer = [c \in Call |-> {}]
  /\ batch = [c \in Call |-> {}]
  /\ core = {} /\ log = {}

\* Mutants of Throw: the transaction is left open; the call is tried again.
ThrowKeepsOpen(c, hit) ==
  /\ Goto(c, "error")
  /\ trx' = [d \in Call |-> IF d # c /\ d \in hit /\ Live(d) THEN "aborted" ELSE trx[d]]
  /\ UNCHANGED pending

ThrowReopens(c, hit) ==
  /\ Goto(c, "opening")
  /\ trx' = [d \in Call |->
               IF d = c /\ Live(d) THEN "rolledBack"
               ELSE IF d \in hit /\ Live(d) THEN "aborted" ELSE trx[d]]
  /\ pending' = [pending EXCEPT ![c] = {}]

\* The call throws.  The transaction it opened, if any, is rolled back; those
\* in hit have seen a failing statement and can only be rolled back.
Throw(c, hit) ==
  /\ Goto(c, "error")
  /\ trx' = [d \in Call |->
               IF d = c /\ Live(d) THEN "rolledBack"
               ELSE IF d \in hit /\ Live(d) THEN "aborted" ELSE trx[d]]
  /\ pending' = [pending EXCEPT ![c] = {}]

\* The resolver calls the method: with no context on the service, the wrapper
\* asks for a transaction; with one, it calls the method at once.
Invoke(c) ==
  /\ pc[c] = "waiting"
  /\ \A d \in Before[c] : Answered(d)
  /\ Goto(c, IF Owner(c) = None THEN "opening" ELSE "run")
  /\ UNCHANGED <<path, at, holder, trx, pending, buffer, batch, core, log>>

\* The transaction begins.  setupContext does nothing on a service that has a
\* context by now; on one that has none it goes on to those injected into it.
Open(c) ==
  /\ pc[c] = "opening"
  /\ Cardinality({d \in Call : Live(d)}) < PoolSize
  /\ trx' = [trx EXCEPT ![c] = "open"]
  /\ holder' = [holder EXCEPT ![DocOf[c]] =
                  [s \in Service |-> IF s \in Reach[ServiceOf(c)] /\ @[s] = None
                                    THEN c ELSE @[s]]]
  /\ Goto(c, "run")
  /\ UNCHANGED <<path, at, pending, buffer, batch, core, log>>

\* No connection within acquireTimeoutMillis.
OpenFails(c) ==
  /\ pc[c] = "opening"
  /\ Throw(c, {})
  /\ UNCHANGED <<path, at, holder, buffer, batch, core, log>>

-----------------------------------------------------------------------------
\* The next step of the method.
NextIs(c, kinds) ==
  pc[c] = "run" /\ at[c] <= Len(Steps(c)) /\ Steps(c)[at[c]] \in kinds

Advance(c) == at' = [at EXCEPT ![c] = @ + 1]

\* Mutant of Statement: a query that was not given the transaction.
StatementOutside(c) ==
  /\ NextIs(c, Statements)
  /\ trx[Lender(c)] = "open"
  /\ core' = core \cup (IF Steps(c)[at[c]] = "write" THEN {<<c, at[c]>>} ELSE {})
  /\ Advance(c)
  /\ UNCHANGED <<path, pc, holder, trx, pending, buffer, batch, log>>

Statement(c) ==
  /\ NextIs(c, Statements)
  /\ trx[Lender(c)] = "open"
  /\ pending' = [pending EXCEPT ![Lender(c)] =
                   @ \cup (IF Steps(c)[at[c]] = "write" THEN {<<c, at[c]>>} ELSE {})]
  /\ Advance(c)
  /\ UNCHANGED <<path, pc, holder, trx, buffer, batch, core, log>>

\* The statement fails, as every one does behind a failed statement.
StatementFails(c) ==
  /\ NextIs(c, Statements)
  /\ Live(Lender(c))
  /\ Throw(c, {Lender(c)})
  /\ UNCHANGED <<path, at, holder, buffer, batch, core, log>>

\* "Transaction query already complete".
Refused(c) ==
  /\ NextIs(c, Statements)
  /\ trx[Lender(c)] \in {"committed", "rolledBack"}
  /\ Throw(c, {})
  /\ UNCHANGED <<path, at, holder, buffer, batch, core, log>>

\* Mutant of Emit: steps are counted from 0.
EmitFromZero(c) ==
  /\ NextIs(c, {"emit"})
  /\ buffer' = [buffer EXCEPT ![Owner(c)] = @ \cup {<<c, at[c] - 1>>}]
  /\ Advance(c)
  /\ UNCHANGED <<path, pc, holder, trx, pending, batch, core, log>>

Emit(c) ==
  /\ NextIs(c, {"emit"})
  /\ buffer' = [buffer EXCEPT ![Owner(c)] = @ \cup {<<c, at[c]>>}]
  /\ Advance(c)
  /\ UNCHANGED <<path, pc, holder, trx, pending, batch, core, log>>

Other(c) ==
  /\ NextIs(c, {"other"})
  /\ Advance(c)
  /\ UNCHANGED <<path, pc, holder, trx, pending, buffer, batch, core, log>>

\* An outer call fails, a row is missing, an input is refused.
Throws(c) ==
  /\ pc[c] = "run"
  /\ Throw(c, {})
  /\ UNCHANGED <<path, at, holder, buffer, batch, core, log>>

\* Mutant of Return: the transaction commits without the flush.
ReturnUnflushed(c) ==
  /\ pc[c] = "run" /\ at[c] > Len(Steps(c))
  /\ Goto(c, IF trx[c] # "none" THEN "commit" ELSE "ok")
  /\ UNCHANGED <<path, at, holder, trx, pending, buffer, batch, core, log>>

\* The method returns.  Only the call with a transaction of its own flushes.
Return(c) ==
  /\ pc[c] = "run" /\ at[c] > Len(Steps(c))
  /\ Goto(c, IF trx[c] # "none" THEN "flush" ELSE "ok")
  /\ UNCHANGED <<path, at, holder, trx, pending, buffer, batch, core, log>>

-----------------------------------------------------------------------------
\* Mutant of Flush: the answer does not wait for the insert.
FlushUnawaited(c) ==
  /\ pc[c] = "flush"
  /\ buffer' = [buffer EXCEPT ![Owner(c)] = {}]
  /\ batch' = [batch EXCEPT ![c] = buffer[Owner(c)]]
  /\ Goto(c, "commit")
  /\ UNCHANGED <<path, at, holder, trx, pending, core, log>>

\* flush: the buffer is taken and emptied; an empty one needs no insert.
Flush(c) ==
  /\ pc[c] = "flush"
  /\ buffer' = [buffer EXCEPT ![Owner(c)] = {}]
  /\ batch' = [batch EXCEPT ![c] = buffer[Owner(c)]]
  /\ Goto(c, IF buffer[Owner(c)] = {} THEN "commit" ELSE "logging")
  /\ UNCHANGED <<path, at, holder, trx, pending, core, log>>

\* PubSubPayloadSizeTooLargeException: the events are gone with the buffer.
TooLarge(c) ==
  /\ pc[c] = "flush" /\ buffer[Owner(c)] # {}
  /\ buffer' = [buffer EXCEPT ![Owner(c)] = {}]
  /\ Throw(c, {})
  /\ UNCHANGED <<path, at, holder, batch, core, log>>

LogInsert(c) ==
  /\ pc[c] = "logging"
  /\ log' = log \cup batch[c]
  /\ Goto(c, "commit")
  /\ UNCHANGED <<path, at, holder, trx, pending, buffer, batch, core>>

\* The insert fails, or it is its answer that gets lost.
LogFails(c) ==
  /\ pc[c] = "logging"
  /\ log' \in {log, log \cup batch[c]}
  /\ Throw(c, {})
  /\ UNCHANGED <<path, at, holder, buffer, batch, core>>

\* Mutant of Commit: the context leaves the services with its transaction.
CommitClears(c) ==
  /\ pc[c] = "commit"
  /\ core' = IF trx[c] = "open" THEN core \cup pending[c] ELSE core
  /\ trx' = [trx EXCEPT ![c] = IF @ = "open" THEN "committed" ELSE "rolledBack"]
  /\ pending' = [pending EXCEPT ![c] = {}]
  /\ holder' = [holder EXCEPT ![DocOf[c]] =
                  [s \in Service |-> IF @[s] = c THEN None ELSE @[s]]]
  /\ Goto(c, "ok")
  /\ UNCHANGED <<path, at, buffer, batch, log>>

\* COMMIT.  Behind a failed statement it rolls back, and reports no error.
Commit(c) ==
  /\ pc[c] = "commit"
  /\ core' = IF trx[c] = "open" THEN core \cup pending[c] ELSE core
  /\ trx' = [trx EXCEPT ![c] = IF @ = "open" THEN "committed" ELSE "rolledBack"]
  /\ pending' = [pending EXCEPT ![c] = {}]
  /\ Goto(c, "ok")
  /\ UNCHANGED <<path, at, holder, buffer, batch, log>>

\* COMMIT fails, or it is its answer that gets lost.
CommitFails(c) ==
  /\ pc[c] = "commit"
  /\ core' \in {core, IF trx[c] = "open" THEN core \cup pending[c] ELSE core}
  /\ Throw(c, {})
  /\ UNCHANGED <<path, at, holder, buffer, batch, log>>

-----------------------------------------------------------------------------
Begun(d) == \E c \in Call : DocOf[c] = d /\ pc[c] # "waiting"

\* The process dies with the requests it is serving; the databases stay, and
\* the server rolls back what was open.
Crash ==
  /\ \E c \in Call : pc[c] \notin {"waiting", "ok", "error", "dead"}
  /\ pc' = [c \in Call |-> IF Begun(DocOf[c]) /\ ~Answered(c) THEN "dead" ELSE pc[c]]
  /\ trx' = [c \in Call |-> IF Live(c) THEN "rolledBack" ELSE trx[c]]
  /\ pending' = [c \in Call |-> {}]
  /\ buffer' = [c \in Call |-> {}]
  /\ batch' = [c \in Call |-> {}]
  /\ UNCHANGED <<path, at, holder, core, log>>

Step(c) ==
  \/ Open(c) \/ OpenFails(c)
  \/ Statement(c) \/ StatementFails(c) \/ Refused(c)
  \/ Emit(c) \/ Other(c) \/ Throws(c) \/ Return(c)
  \/ Flush(c) \/ TooLarge(c) \/ LogInsert(c) \/ LogFails(c)
  \/ Commit(c) \/ CommitFails(c)

Next == (\E c \in Call : Invoke(c) \/ Step(c)) \/ Crash

Spec == Init /\ [][Next]_vars

\* A call that runs goes on: its statements and outer calls settle, and the
\* pool times out.  Clients, and crashes, are free.
FairSpec == Spec /\ \A c \in Call : WF_vars(Step(c))
=============================================================================
