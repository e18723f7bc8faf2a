------------------------------ MODULE Accounts ------------------------------
(***************************************************************************)
(* Recovery requests: the link by which a user sets a password.  It is     *)
(* kept in Redis as a hash {requestId, attempts} under the e-mail, apart   *)
(* from the row of the user, and four calls of UserService work on it:     *)
(* create, sendRecoverPasswordEmail, checkRecoveryHash and updatePassword. *)
(* One action is one call of the cache, the mail service or the database.  *)
(* An e-mail is a text: lower maps it to the one that create looks up and  *)
(* sends its link to, while the row is inserted with the e-mail as typed.  *)
(***************************************************************************)
EXTENDS Integers

CONSTANTS Proc,              \* calls that can be under way at once
          Email, lower,      \* texts of addresses; trim().toLowerCase()
          Request, NoId,     \* request ids (uuid), and none
          recoveryAttempts,  \* AuthConfig
          MaxCalls           \* bound on the calls that are made

ASSUME AccountAssumption ==
  /\ Email # {} /\ lower \in [Email -> Email]
  /\ NoId \notin Request
  /\ recoveryAttempts \in Nat \ {0}
  /\ MaxCalls \in Nat

VARIABLES accounts,  \* of an e-mail: "none", "new" or "set" (passwordSetByUser)
          cache,     \* of an e-mail: the hash under recoverPassword-<email>
          mailed,    \* the ids that have reached somebody
          job,       \* of a process: the call it runs
          calls,     \* calls made so far
          past       \* history, which no guard reads

vars == <<accounts, cache, mailed, job, calls, past>>

NoHash == [requestId |-> NoId, attempts |-> 0]
Idle == [op |-> "none", at |-> "idle", email |-> CHOOSE e \in Email : TRUE, id |-> NoId,
         seen |-> NoHash]

\* The hash a process works on: create's is that of the lowered e-mail.
Key(j) == IF j.op = "create" THEN lower[j.email] ELSE j.email

Reading(p, e) == job[p].at = "count" /\ job[p].email = e
Updating(p, id) == job[p].op = "update" /\ job[p].id = id

Init == /\ accounts = [e \in Email |-> "none"]
        /\ cache = [e \in Email |-> NoHash]
        /\ mailed = {}
        /\ job = [p \in Proc |-> Idle]
        /\ calls = 0
        /\ past = [issued  |-> {},                        \* ids made
                   tries   |-> [id \in Request |-> 0],    \* counted checks of an id
                   changes |-> [id \in Request |-> 0],    \* passwords set by an id
                   newest  |-> [e \in Email |-> NoId],    \* the last id stored
                   home    |-> [id \in Request |-> Idle.email],  \* the e-mail it is for
                   spent   |-> {},   \* ids whose update has deleted the hash
                   raced   |-> {},   \* e-mails: a hash changed under a check
                   reused  |-> {},   \* ids: two updates under way at once
                   crossed |-> {}]   \* ids: made while its e-mail was in use

-----------------------------------------------------------------------------
Start(p, j) == /\ job[p].at = "idle" /\ calls < MaxCalls
               /\ job' = [job EXCEPT ![p] = j]
               /\ calls' = calls + 1

Goto(p, at) == /\ job' = [job EXCEPT ![p].at = at]
               /\ UNCHANGED calls

\* The call ends, with an answer or with an exception: its transaction, if it has
\* written, is rolled back with the exception.
Finish(p) == /\ job' = [job EXCEPT ![p] = Idle]
             /\ UNCHANGED calls

\* A call of the cache that changes the hash of e.
Put(p, e, hash) ==
  cache' = [cache EXCEPT ![e] = hash]

\* The history of it: checks of e between their two calls have raced.
RacedBy(p, e) ==
  IF \E q \in Proc \ {p} : Reading(q, e) THEN past.raced \cup {e} ELSE past.raced

\* Mutant of Create: the link is left out.
CreateUnmailed(p, e) ==
  /\ accounts[lower[e]] = "none"
  /\ Start(p, [Idle EXCEPT !.op = "create", !.at = "insert", !.email = e])
  /\ UNCHANGED <<accounts, cache, mailed, past>>

\* create: nobody has the lowered e-mail.
Create(p, e) ==
  /\ accounts[lower[e]] = "none"
  /\ Start(p, [Idle EXCEPT !.op = "create", !.at = "store", !.email = e])
  /\ UNCHANGED <<accounts, cache, mailed, past>>

\* sendRecoverPasswordEmail: somebody has the e-mail.
SendRecoverPasswordEmail(p, e) ==
  /\ accounts[e] # "none"
  /\ Start(p, [Idle EXCEPT !.op = "send", !.at = "store", !.email = e])
  /\ UNCHANGED <<accounts, cache, mailed, past>>

\* Mutant of StoreRequest: the attempts are not set back.
StoreRequestKeepsAttempts(p) ==
  /\ job[p].at = "store"
  /\ \E id \in Request \ past.issued :
       LET e == Key(job[p]) IN
       /\ Put(p, e, [cache[e] EXCEPT !.requestId = id])
       /\ job' = [job EXCEPT ![p].id = id, ![p].at = "mail"]
       /\ past' = [past EXCEPT
            !.issued  = @ \cup {id},
            !.newest[e] = id,
            !.home[id] = e,
            !.raced   = RacedBy(p, e),
            !.crossed = IF \E q \in Proc \ {p} : job[q].op \in {"check", "update"} /\ job[q].email = e
                        THEN @ \cup {id} ELSE @]
  /\ UNCHANGED <<accounts, mailed, calls>>

\* setFields with a new id: a hash of an earlier request is overwritten.
StoreRequest(p) ==
  /\ job[p].at = "store"
  /\ \E id \in Request \ past.issued :
       LET e == Key(job[p]) IN
       /\ Put(p, e, [requestId |-> id, attempts |-> 0])
       /\ job' = [job EXCEPT ![p].id = id, ![p].at = "mail"]
       /\ past' = [past EXCEPT
            !.issued  = @ \cup {id},
            !.newest[e] = id,
            !.home[id] = e,
            !.raced   = RacedBy(p, e),
            !.crossed = IF \E q \in Proc \ {p} : job[q].op \in {"check", "update"} /\ job[q].email = e
                        THEN @ \cup {id} ELSE @]
  /\ UNCHANGED <<accounts, mailed, calls>>

\* sendEmail with the link; create goes on to insert the user.
MailLink(p) ==
  /\ job[p].at = "mail"
  /\ mailed' = mailed \cup {job[p].id}
  /\ IF job[p].op = "create" THEN Goto(p, "insert") ELSE Finish(p)
  /\ UNCHANGED <<accounts, cache, past>>

\* The insert waits for another insert of the e-mail to be committed or not, and
\* fails if the e-mail is taken (a unique column).
Insert(p) ==
  /\ job[p].at = "insert"
  /\ \A q \in Proc \ {p} : ~(job[q].op = "create" /\ job[q].at = "commit"
                             /\ job[q].email = job[p].email)
  /\ IF accounts[job[p].email] = "none" THEN Goto(p, "commit") ELSE Finish(p)
  /\ UNCHANGED <<accounts, cache, mailed, past>>

-----------------------------------------------------------------------------
\* checkRecoveryHashInner, the first call: getFields.  Without a request the
\* answer is no.
GetFields(p, op, e, id) ==
  /\ IF cache[e].requestId = NoId
     THEN job[p].at = "idle" /\ calls < MaxCalls /\ calls' = calls + 1 /\ UNCHANGED job
     ELSE Start(p, [op |-> op, at |-> "count", email |-> e, id |-> id, seen |-> cache[e]])
  /\ past' = [past EXCEPT !.reused =
       IF op = "update" /\ \E q \in Proc : Updating(q, id) THEN @ \cup {id} ELSE @]
  /\ UNCHANGED <<accounts, cache, mailed>>

CheckRecoveryHash(p, e, id) == GetFields(p, "check", e, id)
UpdatePassword(p, e, id)    == GetFields(p, "update", e, id)

\* What follows the check: updatePassword goes on with the right id only.
Checked(p) ==
  IF job[p].op = "update" /\ job[p].id = job[p].seen.requestId
  THEN Goto(p, "patch") ELSE Finish(p)

\* Mutant of Count: one attempt more.
CountOneMore(p) ==
  LET e    == job[p].email
      seen == job[p].seen
  IN /\ job[p].at = "count"
     /\ Put(p, e, IF seen.attempts = recoveryAttempts THEN NoHash
                  ELSE [cache[e] EXCEPT !.attempts = @ + 1])
     /\ past' = [past EXCEPT !.tries[seen.requestId] = @ + 1, !.raced = RacedBy(p, e)]
     /\ Checked(p)
     /\ UNCHANGED <<accounts, mailed>>

\* The second call: del at the last attempt, else hincrby, which makes a new hash
\* of a deleted one.
Count(p) ==
  LET e    == job[p].email
      seen == job[p].seen
  IN /\ job[p].at = "count"
     /\ Put(p, e, IF seen.attempts + 1 = recoveryAttempts THEN NoHash
                  ELSE [cache[e] EXCEPT !.attempts = @ + 1])
     /\ past' = [past EXCEPT !.tries[seen.requestId] = @ + 1, !.raced = RacedBy(p, e)]
     /\ Checked(p)
     /\ UNCHANGED <<accounts, mailed>>

\* findByEmail, which throws for a stranger, and the patch, which waits for the
\* row's other writers.
Patch(p) ==
  /\ job[p].at = "patch"
  /\ \A q \in Proc \ {p} : ~(job[q].op = "update" /\ job[q].email = job[p].email
                             /\ job[q].at \in {"notify", "delete", "commit"})
  /\ IF accounts[job[p].email] = "none" THEN Finish(p) ELSE Goto(p, "notify")
  /\ UNCHANGED <<accounts, cache, mailed, past>>

\* sendEmail tells the user.
Notify(p) ==
  /\ job[p].at = "notify"
  /\ Goto(p, "delete")
  /\ UNCHANGED <<accounts, cache, mailed, past>>

\* Mutant of Delete: the request stays.
DeleteNothing(p) ==
  /\ job[p].at = "delete"
  /\ past' = [past EXCEPT !.spent = @ \cup {job[p].id}]
  /\ Goto(p, "commit")
  /\ UNCHANGED <<accounts, cache, mailed>>

\* The request is deleted, whichever it is by now.
Delete(p) ==
  /\ job[p].at = "delete"
  /\ Put(p, job[p].email, NoHash)
  /\ past' = [past EXCEPT !.raced = RacedBy(p, job[p].email),
                           !.spent = @ \cup {job[p].id}]
  /\ Goto(p, "commit")
  /\ UNCHANGED <<accounts, mailed>>

\* The wrapper of the context commits the transaction.
Commit(p) ==
  /\ job[p].at = "commit"
  /\ accounts' = [accounts EXCEPT
       ![job[p].email] = IF job[p].op = "create" THEN "new" ELSE "set"]
  /\ past' = [past EXCEPT !.changes =
       IF job[p].op = "update" THEN [past.changes EXCEPT ![job[p].id] = @ + 1] ELSE @]
  /\ Finish(p)
  /\ UNCHANGED <<cache, mailed>>

\* A call of the cache, the mail service or the database throws, at any step.
Fails(p) ==
  /\ job[p].at # "idle"
  /\ Finish(p)
  /\ UNCHANGED <<accounts, cache, mailed, past>>

Step(p) == \/ StoreRequest(p) \/ MailLink(p) \/ Insert(p) \/ Count(p) \/ Patch(p)
           \/ Notify(p) \/ Delete(p) \/ Commit(p) \/ Fails(p)

Next == \E p \in Proc :
          \/ Step(p)
          \/ \E e \in Email :
               \/ Create(p, e) \/ SendRecoverPasswordEmail(p, e)
               \/ \E id \in mailed : CheckRecoveryHash(p, e, id) \/ UpdatePassword(p, e, id)

Spec == Init /\ [][Next]_vars

-----------------------------------------------------------------------------
Hash == [requestId : Request \cup {NoId}, attempts : Nat]
Job == [op : {"none", "create", "send", "check", "update"},
        at : {"idle", "store", "mail", "insert", "count", "patch", "notify", "delete", "commit"},
        email : Email, id : Request \cup {NoId}, seen : Hash]

History == [issued : SUBSET Request, tries : [Request -> Nat], changes : [Request -> Nat],
            newest : [Email -> Request \cup {NoId}], home : [Request -> Email],
            spent : SUBSET Request, raced : SUBSET Email, reused : SUBSET Request,
            crossed : SUBSET Request]

\* The state is well-typed; a call past its first step has a request.
TypeOK ==
  /\ accounts \in [Email -> {"none", "new", "set"}]
  /\ cache \in [Email -> Hash]
  /\ mailed \subseteq past.issued
  /\ job \in [Proc -> Job]
  /\ calls \in 0..MaxCalls
  /\ past \in History
  /\ \A p \in Proc :
       /\ job[p].at = "count" => job[p].seen.requestId # NoId
       /\ job[p].at \notin {"idle", "store"} => job[p].id # NoId

\* Where no other call has changed a request between the two cache calls of a
\* check, the counter stays below the limit and no hash is left without its
\* request: only such a race lets hincrby pass the limit, after which the test for
\* equality is never true again, or bring back a deleted key
\* (checkRecoveryHashInner).
AttemptsKept ==
  \A e \in Email \ past.raced :
    /\ cache[e].attempts < recoveryAttempts
    /\ cache[e].requestId = NoId => cache[e] = NoHash

\* One link sets one password: two changes by the same request were under way at
\* the same time.  A failed change leaves the link as it was, or without effect
\* and gone (updatePassword).
PasswordChangesOnce ==
  \A id \in Request \ past.reused : past.changes[id] <= 1

\* The newest request of an e-mail, if made while no check or update of the e-mail
\* was under way, is there with its count of checks until an update has used it or
\* it was checked as often as is allowed: no late del of an older request takes it
\* away, and no check goes uncounted (updatePassword, checkRecoveryHashInner).
UnspentRequestKept ==
  \A e \in Email \ past.raced :
    LET id == past.newest[e] IN
    id \in Request \ past.crossed =>
      \/ cache[e] = [requestId |-> id, attempts |-> past.tries[id]]
      \/ id \in past.spent
      \/ past.tries[id] = recoveryAttempts
=============================================================================
