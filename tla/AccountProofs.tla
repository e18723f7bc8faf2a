---------------------------- MODULE AccountProofs ----------------------------
(***************************************************************************)
(* Proofs about recovery requests, for any number of calls, e-mails and    *)
(* requests, any limit of attempts and any way to lower an e-mail.         *)
(***************************************************************************)
EXTENDS Accounts, TLAPS

Checks(p) == job[p].op \in {"check", "update"}

\* What the control point of a call says about it.
PhaseInv ==
  \A p \in Proc :
    LET j == job[p] IN
    /\ j.at = "idle" => j.op = "none"
    /\ j.at \in {"store", "mail"} => j.op \in {"create", "send"}
    /\ j.at = "insert" => j.op = "create"
    /\ j.at = "count" => j.op \in {"check", "update"}
    /\ j.at \in {"patch", "notify", "delete"} => j.op = "update"
    /\ j.at = "commit" => j.op \in {"create", "update"}
    /\ j.at \in {"patch", "notify", "delete", "commit"} /\ j.op = "update"
         => j.seen.requestId = j.id

\* An id that is anywhere has been made, and one that was not has not been tried.
IdInv ==
  /\ \A p \in Proc : /\ job[p].id \in past.issued \cup {NoId}
                     /\ job[p].seen.requestId \in past.issued \cup {NoId}
  /\ \A e \in Email : past.newest[e] \in past.issued \cup {NoId}
  /\ \A id \in Request \ past.issued : past.tries[id] = 0 /\ past.changes[id] = 0

\* A request is kept under one e-mail and is the newest of it; a check that has
\* read one has read it there.
HomeInv ==
  /\ \A e \in Email :
       /\ cache[e].requestId \in {NoId, past.newest[e]}
       /\ past.newest[e] # NoId => past.home[past.newest[e]] = e
  /\ \A p \in Proc : Checks(p) =>
       /\ job[p].seen.requestId # NoId
       /\ past.home[job[p].seen.requestId] = job[p].email

\* Where nothing has raced, what a check has read is still so.
SeenInv ==
  \A p \in Proc : job[p].at = "count" /\ job[p].email \notin past.raced =>
    job[p].seen = cache[job[p].email]

\* An id that was never in two hands has at most one update under way.
OneUpdateInv ==
  \A id \in Request \ past.reused : \A p, q \in Proc :
    Updating(p, id) /\ Updating(q, id) => p = q

UsedUp(id) == \/ past.changes[id] > 0
              \/ \E p \in Proc : Updating(p, id) /\ job[p].at = "commit"

\* A request that has set a password, or is about to, is gone, and no update is on
\* its way with it.
UsedInv ==
  \A id \in Request \ past.reused :
    /\ UsedUp(id) =>
         /\ \A e \in Email : cache[e].requestId # id
         /\ \A p \in Proc : Updating(p, id) =>
              \/ job[p].at = "commit"
              \/ job[p].at = "count" /\ job[p].seen.requestId # id
    /\ past.changes[id] > 0 =>
         \A p \in Proc : ~(Updating(p, id) /\ job[p].at = "commit")

\* Whoever works on an e-mail whose newest request was made while nobody did has
\* read that request.
CrossInv ==
  \A p \in Proc : Checks(p) =>
    LET id == past.newest[job[p].email] IN
    id \notin past.crossed => job[p].seen.requestId = id

\* UnspentRequestKept, with what it needs: a request that is done with is gone.
KeptInv ==
  \A e \in Email \ past.raced :
    LET id == past.newest[e] IN
    id \in Request \ past.crossed =>
      \/ cache[e] = [requestId |-> id, attempts |-> past.tries[id]]
      \/ /\ cache[e].requestId # id
         /\ id \in past.spent \/ past.tries[id] = recoveryAttempts

IInv == /\ TypeOK /\ PhaseInv /\ IdInv /\ HomeInv /\ SeenInv /\ AttemptsKept
        /\ OneUpdateInv /\ UsedInv /\ PasswordChangesOnce /\ CrossInv /\ KeptInv

-----------------------------------------------------------------------------
LEMMA IdleTyped ==
  /\ Idle \in Job
  /\ Idle.op = "none" /\ Idle.at = "idle" /\ Idle.id = NoId /\ Idle.seen = NoHash
BY AccountAssumption DEF Idle, Job, Hash, NoHash

Points == {"store", "mail", "insert", "count", "patch", "notify", "delete", "commit"}

LEMMA GotoTyped ==
  ASSUME TypeOK, NEW p \in Proc, NEW at \in Points
  PROVE  [job EXCEPT ![p].at = at] \in [Proc -> Job]
<1>1. job[p] \in Job
  BY DEF TypeOK
<1>2. [job[p] EXCEPT !.at = at] \in Job
  BY <1>1 DEF Job, Points
<1> QED
  BY <1>2 DEF TypeOK

LEMMA HistoryTyped ==
  ASSUME past \in History
  PROVE  /\ \A t \in [Request -> Nat], r \in SUBSET Email :
              [past EXCEPT !.tries = t, !.raced = r] \in History
         /\ \A r \in SUBSET Email, c \in SUBSET Request :
              [past EXCEPT !.raced = r, !.spent = c] \in History
         /\ \A c \in [Request -> Nat] : [past EXCEPT !.changes = c] \in History
         /\ \A c \in SUBSET Request : [past EXCEPT !.reused = c] \in History
         /\ \A i, c \in SUBSET Request, n \in [Email -> Request \cup {NoId}],
               h \in [Request -> Email], r \in SUBSET Email :
              [past EXCEPT !.issued = i, !.newest = n, !.home = h, !.raced = r,
                           !.crossed = c] \in History
BY DEF History

LEMMA RacedTyped ==
  ASSUME TypeOK, NEW p \in Proc, NEW e \in Email
  PROVE  RacedBy(p, e) \in SUBSET Email
BY DEF TypeOK, History, RacedBy

LEMMA FailStep ==
  ASSUME IInv, NEW p \in Proc, Fails(p)
  PROVE  IInv'
<1> USE AccountAssumption, IdleTyped DEF NoHash, Put, Goto, Finish, Start, Key
<1>1. TypeOK'
  <2>1. job' \in [Proc -> Job]
    BY GotoTyped DEF IInv, Points, TypeOK, Fails
  <2>2. cache' \in [Email -> Hash] /\ accounts' \in [Email -> {"none", "new", "set"}]
    BY DEF IInv, TypeOK, Job, Fails
  <2>3. past' \in History
    BY HistoryTyped, RacedTyped DEF IInv, TypeOK, Job, Fails
  <2>4. (mailed \subseteq past.issued)' /\ calls' \in 0..MaxCalls
    BY DEF IInv, TypeOK, Job, Fails
  <2>5. (\A q \in Proc : (job[q].at = "count" => job[q].seen.requestId # NoId) /\ (job[q].at \notin {"idle", "store"} => job[q].id # NoId))'
    BY DEF IInv, TypeOK, Job, Fails
  <2> QED
    BY <2>1, <2>2, <2>3, <2>4, <2>5 DEF TypeOK
<1>2. PhaseInv'
  BY DEF IInv, PhaseInv, TypeOK, Fails
<1>3. IdInv'
  BY DEF IInv, IdInv, TypeOK, Fails
<1>4. HomeInv'
  BY DEF IInv, HomeInv, Checks, Fails
<1>5. SeenInv'
  BY DEF IInv, SeenInv, TypeOK, Fails
<1>6. AttemptsKept'
  BY DEF IInv, AttemptsKept, TypeOK, Fails
<1>7. OneUpdateInv'
  BY DEF IInv, OneUpdateInv, Updating, Fails
<1>8. UsedInv'
  BY DEF IInv, UsedInv, UsedUp, Updating, Fails
<1>9. PasswordChangesOnce'
  BY DEF IInv, PasswordChangesOnce, TypeOK, Fails
<1>10. CrossInv'
  BY DEF IInv, CrossInv, Checks, HomeInv, Fails
<1>11. KeptInv'
  BY DEF IInv, KeptInv, TypeOK, Fails
<1> QED
  BY <1>1, <1>2, <1>3, <1>4, <1>5, <1>6, <1>7, <1>8, <1>9, <1>10, <1>11 DEF IInv

LEMMA StoreStep ==
  ASSUME IInv, NEW p \in Proc, StoreRequest(p)
  PROVE  IInv'
<1> USE AccountAssumption, IdleTyped DEF NoHash, Put, Goto, Finish, Start, Key
<1>1. TypeOK'
  <2>1. job' \in [Proc -> Job]
    <3>1. PICK i \in Request : job' = [job EXCEPT ![p].id = i, ![p].at = "mail"]
      BY DEF StoreRequest
    <3>2. job[p] \in Job
      BY DEF IInv, TypeOK
    <3>3. [job[p] EXCEPT !.id = i, !.at = "mail"] \in Job
      BY <3>2 DEF Job
    <3> QED
      BY <3>1, <3>3 DEF IInv, TypeOK
  <2>2. cache' \in [Email -> Hash] /\ accounts' \in [Email -> {"none", "new", "set"}]
    <3>1. Key(job[p]) \in Email
      BY DEF IInv, TypeOK, Job
    <3>2. PICK i \in Request : cache' = [cache EXCEPT ![Key(job[p])] = [requestId |-> i, attempts |-> 0]]
      BY DEF StoreRequest
    <3>3. [requestId |-> i, attempts |-> 0] \in Hash
      BY DEF Hash
    <3> QED
      BY <3>1, <3>2, <3>3 DEF IInv, TypeOK, StoreRequest
  <2>3. past' \in History
    <3> DEFINE k == Key(job[p])
    <3>1. k \in Email
      BY DEF IInv, TypeOK, Job
    <3>2. PICK i \in Request :
            past' = [past EXCEPT
              !.issued = @ \cup {i}, !.newest[k] = i, !.home[i] = k, !.raced = RacedBy(p, k),
              !.crossed = IF \E q \in Proc \ {p} : job[q].op \in {"check", "update"} /\ job[q].email = k
                          THEN @ \cup {i} ELSE @]
      BY DEF StoreRequest
    <3> DEFINE c == IF \E q \in Proc \ {p} : job[q].op \in {"check", "update"} /\ job[q].email = k
                    THEN past.crossed \cup {i} ELSE past.crossed
               m == past.issued \cup {i}
               n == [past.newest EXCEPT ![k] = i]
               h == [past.home EXCEPT ![i] = k]
    <3>3. past' = [past EXCEPT !.issued = m, !.newest = n, !.home = h, !.raced = RacedBy(p, k),
                     !.crossed = c]
      BY <3>2
    <3>4. /\ past \in History /\ m \in SUBSET Request /\ c \in SUBSET Request
          /\ n \in [Email -> Request \cup {NoId}] /\ h \in [Request -> Email]
      BY <3>1 DEF IInv, TypeOK, History
    <3>5. RacedBy(p, k) \in SUBSET Email
      BY <3>1, RacedTyped DEF IInv
    <3> HIDE DEF k, c, m, n, h
    <3> QED
      BY <3>3, <3>4, <3>5, HistoryTyped
  <2>4. (mailed \subseteq past.issued)' /\ calls' \in 0..MaxCalls
    BY DEF IInv, TypeOK, StoreRequest, RacedBy, Reading
  <2>5. (\A q \in Proc : (job[q].at = "count" => job[q].seen.requestId # NoId) /\ (job[q].at \notin {"idle", "store"} => job[q].id # NoId))'
    BY DEF IInv, TypeOK, StoreRequest, RacedBy, Reading
  <2> QED
    BY <2>1, <2>2, <2>3, <2>4, <2>5 DEF TypeOK
<1>2. PhaseInv'
  BY DEF IInv, PhaseInv, TypeOK, StoreRequest, RacedBy, Reading
<1>3. IdInv'
  <2>0. past \in History
    BY DEF IInv, TypeOK
  <2>1. PICK i \in Request \ past.issued :
          /\ job' = [job EXCEPT ![p].id = i, ![p].at = "mail"]
          /\ past'.issued = past.issued \cup {i}
          /\ past'.newest = [past.newest EXCEPT ![Key(job[p])] = i]
          /\ past'.tries = past.tries /\ past'.changes = past.changes
    BY <2>0 DEF StoreRequest, History
  <2>2. \A q \in Proc : /\ job'[q].id \in past'.issued \cup {NoId}
                        /\ job'[q].seen.requestId \in past'.issued \cup {NoId}
    BY <2>1 DEF IInv, IdInv, TypeOK
  <2>3. \A e \in Email : past'.newest[e] \in past'.issued \cup {NoId}
    BY <2>1 DEF IInv, IdInv, TypeOK, History
  <2>4. \A id \in Request \ past'.issued : past'.tries[id] = 0 /\ past'.changes[id] = 0
    BY <2>1 DEF IInv, IdInv
  <2> QED
    BY <2>2, <2>3, <2>4 DEF IdInv
<1>4. HomeInv'
  BY DEF IInv, HomeInv, Checks, TypeOK, Job, Hash, History, StoreRequest, RacedBy, Reading
<1>5. SeenInv'
  BY DEF IInv, SeenInv, TypeOK, StoreRequest, RacedBy, Reading
<1>6. AttemptsKept'
  BY DEF IInv, AttemptsKept, StoreRequest, RacedBy, Reading
<1>7. OneUpdateInv'
  BY DEF IInv, OneUpdateInv, Updating, TypeOK, PhaseInv, StoreRequest, RacedBy, Reading
<1>8. UsedInv'
  <2>1. PICK i \in Request \ past.issued :
          /\ cache' = [cache EXCEPT ![Key(job[p])] = [requestId |-> i, attempts |-> 0]]
          /\ job' = [job EXCEPT ![p].id = i, ![p].at = "mail"]
    BY DEF StoreRequest
  <2>2. past'.changes = past.changes /\ past'.reused = past.reused
    BY DEF StoreRequest, IInv, TypeOK, History
  <2>3. job[p].op \notin {"check", "update"} /\ job'[p].op = job[p].op
    BY <2>1 DEF IInv, TypeOK, Job, StoreRequest
  <2>4. \A q \in Proc \ {p} : job'[q] = job[q]
    BY <2>1 DEF IInv, TypeOK
  <2>5. \A x \in Email : cache'[x] = cache[x] \/ cache'[x].requestId = i
    BY <2>1 DEF IInv, TypeOK
  <2>6. \A id \in Request, q \in Proc :
          Updating(q, id)' <=> Updating(q, id) /\ q # p /\ job'[q] = job[q]
    BY <2>3, <2>4 DEF Updating
  <2>7. past.changes[i] = 0 /\ \A q \in Proc : ~Updating(q, i)
    BY <2>1 DEF IInv, IdInv, Updating
  <2>8. \A id \in Request : UsedUp(id)' => UsedUp(id) /\ id # i
    BY <2>2, <2>6, <2>7 DEF UsedUp
  <2> QED
    BY <2>2, <2>5, <2>6, <2>8 DEF IInv, UsedInv
<1>9. PasswordChangesOnce'
  BY DEF IInv, PasswordChangesOnce, StoreRequest, RacedBy, Reading
<1>10. CrossInv'
  BY DEF IInv, CrossInv, Checks, TypeOK, PhaseInv, HomeInv, StoreRequest, RacedBy, Reading
<1>11. KeptInv'
  BY DEF IInv, KeptInv, TypeOK, History, SeenInv, IdInv, AttemptsKept, StoreRequest, RacedBy, Reading
<1> QED
  BY <1>1, <1>2, <1>3, <1>4, <1>5, <1>6, <1>7, <1>8, <1>9, <1>10, <1>11 DEF IInv

LEMMA MailStep ==
  ASSUME IInv, NEW p \in Proc, MailLink(p)
  PROVE  IInv'
<1> USE AccountAssumption, IdleTyped DEF NoHash, Put, Goto, Finish, Start, Key
<1>1. CASE job[p].op = "create" /\ Goto(p, "insert")
  <2>1. TypeOK'
    <3>1. job' \in [Proc -> Job]
      BY <1>1, GotoTyped DEF IInv, Points, TypeOK, MailLink
    <3>2. cache' \in [Email -> Hash] /\ accounts' \in [Email -> {"none", "new", "set"}]
      BY <1>1 DEF IInv, TypeOK, Job, MailLink
    <3>3. past' \in History
      BY <1>1, HistoryTyped, RacedTyped DEF IInv, TypeOK, Job, MailLink
    <3>4. (mailed \subseteq past.issued)' /\ calls' \in 0..MaxCalls
      BY <1>1 DEF IInv, TypeOK, IdInv, MailLink
    <3>5. (\A q \in Proc : (job[q].at = "count" => job[q].seen.requestId # NoId) /\ (job[q].at \notin {"idle", "store"} => job[q].id # NoId))'
      BY <1>1 DEF IInv, TypeOK, Job, MailLink
    <3> QED
      BY <3>1, <3>2, <3>3, <3>4, <3>5 DEF TypeOK
  <2>2. PhaseInv'
    BY <1>1 DEF IInv, PhaseInv, TypeOK, MailLink
  <2>3. IdInv'
    BY <1>1 DEF IInv, IdInv, TypeOK, MailLink
  <2>4. HomeInv'
    BY <1>1 DEF IInv, HomeInv, Checks, MailLink
  <2>5. SeenInv'
    BY <1>1 DEF IInv, SeenInv, TypeOK, MailLink
  <2>6. AttemptsKept'
    BY <1>1 DEF IInv, AttemptsKept, TypeOK, MailLink
  <2>7. OneUpdateInv'
    BY <1>1 DEF IInv, OneUpdateInv, Updating, MailLink
  <2>8. UsedInv'
    BY <1>1 DEF IInv, UsedInv, UsedUp, Updating, OneUpdateInv, MailLink
  <2>9. PasswordChangesOnce'
    BY <1>1 DEF IInv, PasswordChangesOnce, TypeOK, MailLink
  <2>10. CrossInv'
    BY <1>1 DEF IInv, CrossInv, Checks, HomeInv, MailLink
  <2>11. KeptInv'
    BY <1>1 DEF IInv, KeptInv, TypeOK, MailLink
  <2> QED
    BY <2>1, <2>2, <2>3, <2>4, <2>5, <2>6, <2>7, <2>8, <2>9, <2>10, <2>11 DEF IInv
<1>2. CASE job[p].op # "create" /\ Finish(p)
  <2>1. TypeOK'
    <3>1. job' \in [Proc -> Job]
      BY <1>2, GotoTyped DEF IInv, Points, TypeOK, MailLink
    <3>2. cache' \in [Email -> Hash] /\ accounts' \in [Email -> {"none", "new", "set"}]
      BY <1>2 DEF IInv, TypeOK, Job, MailLink
    <3>3. past' \in History
      BY <1>2, HistoryTyped, RacedTyped DEF IInv, TypeOK, Job, MailLink
    <3>4. (mailed \subseteq past.issued)' /\ calls' \in 0..MaxCalls
      <4>1. job[p].id \in past.issued
        BY DEF IInv, TypeOK, IdInv, MailLink
      <4> QED
        BY <1>2, <4>1 DEF IInv, TypeOK, MailLink
    <3>5. (\A q \in Proc : (job[q].at = "count" => job[q].seen.requestId # NoId) /\ (job[q].at \notin {"idle", "store"} => job[q].id # NoId))'
      BY <1>2 DEF IInv, TypeOK, Job, MailLink
    <3> QED
      BY <3>1, <3>2, <3>3, <3>4, <3>5 DEF TypeOK
  <2>2. PhaseInv'
    BY <1>2 DEF IInv, PhaseInv, TypeOK, MailLink
  <2>3. IdInv'
    BY <1>2 DEF IInv, IdInv, TypeOK, MailLink
  <2>4. HomeInv'
    BY <1>2 DEF IInv, HomeInv, Checks, MailLink
  <2>5. SeenInv'
    BY <1>2 DEF IInv, SeenInv, TypeOK, MailLink
  <2>6. AttemptsKept'
    BY <1>2 DEF IInv, AttemptsKept, TypeOK, MailLink
  <2>7. OneUpdateInv'
    BY <1>2 DEF IInv, OneUpdateInv, Updating, MailLink
  <2>8. UsedInv'
    BY <1>2 DEF IInv, UsedInv, UsedUp, Updating, MailLink
  <2>9. PasswordChangesOnce'
    BY <1>2 DEF IInv, PasswordChangesOnce, TypeOK, MailLink
  <2>10. CrossInv'
    BY <1>2 DEF IInv, CrossInv, Checks, HomeInv, MailLink
  <2>11. KeptInv'
    BY <1>2 DEF IInv, KeptInv, TypeOK, MailLink
  <2> QED
    BY <2>1, <2>2, <2>3, <2>4, <2>5, <2>6, <2>7, <2>8, <2>9, <2>10, <2>11 DEF IInv
<1> QED
  BY <1>1, <1>2 DEF MailLink

LEMMA InsertStep ==
  ASSUME IInv, NEW p \in Proc, Insert(p)
  PROVE  IInv'
<1> USE AccountAssumption, IdleTyped DEF NoHash, Put, Goto, Finish, Start, Key
<1>1. CASE Goto(p, "commit")
  <2>1. TypeOK'
    <3>1. job' \in [Proc -> Job]
      BY <1>1, GotoTyped DEF IInv, Points, TypeOK, Insert
    <3>2. cache' \in [Email -> Hash] /\ accounts' \in [Email -> {"none", "new", "set"}]
      BY <1>1 DEF IInv, TypeOK, Job, Insert
    <3>3. past' \in History
      BY <1>1, HistoryTyped, RacedTyped DEF IInv, TypeOK, Job, Insert
    <3>4. (mailed \subseteq past.issued)' /\ calls' \in 0..MaxCalls
      BY <1>1 DEF IInv, TypeOK, Job, Insert
    <3>5. (\A q \in Proc : (job[q].at = "count" => job[q].seen.requestId # NoId) /\ (job[q].at \notin {"idle", "store"} => job[q].id # NoId))'
      BY <1>1 DEF IInv, TypeOK, Job, Insert
    <3> QED
      BY <3>1, <3>2, <3>3, <3>4, <3>5 DEF TypeOK
  <2>2. PhaseInv'
    BY <1>1 DEF IInv, PhaseInv, TypeOK, Insert
  <2>3. IdInv'
    BY <1>1 DEF IInv, IdInv, TypeOK, Insert
  <2>4. HomeInv'
    BY <1>1 DEF IInv, HomeInv, Checks, Insert
  <2>5. SeenInv'
    BY <1>1 DEF IInv, SeenInv, TypeOK, Insert
  <2>6. AttemptsKept'
    BY <1>1 DEF IInv, AttemptsKept, TypeOK, Insert
  <2>7. OneUpdateInv'
    BY <1>1 DEF IInv, OneUpdateInv, Updating, Insert
  <2>8. UsedInv'
    BY <1>1 DEF IInv, UsedInv, UsedUp, Updating, PhaseInv, Insert
  <2>9. PasswordChangesOnce'
    BY <1>1 DEF IInv, PasswordChangesOnce, TypeOK, Insert
  <2>10. CrossInv'
    BY <1>1 DEF IInv, CrossInv, Checks, HomeInv, Insert
  <2>11. KeptInv'
    BY <1>1 DEF IInv, KeptInv, TypeOK, Insert
  <2> QED
    BY <2>1, <2>2, <2>3, <2>4, <2>5, <2>6, <2>7, <2>8, <2>9, <2>10, <2>11 DEF IInv
<1>2. CASE Finish(p)
  BY <1>2, FailStep DEF Insert, Fails
<1> QED
  BY <1>1, <1>2 DEF Insert

\* A check of the newest request keeps its count in step with its checks.
LEMMA CountKeeps ==
  ASSUME IInv, NEW p \in Proc, Count(p)
  PROVE  KeptInv'
<1> DEFINE e == job[p].email
           s == job[p].seen.requestId
<1>1. /\ e \in Email /\ s # NoId /\ s \in Request
      /\ past.raced \subseteq past'.raced
      /\ past'.newest = past.newest /\ past'.crossed = past.crossed /\ past'.spent = past.spent
      /\ past'.tries = [past.tries EXCEPT ![s] = @ + 1]
      /\ \A x \in Email \ {e} : cache'[x] = cache[x]
  BY DEF IInv, TypeOK, Job, Hash, Count, RacedBy, Put
<1>2. SUFFICES ASSUME NEW x \in Email \ past'.raced,
                      past.newest[x] \in Request \ past.crossed
               PROVE  LET id == past.newest[x] IN
                      \/ cache'[x] = [requestId |-> id, attempts |-> past'.tries[id]]
                      \/ /\ cache'[x].requestId # id
                         /\ id \in past.spent \/ past'.tries[id] = recoveryAttempts
  BY <1>1 DEF KeptInv
<1> DEFINE id == past.newest[x]
<1>3. /\ past.home[s] = e /\ past.home[id] = x /\ x \notin past.raced
      /\ \/ cache[x] = [requestId |-> id, attempts |-> past.tries[id]]
         \/ /\ cache[x].requestId # id
            /\ id \in past.spent \/ past.tries[id] = recoveryAttempts
  <2>1. Checks(p)
    BY DEF IInv, PhaseInv, Checks, Count
  <2>2. past.home[s] = e
    BY <2>1 DEF IInv, HomeInv
  <2>3. past.home[id] = x /\ x \notin past.raced
    BY <1>1, <1>2, AccountAssumption DEF IInv, HomeInv
  <2>4. \/ cache[x] = [requestId |-> id, attempts |-> past.tries[id]]
        \/ /\ cache[x].requestId # id
           /\ id \in past.spent \/ past.tries[id] = recoveryAttempts
    BY <1>2, <2>3 DEF IInv, KeptInv
  <2> QED
    BY <2>2, <2>3, <2>4
<1>4. CASE x # e
  BY <1>1, <1>2, <1>3, <1>4 DEF IInv, TypeOK, History
<1>5. CASE x = e
  <2>0. Checks(p) /\ job[p].at = "count"
    BY DEF IInv, PhaseInv, Checks, Count
  <2>1. s = id /\ job[p].seen = cache[e]
    <3>1. s = id
      BY <1>2, <1>5, <2>0 DEF IInv, CrossInv
    <3>2. job[p].seen = cache[e]
      BY <1>3, <1>5, <2>0 DEF IInv, SeenInv
    <3> QED
      BY <3>1, <3>2
  <2>2. cache[e] = [requestId |-> id, attempts |-> past.tries[id]]
    BY <1>3, <1>5, <2>1
  <2>3. past'.tries[id] = past.tries[id] + 1 /\ past.tries[id] \in Nat
    BY <1>1, <2>1 DEF IInv, TypeOK, History
  <2>4. cache'[e] = IF past.tries[id] + 1 = recoveryAttempts THEN NoHash
                    ELSE [requestId |-> id, attempts |-> past.tries[id] + 1]
    BY <1>1, <2>1, <2>2 DEF IInv, TypeOK, Count, Put
  <2>5. CASE past.tries[id] + 1 = recoveryAttempts
    <3>1. cache'[x].requestId = NoId
      BY <1>5, <2>4, <2>5 DEF NoHash
    <3>2. past'.tries[id] = recoveryAttempts
      BY <2>3, <2>5
    <3> QED
      BY <3>1, <3>2, <1>2, AccountAssumption
  <2>6. CASE past.tries[id] + 1 # recoveryAttempts
    BY <1>5, <2>3, <2>4, <2>6
  <2> QED
    BY <2>5, <2>6, Zenon
<1> QED
  BY <1>4, <1>5

\* Where nothing has raced, the limit is compared with the count of that moment.
LEMMA CountLimited ==
  ASSUME IInv, NEW p \in Proc, Count(p)
  PROVE  AttemptsKept'
<1> USE AccountAssumption, IdleTyped DEF NoHash, Put, Goto, Finish, Start, Key
<1> DEFINE e == job[p].email
<1>1. /\ e \in Email /\ job[p].seen.requestId # NoId
      /\ past.raced \subseteq past'.raced
      /\ \A x \in Email \ {e} : cache'[x] = cache[x]
  BY DEF IInv, TypeOK, Job, Count, RacedBy
<1>2. CASE e \notin past.raced
  <2>1. job[p].seen = cache[e]
    BY <1>2 DEF IInv, SeenInv, Count
  <2>2. cache[e].attempts < recoveryAttempts /\ cache[e] \in Hash
    BY <1>1, <1>2 DEF IInv, AttemptsKept, TypeOK
  <2>3. CASE cache[e].attempts + 1 = recoveryAttempts
    BY <1>1, <2>1, <2>3 DEF IInv, AttemptsKept, TypeOK, Count
  <2>4. CASE cache[e].attempts + 1 # recoveryAttempts
    <3>1. cache'[e] = [cache[e] EXCEPT !.attempts = @ + 1]
      BY <1>1, <2>1, <2>4 DEF IInv, TypeOK, Count
    <3>2. cache'[e].attempts < recoveryAttempts /\ cache'[e].requestId # NoId
      BY <1>1, <2>1, <2>2, <2>4, <3>1 DEF Hash
    <3> QED
      BY <1>1, <3>2 DEF IInv, AttemptsKept
  <2> QED
    BY <2>3, <2>4
<1>3. CASE e \in past.raced
  BY <1>1, <1>3 DEF IInv, AttemptsKept
<1> QED
  BY <1>2, <1>3

LEMMA CountStep ==
  ASSUME IInv, NEW p \in Proc, Count(p)
  PROVE  IInv'
<1> USE AccountAssumption, IdleTyped DEF NoHash, Put, Goto, Finish, Start, Key
<1>1. CASE job[p].op = "update" /\ job[p].id = job[p].seen.requestId /\ Goto(p, "patch")
  <2>1. TypeOK'
    <3>1. job' \in [Proc -> Job]
      BY <1>1, GotoTyped DEF IInv, Points, Count, RacedBy, Reading, Checked
    <3>2. cache' \in [Email -> Hash] /\ accounts' \in [Email -> {"none", "new", "set"}]
      BY <1>1 DEF IInv, TypeOK, Job, Hash, IdInv, Count, RacedBy, Reading, Checked
    <3>3. past' \in History
      <4> DEFINE s == job[p].seen.requestId
                 t == [past.tries EXCEPT ![s] = @ + 1]
      <4>1. past' = [past EXCEPT !.tries = t, !.raced = RacedBy(p, job[p].email)]
        BY DEF Count
      <4>2. past \in History /\ t \in [Request -> Nat]
        BY DEF IInv, TypeOK, History, Count, Job, Hash
      <4>3. RacedBy(p, job[p].email) \in SUBSET Email
        BY RacedTyped DEF IInv, TypeOK, Job
      <4> HIDE DEF t
      <4> QED
        BY <4>1, <4>2, <4>3, HistoryTyped
    <3>4. (mailed \subseteq past.issued)' /\ calls' \in 0..MaxCalls
      BY <1>1 DEF IInv, TypeOK, Count, RacedBy, Reading, Checked
    <3>5. (\A q \in Proc : (job[q].at = "count" => job[q].seen.requestId # NoId) /\ (job[q].at \notin {"idle", "store"} => job[q].id # NoId))'
      BY <1>1 DEF IInv, TypeOK, Count, RacedBy, Reading, Checked
    <3> QED
      BY <3>1, <3>2, <3>3, <3>4, <3>5 DEF TypeOK
  <2>2. PhaseInv'
    BY <1>1 DEF IInv, PhaseInv, Count, RacedBy, Reading, Checked
  <2>3. IdInv'
    BY <1>1 DEF IInv, IdInv, Count, RacedBy, Reading, Checked
  <2>4. HomeInv'
    BY <1>1 DEF IInv, HomeInv, Checks, Count, RacedBy, Reading, Checked
  <2>5. SeenInv'
    BY <1>1 DEF IInv, SeenInv, TypeOK, Count, RacedBy, Reading, Checked
  <2>6. AttemptsKept'
    BY CountLimited
  <2>7. OneUpdateInv'
    BY <1>1 DEF IInv, OneUpdateInv, Updating, Count, RacedBy, Reading, Checked
  <2>8. UsedInv'
    BY <1>1 DEF IInv, UsedInv, UsedUp, Updating, Count, RacedBy, Reading, Checked
  <2>9. PasswordChangesOnce'
    BY <1>1 DEF IInv, PasswordChangesOnce, Count, RacedBy, Reading, Checked
  <2>10. CrossInv'
    BY <1>1 DEF IInv, CrossInv, Checks, HomeInv, Count, RacedBy, Reading, Checked
  <2>11. KeptInv'
    BY CountKeeps
  <2> QED
    BY <2>1, <2>2, <2>3, <2>4, <2>5, <2>6, <2>7, <2>8, <2>9, <2>10, <2>11 DEF IInv
<1>2. CASE Finish(p)
  <2>1. TypeOK'
    <3>1. job' \in [Proc -> Job]
      BY <1>2, GotoTyped DEF IInv, Points, TypeOK, Count, RacedBy, Reading, Checked
    <3>2. cache' \in [Email -> Hash] /\ accounts' \in [Email -> {"none", "new", "set"}]
      <4>1. cache[job[p].email] \in Hash /\ job[p].email \in Email
        BY DEF IInv, TypeOK, Job
      <4>2. [cache[job[p].email] EXCEPT !.attempts = @ + 1] \in Hash /\ NoHash \in Hash
        BY <4>1 DEF Hash
      <4> QED
        BY <4>1, <4>2 DEF IInv, TypeOK, Count
    <3>3. past' \in History
      <4> DEFINE s == job[p].seen.requestId
                 t == [past.tries EXCEPT ![s] = @ + 1]
      <4>1. past' = [past EXCEPT !.tries = t, !.raced = RacedBy(p, job[p].email)]
        BY DEF Count
      <4>2. past \in History /\ t \in [Request -> Nat]
        BY DEF IInv, TypeOK, History, Count, Job, Hash
      <4>3. RacedBy(p, job[p].email) \in SUBSET Email
        BY RacedTyped DEF IInv, TypeOK, Job
      <4> HIDE DEF t
      <4> QED
        BY <4>1, <4>2, <4>3, HistoryTyped
    <3>4. (mailed \subseteq past.issued)' /\ calls' \in 0..MaxCalls
      BY <1>2 DEF IInv, TypeOK, Count, RacedBy, Reading, Checked
    <3>5. (\A q \in Proc : (job[q].at = "count" => job[q].seen.requestId # NoId) /\ (job[q].at \notin {"idle", "store"} => job[q].id # NoId))'
      BY <1>2 DEF IInv, TypeOK, Count, RacedBy, Reading, Checked
    <3> QED
      BY <3>1, <3>2, <3>3, <3>4, <3>5 DEF TypeOK
  <2>2. PhaseInv'
    BY <1>2 DEF IInv, PhaseInv, Count, RacedBy, Reading, Checked
  <2>3. IdInv'
    BY <1>2 DEF IInv, IdInv, Count, RacedBy, Reading, Checked
  <2>4. HomeInv'
    BY <1>2 DEF IInv, HomeInv, Checks, Count, RacedBy, Reading, Checked
  <2>5. SeenInv'
    BY <1>2 DEF IInv, SeenInv, TypeOK, Count, RacedBy, Reading, Checked
  <2>6. AttemptsKept'
    BY CountLimited
  <2>7. OneUpdateInv'
    BY <1>2 DEF IInv, OneUpdateInv, Updating, Count, RacedBy, Reading, Checked
  <2>8. UsedInv'
    BY <1>2 DEF IInv, UsedInv, UsedUp, Updating, HomeInv, Checks, Count, RacedBy, Reading, Checked
  <2>9. PasswordChangesOnce'
    BY <1>2 DEF IInv, PasswordChangesOnce, Count, RacedBy, Reading, Checked
  <2>10. CrossInv'
    BY <1>2 DEF IInv, CrossInv, Checks, HomeInv, Count, RacedBy, Reading, Checked
  <2>11. KeptInv'
    BY CountKeeps
  <2> QED
    BY <2>1, <2>2, <2>3, <2>4, <2>5, <2>6, <2>7, <2>8, <2>9, <2>10, <2>11 DEF IInv
<1> QED
  BY <1>1, <1>2 DEF Count, RacedBy, Reading, Checked

LEMMA PatchStep ==
  ASSUME IInv, NEW p \in Proc, Patch(p)
  PROVE  IInv'
<1> USE AccountAssumption, IdleTyped DEF NoHash, Put, Goto, Finish, Start, Key
<1>1. CASE Goto(p, "notify")
  <2>1. TypeOK'
    <3>1. job' \in [Proc -> Job]
      BY <1>1, GotoTyped DEF IInv, Points, TypeOK, Patch
    <3>2. cache' \in [Email -> Hash] /\ accounts' \in [Email -> {"none", "new", "set"}]
      BY <1>1 DEF IInv, TypeOK, Job, Patch
    <3>3. past' \in History
      BY <1>1, HistoryTyped, RacedTyped DEF IInv, TypeOK, Job, Patch
    <3>4. (mailed \subseteq past.issued)' /\ calls' \in 0..MaxCalls
      BY <1>1 DEF IInv, TypeOK, Job, Patch
    <3>5. (\A q \in Proc : (job[q].at = "count" => job[q].seen.requestId # NoId) /\ (job[q].at \notin {"idle", "store"} => job[q].id # NoId))'
      BY <1>1 DEF IInv, TypeOK, Job, Patch
    <3> QED
      BY <3>1, <3>2, <3>3, <3>4, <3>5 DEF TypeOK
  <2>2. PhaseInv'
    BY <1>1 DEF IInv, PhaseInv, TypeOK, Patch
  <2>3. IdInv'
    BY <1>1 DEF IInv, IdInv, TypeOK, Patch
  <2>4. HomeInv'
    BY <1>1 DEF IInv, HomeInv, Checks, Patch
  <2>5. SeenInv'
    BY <1>1 DEF IInv, SeenInv, TypeOK, Patch
  <2>6. AttemptsKept'
    BY <1>1 DEF IInv, AttemptsKept, TypeOK, Patch
  <2>7. OneUpdateInv'
    BY <1>1 DEF IInv, OneUpdateInv, Updating, Patch
  <2>8. UsedInv'
    BY <1>1 DEF IInv, UsedInv, UsedUp, Updating, OneUpdateInv, Patch
  <2>9. PasswordChangesOnce'
    BY <1>1 DEF IInv, PasswordChangesOnce, TypeOK, Patch
  <2>10. CrossInv'
    BY <1>1 DEF IInv, CrossInv, Checks, HomeInv, Patch
  <2>11. KeptInv'
    BY <1>1 DEF IInv, KeptInv, TypeOK, Patch
  <2> QED
    BY <2>1, <2>2, <2>3, <2>4, <2>5, <2>6, <2>7, <2>8, <2>9, <2>10, <2>11 DEF IInv
<1>2. CASE Finish(p)
  BY <1>2, FailStep DEF Patch, Fails
<1> QED
  BY <1>1, <1>2 DEF Patch

LEMMA NotifyStep ==
  ASSUME IInv, NEW p \in Proc, Notify(p)
  PROVE  IInv'
<1> USE AccountAssumption, IdleTyped DEF NoHash, Put, Goto, Finish, Start, Key
<1>1. TypeOK'
  <2>1. job' \in [Proc -> Job]
    BY GotoTyped DEF IInv, Points, TypeOK, Notify
  <2>2. cache' \in [Email -> Hash] /\ accounts' \in [Email -> {"none", "new", "set"}]
    BY DEF IInv, TypeOK, Job, Notify
  <2>3. past' \in History
    BY HistoryTyped, RacedTyped DEF IInv, TypeOK, Job, Notify
  <2>4. (mailed \subseteq past.issued)' /\ calls' \in 0..MaxCalls
    BY DEF IInv, TypeOK, Job, Notify
  <2>5. (\A q \in Proc : (job[q].at = "count" => job[q].seen.requestId # NoId) /\ (job[q].at \notin {"idle", "store"} => job[q].id # NoId))'
    BY DEF IInv, TypeOK, Job, Notify
  <2> QED
    BY <2>1, <2>2, <2>3, <2>4, <2>5 DEF TypeOK
<1>2. PhaseInv'
  BY DEF IInv, PhaseInv, TypeOK, Notify
<1>3. IdInv'
  BY DEF IInv, IdInv, TypeOK, Notify
<1>4. HomeInv'
  BY DEF IInv, HomeInv, Checks, Notify
<1>5. SeenInv'
  BY DEF IInv, SeenInv, TypeOK, Notify
<1>6. AttemptsKept'
  BY DEF IInv, AttemptsKept, TypeOK, Notify
<1>7. OneUpdateInv'
  BY DEF IInv, OneUpdateInv, Updating, Notify
<1>8. UsedInv'
  BY DEF IInv, UsedInv, UsedUp, Updating, OneUpdateInv, Notify
<1>9. PasswordChangesOnce'
  BY DEF IInv, PasswordChangesOnce, TypeOK, Notify
<1>10. CrossInv'
  BY DEF IInv, CrossInv, Checks, HomeInv, Notify
<1>11. KeptInv'
  BY DEF IInv, KeptInv, TypeOK, Notify
<1> QED
  BY <1>1, <1>2, <1>3, <1>4, <1>5, <1>6, <1>7, <1>8, <1>9, <1>10, <1>11 DEF IInv

LEMMA DeleteStep ==
  ASSUME IInv, NEW p \in Proc, Delete(p)
  PROVE  IInv'
<1> USE AccountAssumption, IdleTyped DEF NoHash, Put, Goto, Finish, Start, Key
<1>1. TypeOK'
  <2>1. job' \in [Proc -> Job]
    BY GotoTyped DEF IInv, Points, Delete, RacedBy, Reading
  <2>2. cache' \in [Email -> Hash] /\ accounts' \in [Email -> {"none", "new", "set"}]
    BY DEF IInv, TypeOK, Job, Delete, RacedBy, Reading
  <2>3. past' \in History
    <3> DEFINE c == past.spent \cup {job[p].id}
    <3>1. past' = [past EXCEPT !.raced = RacedBy(p, job[p].email), !.spent = c]
      BY DEF Delete
    <3>2. past \in History /\ c \in SUBSET Request
      BY DEF IInv, TypeOK, History, Delete, Job
    <3>3. RacedBy(p, job[p].email) \in SUBSET Email
      BY RacedTyped DEF IInv, TypeOK, Job
    <3> HIDE DEF c
    <3> QED
      BY <3>1, <3>2, <3>3, HistoryTyped
  <2>4. (mailed \subseteq past.issued)' /\ calls' \in 0..MaxCalls
    BY DEF IInv, TypeOK, Delete, RacedBy, Reading
  <2>5. (\A q \in Proc : (job[q].at = "count" => job[q].seen.requestId # NoId) /\ (job[q].at \notin {"idle", "store"} => job[q].id # NoId))'
    BY DEF IInv, TypeOK, Delete, RacedBy, Reading
  <2> QED
    BY <2>1, <2>2, <2>3, <2>4, <2>5 DEF TypeOK
<1>2. PhaseInv'
  BY DEF IInv, PhaseInv, Delete, RacedBy, Reading
<1>3. IdInv'
  BY DEF IInv, IdInv, Delete, RacedBy, Reading
<1>4. HomeInv'
  BY DEF IInv, HomeInv, Checks, Delete, RacedBy, Reading
<1>5. SeenInv'
  BY DEF IInv, SeenInv, Delete, RacedBy, Reading
<1>6. AttemptsKept'
  BY DEF IInv, AttemptsKept, Delete, RacedBy, Reading
<1>7. OneUpdateInv'
  BY DEF IInv, OneUpdateInv, Updating, Delete, RacedBy, Reading
<1>8. UsedInv'
  BY DEF IInv, UsedInv, UsedUp, Updating, TypeOK, History, PhaseInv, HomeInv, Checks, OneUpdateInv, Delete, RacedBy, Reading
<1>9. PasswordChangesOnce'
  BY DEF IInv, PasswordChangesOnce, Delete, RacedBy, Reading
<1>10. CrossInv'
  BY DEF IInv, CrossInv, Checks, HomeInv, Delete, RacedBy, Reading
<1>11. KeptInv'
  <2> DEFINE e == job[p].email
             s == job[p].id
  <2>1. /\ e \in Email /\ s \in Request
        /\ past.raced \subseteq past'.raced
        /\ past'.newest = past.newest /\ past'.crossed = past.crossed
        /\ past'.tries = past.tries /\ past'.spent = past.spent \cup {s}
        /\ cache'[e] = NoHash
        /\ \A x \in Email \ {e} : cache'[x] = cache[x]
    BY DEF IInv, TypeOK, Job, Delete, RacedBy
  <2>2. job[p].seen.requestId = s /\ Checks(p)
    BY DEF IInv, PhaseInv, Checks, Delete
  <2>3. past.newest[e] \notin past.crossed => s = past.newest[e]
    BY <2>1, <2>2 DEF IInv, CrossInv
  <2> QED
    BY <2>1, <2>3 DEF IInv, KeptInv
<1> QED
  BY <1>1, <1>2, <1>3, <1>4, <1>5, <1>6, <1>7, <1>8, <1>9, <1>10, <1>11 DEF IInv

LEMMA CommitStep ==
  ASSUME IInv, NEW p \in Proc, Commit(p)
  PROVE  IInv'
<1> USE AccountAssumption, IdleTyped DEF NoHash, Put, Goto, Finish, Start, Key
<1>1. TypeOK'
  <2>1. job' \in [Proc -> Job]
    BY GotoTyped DEF IInv, Points, TypeOK, Commit
  <2>2. cache' \in [Email -> Hash] /\ accounts' \in [Email -> {"none", "new", "set"}]
    BY DEF IInv, TypeOK, Job, Commit
  <2>3. past' \in History
    <3> DEFINE c == IF job[p].op = "update" THEN [past.changes EXCEPT ![job[p].id] = @ + 1]
                    ELSE past.changes
    <3>1. past' = [past EXCEPT !.changes = c]
      BY DEF Commit, IInv, TypeOK, History
    <3>2. past \in History /\ c \in [Request -> Nat]
      BY DEF IInv, TypeOK, History, Job, Commit
    <3> HIDE DEF c
    <3> QED
      BY <3>1, <3>2, HistoryTyped
  <2>4. (mailed \subseteq past.issued)' /\ calls' \in 0..MaxCalls
    BY DEF IInv, TypeOK, Job, Commit
  <2>5. (\A q \in Proc : (job[q].at = "count" => job[q].seen.requestId # NoId) /\ (job[q].at \notin {"idle", "store"} => job[q].id # NoId))'
    BY DEF IInv, TypeOK, Job, Commit
  <2> QED
    BY <2>1, <2>2, <2>3, <2>4, <2>5 DEF TypeOK
<1>2. PhaseInv'
  BY DEF IInv, PhaseInv, TypeOK, Commit
<1>3. IdInv'
  BY DEF IInv, IdInv, TypeOK, Commit
<1>4. HomeInv'
  BY DEF IInv, HomeInv, Checks, Commit
<1>5. SeenInv'
  BY DEF IInv, SeenInv, TypeOK, Commit
<1>6. AttemptsKept'
  BY DEF IInv, AttemptsKept, TypeOK, Commit
<1>7. OneUpdateInv'
  BY DEF IInv, OneUpdateInv, Updating, Commit
<1>8. UsedInv'
  BY DEF IInv, UsedInv, UsedUp, Updating, TypeOK, OneUpdateInv, Commit
<1>9. PasswordChangesOnce'
  <2>1. CASE job[p].op = "update"
    <3> DEFINE s == job[p].id
    <3>1. /\ s \in Request /\ past'.reused = past.reused
          /\ past'.changes = [past.changes EXCEPT ![s] = @ + 1]
      BY <2>1 DEF IInv, TypeOK, Job, Commit
    <3>2. s \notin past.reused => ~(past.changes[s] > 0)
      BY <2>1, <3>1 DEF IInv, UsedInv, Updating, Commit
    <3>3. \A id \in Request : past.changes[id] \in Nat
      BY DEF IInv, TypeOK, History
    <3> QED
      BY <3>1, <3>2, <3>3 DEF IInv, TypeOK, History, PasswordChangesOnce
  <2>2. CASE job[p].op # "update"
    BY <2>2 DEF IInv, TypeOK, PasswordChangesOnce, Commit
  <2> QED
    BY <2>1, <2>2
<1>10. CrossInv'
  BY DEF IInv, CrossInv, Checks, HomeInv, Commit
<1>11. KeptInv'
  BY DEF IInv, KeptInv, TypeOK, Commit
<1> QED
  BY <1>1, <1>2, <1>3, <1>4, <1>5, <1>6, <1>7, <1>8, <1>9, <1>10, <1>11 DEF IInv

LEMMA CreateStep ==
  ASSUME IInv, NEW p \in Proc, NEW e \in Email, Create(p, e)
  PROVE  IInv'
<1> USE AccountAssumption, IdleTyped DEF NoHash, Put, Goto, Finish, Start, Key
<1>1. TypeOK'
  <2>1. job' \in [Proc -> Job]
    <3>1. [Idle EXCEPT !.op = "create", !.at = "store", !.email = e] \in Job
      BY IdleTyped DEF Job
    <3> QED
      BY <3>1 DEF IInv, TypeOK, Create
  <2>2. cache' \in [Email -> Hash] /\ accounts' \in [Email -> {"none", "new", "set"}]
    BY DEF IInv, TypeOK, Job, Create
  <2>3. past' \in History
    BY HistoryTyped, RacedTyped DEF IInv, TypeOK, Job, Create
  <2>4. (mailed \subseteq past.issued)' /\ calls' \in 0..MaxCalls
    BY DEF IInv, TypeOK, Job, Create
  <2>5. (\A q \in Proc : (job[q].at = "count" => job[q].seen.requestId # NoId) /\ (job[q].at \notin {"idle", "store"} => job[q].id # NoId))'
    BY DEF IInv, TypeOK, Job, Create
  <2> QED
    BY <2>1, <2>2, <2>3, <2>4, <2>5 DEF TypeOK
<1>2. PhaseInv'
  BY DEF IInv, PhaseInv, TypeOK, Create
<1>3. IdInv'
  BY DEF IInv, IdInv, TypeOK, Create
<1>4. HomeInv'
  BY DEF IInv, HomeInv, Checks, Create
<1>5. SeenInv'
  BY DEF IInv, SeenInv, TypeOK, Create
<1>6. AttemptsKept'
  BY DEF IInv, AttemptsKept, TypeOK, Create
<1>7. OneUpdateInv'
  BY DEF IInv, OneUpdateInv, Updating, Create
<1>8. UsedInv'
  BY DEF IInv, UsedInv, UsedUp, Updating, OneUpdateInv, Create
<1>9. PasswordChangesOnce'
  BY DEF IInv, PasswordChangesOnce, TypeOK, Create
<1>10. CrossInv'
  BY DEF IInv, CrossInv, Checks, HomeInv, Create
<1>11. KeptInv'
  BY DEF IInv, KeptInv, TypeOK, Create
<1> QED
  BY <1>1, <1>2, <1>3, <1>4, <1>5, <1>6, <1>7, <1>8, <1>9, <1>10, <1>11 DEF IInv

LEMMA SendStep ==
  ASSUME IInv, NEW p \in Proc, NEW e \in Email, SendRecoverPasswordEmail(p, e)
  PROVE  IInv'
<1> USE AccountAssumption, IdleTyped DEF NoHash, Put, Goto, Finish, Start, Key
<1>1. TypeOK'
  <2>1. job' \in [Proc -> Job]
    <3>1. [Idle EXCEPT !.op = "send", !.at = "store", !.email = e] \in Job
      BY IdleTyped DEF Job
    <3> QED
      BY <3>1 DEF IInv, TypeOK, SendRecoverPasswordEmail
  <2>2. cache' \in [Email -> Hash] /\ accounts' \in [Email -> {"none", "new", "set"}]
    BY DEF IInv, TypeOK, Job, SendRecoverPasswordEmail
  <2>3. past' \in History
    BY HistoryTyped, RacedTyped DEF IInv, TypeOK, Job, SendRecoverPasswordEmail
  <2>4. (mailed \subseteq past.issued)' /\ calls' \in 0..MaxCalls
    BY DEF IInv, TypeOK, Job, SendRecoverPasswordEmail
  <2>5. (\A q \in Proc : (job[q].at = "count" => job[q].seen.requestId # NoId) /\ (job[q].at \notin {"idle", "store"} => job[q].id # NoId))'
    BY DEF IInv, TypeOK, Job, SendRecoverPasswordEmail
  <2> QED
    BY <2>1, <2>2, <2>3, <2>4, <2>5 DEF TypeOK
<1>2. PhaseInv'
  BY DEF IInv, PhaseInv, TypeOK, SendRecoverPasswordEmail
<1>3. IdInv'
  BY DEF IInv, IdInv, TypeOK, SendRecoverPasswordEmail
<1>4. HomeInv'
  BY DEF IInv, HomeInv, Checks, SendRecoverPasswordEmail
<1>5. SeenInv'
  BY DEF IInv, SeenInv, TypeOK, SendRecoverPasswordEmail
<1>6. AttemptsKept'
  BY DEF IInv, AttemptsKept, TypeOK, SendRecoverPasswordEmail
<1>7. OneUpdateInv'
  BY DEF IInv, OneUpdateInv, Updating, SendRecoverPasswordEmail
<1>8. UsedInv'
  BY DEF IInv, UsedInv, UsedUp, Updating, OneUpdateInv, SendRecoverPasswordEmail
<1>9. PasswordChangesOnce'
  BY DEF IInv, PasswordChangesOnce, TypeOK, SendRecoverPasswordEmail
<1>10. CrossInv'
  BY DEF IInv, CrossInv, Checks, HomeInv, SendRecoverPasswordEmail
<1>11. KeptInv'
  BY DEF IInv, KeptInv, TypeOK, SendRecoverPasswordEmail
<1> QED
  BY <1>1, <1>2, <1>3, <1>4, <1>5, <1>6, <1>7, <1>8, <1>9, <1>10, <1>11 DEF IInv

LEMMA ReadStep ==
  ASSUME IInv, NEW p \in Proc, NEW op \in {"check", "update"}, NEW e \in Email,
         NEW id \in mailed, GetFields(p, op, e, id)
  PROVE  IInv'
<1> USE AccountAssumption, IdleTyped
<1> DEFINE r == IF op = "update" /\ \E q \in Proc : Updating(q, id)
                THEN past.reused \cup {id} ELSE past.reused
           j == [op |-> op, at |-> "count", email |-> e, id |-> id, seen |-> cache[e]]
<1>1. past' = [past EXCEPT !.reused = r]
  BY DEF GetFields
<1>2. id \in past.issued /\ id \in Request /\ r \in SUBSET Request
  BY DEF IInv, TypeOK, History
<1>3. past' \in History
  BY <1>1, <1>2, HistoryTyped DEF IInv, TypeOK
<1>4. /\ past'.issued = past.issued /\ past'.tries = past.tries
      /\ past'.changes = past.changes /\ past'.newest = past.newest
      /\ past'.home = past.home /\ past'.spent = past.spent
      /\ past'.raced = past.raced /\ past'.crossed = past.crossed
      /\ past'.reused = r /\ past.reused \subseteq r
  BY <1>1 DEF IInv, TypeOK, History
<1>5. UNCHANGED <<accounts, cache, mailed>> /\ calls' \in 0..MaxCalls
  BY DEF GetFields, Start, IInv, TypeOK
<1>6. \/ UNCHANGED job
      \/ cache[e].requestId # NoId /\ job[p].at = "idle" /\ job' = [job EXCEPT ![p] = j]
  BY DEF GetFields, Start
<1>7. j \in Job
  BY <1>2 DEF IInv, TypeOK, Job
<1>8. \/ job' = job
      \/ /\ cache[e].requestId # NoId /\ job[p].op = "none"
         /\ job'[p] = j /\ \A q \in Proc \ {p} : job'[q] = job[q]
  BY <1>6 DEF IInv, TypeOK, PhaseInv
<1>10. TypeOK'
  <2>1. job' \in [Proc -> Job]
    BY <1>6, <1>7 DEF IInv, TypeOK
  <2>2. \A q \in Proc : /\ job'[q].at = "count" => job'[q].seen.requestId # NoId
                        /\ job'[q].at \notin {"idle", "store"} => job'[q].id # NoId
    BY <1>2, <1>8 DEF IInv, TypeOK
  <2> QED
    BY <1>3, <1>4, <1>5, <2>1, <2>2 DEF IInv, TypeOK
<1>11. PhaseInv'
  BY <1>8 DEF IInv, PhaseInv
<1>12. IdInv'
  BY <1>2, <1>4, <1>5, <1>8 DEF IInv, IdInv, TypeOK, HomeInv
<1>13. HomeInv'
  BY <1>4, <1>5, <1>8 DEF IInv, HomeInv, Checks
<1>14. SeenInv'
  BY <1>4, <1>5, <1>8 DEF IInv, SeenInv
<1>15. AttemptsKept'
  BY <1>4, <1>5 DEF IInv, AttemptsKept
<1>16. OneUpdateInv'
  BY <1>2, <1>4, <1>8 DEF IInv, OneUpdateInv, Updating
<1>17. UsedInv'
  BY <1>2, <1>4, <1>5, <1>8 DEF IInv, UsedInv, UsedUp, Updating
<1>18. PasswordChangesOnce'
  BY <1>4 DEF IInv, PasswordChangesOnce
<1>19. CrossInv'
  BY <1>4, <1>5, <1>8 DEF IInv, CrossInv, Checks, HomeInv
<1>20. KeptInv'
  BY <1>4, <1>5 DEF IInv, KeptInv
<1> QED
  BY <1>10, <1>11, <1>12, <1>13, <1>14, <1>15, <1>16, <1>17, <1>18, <1>19, <1>20 DEF IInv

-----------------------------------------------------------------------------
LEMMA InitInv == Init => IInv
<1> SUFFICES ASSUME Init PROVE IInv
  OBVIOUS
<1> USE AccountAssumption, IdleTyped DEF Init, NoHash
<1>1. TypeOK
  <2>1. past \in History
    BY DEF History, Job
  <2>2. cache \in [Email -> Hash]
    BY DEF Hash
  <2> QED
    BY <2>1, <2>2 DEF TypeOK
<1>2. PhaseInv /\ IdInv /\ HomeInv /\ SeenInv /\ AttemptsKept
  BY DEF PhaseInv, IdInv, HomeInv, SeenInv, AttemptsKept, Checks
<1>3. OneUpdateInv /\ UsedInv /\ PasswordChangesOnce
  BY DEF OneUpdateInv, UsedInv, UsedUp, PasswordChangesOnce, Updating
<1>4. CrossInv /\ KeptInv
  BY DEF CrossInv, KeptInv, Checks
<1> QED
  BY <1>1, <1>2, <1>3, <1>4 DEF IInv

LEMMA StutterInv == IInv /\ UNCHANGED vars => IInv'
BY DEF vars, IInv, TypeOK, PhaseInv, IdInv, HomeInv, SeenInv, AttemptsKept, OneUpdateInv,
       UsedInv, UsedUp, Updating, PasswordChangesOnce, CrossInv, KeptInv, Checks

LEMMA StepInv == IInv /\ [Next]_vars => IInv'
<1> SUFFICES ASSUME IInv, Next PROVE IInv'
  BY StutterInv
<1>1. PICK p \in Proc :
        \/ Step(p)
        \/ \E e \in Email :
             \/ Create(p, e) \/ SendRecoverPasswordEmail(p, e)
             \/ \E id \in mailed : CheckRecoveryHash(p, e, id) \/ UpdatePassword(p, e, id)
  BY DEF Next
<1>2. CASE Step(p)
  BY <1>2, StoreStep, MailStep, InsertStep, CountStep, PatchStep, NotifyStep, DeleteStep,
     CommitStep, FailStep DEF Step
<1>3. ASSUME NEW e \in Email, Create(p, e) \/ SendRecoverPasswordEmail(p, e) PROVE IInv'
  BY <1>3, CreateStep, SendStep
<1>4. ASSUME NEW e \in Email, NEW id \in mailed,
             CheckRecoveryHash(p, e, id) \/ UpdatePassword(p, e, id)
      PROVE  IInv'
  BY <1>4, ReadStep DEF CheckRecoveryHash, UpdatePassword
<1> QED
  BY <1>1, <1>2, <1>3, <1>4

\* The invariant holds of every run of the recovery requests.
THEOREM AccountInvariant == Spec => []IInv
  BY InitInv, StepInv, PTL DEF Spec

\* TypeOK, for any e-mails, requests and limits (user.service.ts).
THEOREM AccountTypes == Spec => []TypeOK
<1>1. IInv => TypeOK
  BY DEF IInv
<1> QED
  BY AccountInvariant, <1>1, PTL

\* AttemptsKept: without a race the attempts stay below the limit, for any number
\* of calls under way (checkRecoveryHashInner).
THEOREM AttemptsBounded == Spec => []AttemptsKept
<1>1. IInv => AttemptsKept
  BY DEF IInv
<1> QED
  BY AccountInvariant, <1>1, PTL

\* PasswordChangesOnce: one request sets one password unless two updates had it
\* at once (updatePassword).
THEOREM OneChangePerRequest == Spec => []PasswordChangesOnce
<1>1. IInv => PasswordChangesOnce
  BY DEF IInv
<1> QED
  BY AccountInvariant, <1>1, PTL

\* UnspentRequestKept: the newest request of an e-mail is there until it is used or
\* used up (updatePassword, checkRecoveryHashInner).
THEOREM NewestRequestKept == Spec => []UnspentRequestKept
<1>1. IInv => UnspentRequestKept
  BY DEF IInv, KeptInv, UnspentRequestKept
<1> QED
  BY AccountInvariant, <1>1, PTL
=============================================================================
