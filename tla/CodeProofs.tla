----------------------------- MODULE CodeProofs -----------------------------
(***************************************************************************)
(* Proofs about login codes, for any number of calls and codes, any window *)
(* between messages, lifetime and limit of wrong answers.  Most of it is   *)
(* said of runs in which no record changed under a call that had read it:  *)
(* what the code promises when it does not, the model shows it to break.   *)
(***************************************************************************)
EXTENDS Codes, TLAPS

\* A call that sends a code, one that keeps it, and one that has read a record.
Sends(p) == job[p].at \in {"sms", "store"}
Reads(p) == job[p].at \in {"drop", "delete", "count"}
CodeOf(p) == job[p].codeData.code

\* A code on its way is nobody else's, and new: nothing was made of it yet.
SenderInv ==
  \A p \in Proc : Sends(p) =>
    /\ job[p].codeData.countOfBadAttempts = 0
    /\ job[p].codeData.createdAt <= clock
    /\ past.sent[CodeOf(p)] <=> job[p].at = "store"
    /\ job[p].at = "store" => past.madeAt[CodeOf(p)] = job[p].codeData.createdAt
    /\ cached.code # CodeOf(p)
    /\ \A q \in Proc \ {p} : Pending(q) => CodeOf(q) # CodeOf(p)

\* Of a code that is not kept yet, no answer was counted.
NewCodeInv ==
  /\ \A c \in Code : ~past.sent[c] \/ (\E p \in Proc : Sends(p) /\ CodeOf(p) = c) =>
       past.wrong[c] = 0 /\ past.logins[c] = 0
  /\ \A c \in Code : ~past.sent[c] =>
       /\ cached.code # c /\ past.newest # c
       /\ \A p \in Proc : Reads(p) => CodeOf(p) # c

\* What a call has read is still so, and it counts only below the limit.
ReaderInv ==
  /\ \A p \in Proc : job[p].at = "count" => job[p].codeData.countOfBadAttempts < MaxBad
  /\ ~past.raced => \A p \in Proc : Reads(p) => job[p].codeData = cached

\* A code that is kept has logged nobody in.
KeptInv == ~past.raced => \A c \in Code : cached.code = c => past.logins[c] = 0

\* A call that is to store an older code than the newest will find it lost.
NewestInv ==
  ~past.raced => \A p \in Proc : job[p].at = "store" =>
    \/ past.newest \in past.lost
    \/ \E q \in Proc : job[q].at = "store" /\ CodeOf(q) = past.newest

\* Codes that were stored, and neither used nor given up.
Standing(c) == /\ past.sent[c] /\ c \notin past.spent \cup past.lost
               /\ \A p \in Proc : job[p].at = "store" => CodeOf(p) # c

\* Such a code is kept, or the time for another one has come; it had come when a
\* call that is sending one began.
SpacingInv ==
  ~past.raced => \A c \in Code : Standing(c) =>
    /\ \/ cached.code = c /\ cached.createdAt = past.madeAt[c]
       \/ past.madeAt[c] + Resend <= clock
    /\ \A p \in Proc : Sends(p) => past.madeAt[c] + Resend <= job[p].codeData.createdAt
    /\ \A d \in Code : Standing(d) /\ c # d /\ past.madeAt[c] <= past.madeAt[d] =>
         past.madeAt[c] + Resend <= past.madeAt[d]

Inv == /\ TypeOK /\ SenderInv /\ NewCodeInv /\ ReaderInv /\ KeptInv
       /\ AnswersCounted /\ NewestInv /\ NewestCodeKept /\ SpacingInv

-----------------------------------------------------------------------------
Job == [at : {"idle", "sms", "store", "drop", "delete", "count"}, codeData : CodeDataStorage]

LEMMA JobTyped ==
  ASSUME TypeOK, NEW p \in Proc
  PROVE  /\ job[p] \in Job
         /\ job[p].at \in {"idle", "sms", "store", "drop", "delete", "count"}
         /\ job[p].codeData \in CodeDataStorage
         /\ CodeOf(p) \in Code \cup {NoCode}
         /\ job[p].codeData.createdAt \in Nat
         /\ job[p].codeData.countOfBadAttempts \in Nat
         /\ Pending(p) => CodeOf(p) \in Code
         /\ Sends(p) \/ Reads(p) <=> Pending(p)
<1>1. /\ job[p] \in Job
      /\ Pending(p) => CodeOf(p) # NoCode
  BY DEF TypeOK, Job, CodeOf
<1>2. /\ job[p].at \in {"idle", "sms", "store", "drop", "delete", "count"}
      /\ job[p].codeData \in CodeDataStorage
  BY <1>1 DEF Job
<1>3. /\ CodeOf(p) \in Code \cup {NoCode}
      /\ job[p].codeData.createdAt \in Nat
      /\ job[p].codeData.countOfBadAttempts \in Nat
  BY <1>2 DEF CodeDataStorage, CodeOf
<1> QED
  BY <1>1, <1>2, <1>3 DEF Pending, Sends, Reads

LEMMA HistoryTyped ==
  ASSUME TypeOK
  PROVE  /\ past.newest \in Code \cup {NoCode} /\ past.sent \in [Code -> BOOLEAN]
         /\ past.madeAt \in [Code -> Nat] /\ past.wrong \in [Code -> Nat]
         /\ past.logins \in [Code -> Nat] /\ past.spent \subseteq Code
         /\ past.lost \subseteq Code /\ past.raced \in BOOLEAN
         /\ cached.code \in Code \cup {NoCode} /\ cached.createdAt \in Nat
         /\ cached.countOfBadAttempts \in Nat /\ cached \in CodeDataStorage
         /\ clock \in Nat
  BY CodeAssumption DEF TypeOK, CodeDataStorage

LEMMA NothingKept == NoRecord \in CodeDataStorage /\ NoRecord.code = NoCode /\ NoCode \notin Code
  BY CodeAssumption DEF NoRecord, CodeDataStorage

LEMMA StartTyped ==
  ASSUME TypeOK, NEW p \in Proc, NEW j \in Job, Start(p, j), j.codeData.code # NoCode
  PROVE  /\ job[p].at = "idle" /\ calls' \in 0..MaxCalls
         /\ job' \in [Proc -> Job]
         /\ \A q \in Proc : job'[q] = IF q = p THEN j ELSE job[q]
         /\ \A q \in Proc : Pending(q)' => job'[q].codeData.code # NoCode
<1>1. /\ job[p].at = "idle" /\ calls < MaxCalls /\ calls' = calls + 1
      /\ job' = [job EXCEPT ![p] = j] /\ job \in [Proc -> Job]
  BY DEF Start, TypeOK, Job
<1>2. /\ job' \in [Proc -> Job]
      /\ \A q \in Proc : job'[q] = IF q = p THEN j ELSE job[q]
  BY <1>1
<1>3. calls' \in 0..MaxCalls
  BY <1>1, CodeAssumption DEF TypeOK
<1> QED
  BY <1>1, <1>2, <1>3 DEF TypeOK, Pending

LEMMA FinishTyped ==
  ASSUME TypeOK, NEW p \in Proc, Finish(p)
  PROVE  /\ calls' = calls /\ job' \in [Proc -> Job]
         /\ job'[p].at = "idle" /\ \A q \in Proc : q # p => job'[q] = job[q]
         /\ \A q \in Proc : Pending(q)' => q # p /\ job'[q].codeData.code # NoCode
<1>1. Idle \in Job /\ Idle.at = "idle"
  BY NothingKept DEF Idle, Job
<1>2. calls' = calls /\ job' = [job EXCEPT ![p] = Idle] /\ job \in [Proc -> Job]
  BY DEF Finish, TypeOK, Job
<1> QED
  BY <1>1, <1>2 DEF TypeOK, Pending

\* A record written where nothing races: no other call is under way.
LEMMA Alone ==
  ASSUME NEW p \in Proc, ~Races(p)
  PROVE  ~past.raced /\ \A q \in Proc \ {p} : ~Pending(q)
  BY DEF Races

LEMMA InitInv == Init => Inv
<1> SUFFICES ASSUME Init PROVE Inv
  OBVIOUS
<1>1. /\ cached = NoRecord /\ clock = 0 /\ calls = 0 /\ job = [p \in Proc |-> Idle]
      /\ \A p \in Proc : job[p] = Idle
      /\ past.newest = NoCode /\ past.sent = [c \in Code |-> FALSE]
      /\ past.madeAt = [c \in Code |-> 0] /\ past.wrong = [c \in Code |-> 0]
      /\ past.logins = [c \in Code |-> 0] /\ past.spent = {} /\ past.lost = {}
      /\ past.raced = FALSE
  BY DEF Init
<1>2. Idle \in Job /\ Idle.at = "idle"
  BY NothingKept DEF Idle, Job
<1>3. past \in [newest : Code \cup {NoCode}, sent : [Code -> BOOLEAN], madeAt : [Code -> Nat],
                wrong : [Code -> Nat], logins : [Code -> Nat], spent : SUBSET Code,
                lost : SUBSET Code, raced : BOOLEAN]
  BY DEF Init
<1>4. TypeOK
  BY <1>1, <1>2, <1>3, NothingKept, CodeAssumption DEF TypeOK, Job, Pending
<1>5. SenderInv /\ NewCodeInv /\ ReaderInv /\ KeptInv /\ NewestInv
  BY <1>1, <1>2, NothingKept DEF SenderInv, NewCodeInv, ReaderInv, KeptInv, NewestInv, Sends, Reads
<1>6. AnswersCounted /\ NewestCodeKept /\ SpacingInv
  BY <1>1, NothingKept, CodeAssumption DEF AnswersCounted, NewestCodeKept, SpacingInv, Standing
<1> QED
  BY <1>4, <1>5, <1>6 DEF Inv

-----------------------------------------------------------------------------
\* A code is made: it is new, and where nothing races the time for it has come.
LEMMA LoginSendCodeInv ==
  ASSUME Inv, NEW p \in Proc, LoginSendCode(p)
  PROVE  Inv'
<1>0. TypeOK /\ SenderInv /\ NewCodeInv /\ ReaderInv /\ KeptInv
      /\ AnswersCounted /\ NewestInv /\ NewestCodeKept /\ SpacingInv
  BY DEF Inv
<1>1. PICK c \in Code :
        /\ ~past.sent[c] /\ \A q \in Proc : Pending(q) => job[q].codeData.code # c
        /\ Start(p, [at |-> "sms",
                     codeData |-> [code |-> c, createdAt |-> clock, countOfBadAttempts |-> 0]])
  BY DEF LoginSendCode
<1>2. /\ cached.code = NoCode \/ clock - cached.createdAt >= Resend
      /\ UNCHANGED <<cached, clock, past>>
  BY DEF LoginSendCode
<1> DEFINE j == [at |-> "sms",
                 codeData |-> [code |-> c, createdAt |-> clock, countOfBadAttempts |-> 0]]
<1>3. j \in Job /\ j.codeData.code # NoCode
  BY <1>0, HistoryTyped, CodeAssumption DEF Job, CodeDataStorage
<1>4. /\ job[p].at = "idle" /\ calls' \in 0..MaxCalls /\ job' \in [Proc -> Job]
      /\ \A q \in Proc : job'[q] = IF q = p THEN j ELSE job[q]
      /\ \A q \in Proc : Pending(q)' => job'[q].codeData.code # NoCode
  BY <1>0, <1>1, <1>3, StartTyped
<1>5. TypeOK'
  BY <1>0, <1>2, <1>4 DEF TypeOK, Job
<1>6. /\ job'[p] = j /\ \A q \in Proc : q # p => job'[q] = job[q]
      /\ \A q \in Proc : job'[q].at = "store" <=> job[q].at = "store"
      /\ \A q \in Proc : job'[q].at = "store" => q # p
  BY <1>4
<1>7. cached.code # c /\ past.wrong[c] = 0 /\ past.logins[c] = 0
  BY <1>0, <1>1 DEF NewCodeInv
<1>8. SenderInv'
  BY <1>0, <1>1, <1>2, <1>6, <1>7, HistoryTyped DEF SenderInv, Sends, CodeOf, Pending
<1>9. NewCodeInv'
  BY <1>0, <1>1, <1>2, <1>6, <1>7 DEF NewCodeInv, Sends, Reads, CodeOf
<1>10. ReaderInv' /\ KeptInv'
  BY <1>0, <1>2, <1>6 DEF ReaderInv, KeptInv, Reads
<1>11. AnswersCounted'
  BY <1>0, <1>2 DEF AnswersCounted
<1>12. NewestInv' /\ NewestCodeKept'
  BY <1>0, <1>2, <1>6 DEF NewestInv, NewestCodeKept, CodeOf
<1>13. \A d \in Code : Standing(d)' <=> Standing(d)
  BY <1>2, <1>6 DEF Standing, CodeOf
<1>14. SpacingInv'
  <2> SUFFICES ASSUME ~past.raced, NEW d \in Code, Standing(d)
               PROVE  /\ \/ cached.code = d /\ cached.createdAt = past.madeAt[d]
                         \/ past.madeAt[d] + Resend <= clock
                      /\ \A q \in Proc : Sends(q)' =>
                           past.madeAt[d] + Resend <= job'[q].codeData.createdAt
                      /\ \A e \in Code : Standing(e) /\ d # e /\ past.madeAt[d] <= past.madeAt[e] =>
                           past.madeAt[d] + Resend <= past.madeAt[e]
    BY <1>2, <1>13 DEF SpacingInv
  <2>1. past.madeAt[d] + Resend <= clock
    BY <1>0, <1>2, HistoryTyped, CodeAssumption DEF SpacingInv
  <2> QED
    BY <1>0, <1>6, <2>1 DEF SpacingInv, Sends
<1> QED
  BY <1>5, <1>8, <1>9, <1>10, <1>11, <1>12, <1>14 DEF Inv

\* The message is sent: its code is the newest, and is to be stored.
LEMMA SendSmsInv ==
  ASSUME Inv, NEW p \in Proc, SendSms(p)
  PROVE  Inv'
<1>0. TypeOK /\ SenderInv /\ NewCodeInv /\ ReaderInv /\ KeptInv
      /\ AnswersCounted /\ NewestInv /\ NewestCodeKept /\ SpacingInv
  BY DEF Inv
<1> DEFINE c == job[p].codeData.code
           j == [job[p] EXCEPT !.at = "store"]
<1>1. /\ job[p].at = "sms" /\ job' = [job EXCEPT ![p].at = "store"]
      /\ past' = [past EXCEPT !.newest = c, !.sent[c] = TRUE,
                              !.madeAt[c] = job[p].codeData.createdAt]
      /\ UNCHANGED <<cached, clock, calls>>
  BY DEF SendSms
<1>2. /\ job[p] \in Job /\ c \in Code /\ job[p].codeData.createdAt \in Nat
      /\ Sends(p) /\ Pending(p)
  BY <1>0, <1>1, JobTyped DEF Pending, CodeOf, Sends
<1>3. j \in Job /\ j.at = "store" /\ j.codeData = job[p].codeData
  BY <1>2 DEF Job
<1>4. /\ job' \in [Proc -> Job]
      /\ \A q \in Proc : job'[q] = IF q = p THEN j ELSE job[q]
  BY <1>0, <1>1, <1>3 DEF TypeOK, Job
<1>5. /\ job'[p].at = "store" /\ \A q \in Proc : q # p => job'[q] = job[q]
      /\ \A q \in Proc : job'[q].codeData = job[q].codeData
      /\ \A q \in Proc : (Sends(q)' <=> Sends(q)) /\ (Pending(q)' <=> Pending(q))
                         /\ (Reads(q)' <=> Reads(q))
  BY <1>1, <1>3, <1>4 DEF Sends, Pending, Reads
<1>6. /\ past'.newest = c /\ past'.wrong = past.wrong /\ past'.logins = past.logins
      /\ past'.spent = past.spent /\ past'.lost = past.lost /\ past'.raced = past.raced
      /\ past'.sent \in [Code -> BOOLEAN] /\ past'.madeAt \in [Code -> Nat]
      /\ \A d \in Code : past'.sent[d] = (d = c \/ past.sent[d])
      /\ \A d \in Code : past'.madeAt[d] = IF d = c THEN job[p].codeData.createdAt
                                                   ELSE past.madeAt[d]
  BY <1>0, <1>1, <1>2 DEF TypeOK
<1>7. past' \in [newest : Code \cup {NoCode}, sent : [Code -> BOOLEAN], madeAt : [Code -> Nat],
                 wrong : [Code -> Nat], logins : [Code -> Nat], spent : SUBSET Code,
                 lost : SUBSET Code, raced : BOOLEAN]
  BY <1>0, <1>1, <1>2, <1>6 DEF TypeOK
<1>8. TypeOK'
  <2>1. cached' \in CodeDataStorage /\ clock' \in 0..MaxTime /\ calls' \in 0..MaxCalls
    BY <1>0, <1>1 DEF TypeOK
  <2>2. \A q \in Proc : Pending(q)' => job'[q].codeData.code # NoCode
    BY <1>0, <1>5 DEF TypeOK
  <2> QED
    BY <1>4, <1>7, <2>1, <2>2 DEF TypeOK, Job
<1>9. /\ ~past.sent[c] /\ cached.code # c
      /\ \A q \in Proc \ {p} : Pending(q) => CodeOf(q) # c
  BY <1>0, <1>1, <1>2 DEF SenderInv, CodeOf
<1>10. \A q \in Proc : Sends(q) => CodeOf(q) \in Code /\ Pending(q)
  BY <1>0, JobTyped
<1>11. SenderInv'
  <2> SUFFICES ASSUME NEW q \in Proc, Sends(q)
               PROVE  /\ job[q].codeData.countOfBadAttempts = 0
                      /\ job[q].codeData.createdAt <= clock
                      /\ past'.sent[CodeOf(q)] <=> job'[q].at = "store"
                      /\ job'[q].at = "store" =>
                           past'.madeAt[CodeOf(q)] = job[q].codeData.createdAt
                      /\ cached.code # CodeOf(q)
                      /\ \A r \in Proc \ {q} : Pending(r) => CodeOf(r) # CodeOf(q)
    BY <1>1, <1>5 DEF SenderInv, CodeOf
  <2>1. CASE q = p
    BY <1>0, <1>2, <1>5, <1>6, <2>1 DEF SenderInv, CodeOf
  <2>2. CASE q # p
    BY <1>0, <1>5, <1>6, <1>9, <1>10, <2>2 DEF SenderInv
  <2> QED
    BY <2>1, <2>2
<1>12. NewCodeInv'
  BY <1>0, <1>1, <1>2, <1>5, <1>6 DEF NewCodeInv, CodeOf, Sends, Reads
<1>13. ReaderInv' /\ KeptInv'
  BY <1>0, <1>1, <1>5, <1>6 DEF ReaderInv, KeptInv, Reads
<1>14. AnswersCounted'
  BY <1>0, <1>1, <1>6 DEF AnswersCounted
<1>15. NewestInv' /\ NewestCodeKept'
  BY <1>2, <1>5, <1>6 DEF NewestInv, NewestCodeKept, CodeOf
<1>16. \A d \in Code : Standing(d)' => d # c /\ Standing(d) /\ past'.madeAt[d] = past.madeAt[d]
  BY <1>5, <1>6, <1>1 DEF Standing, CodeOf
<1>17. SpacingInv'
  BY <1>0, <1>1, <1>5, <1>6, <1>16 DEF SpacingInv
<1> QED
  BY <1>8, <1>11, <1>12, <1>13, <1>14, <1>15, <1>17 DEF Inv

\* The record is stored: where nothing races nobody else is under way, and the code
\* takes the place of one that is old enough.
LEMMA StoreInv ==
  ASSUME Inv, NEW p \in Proc, Store(p)
  PROVE  Inv'
<1>0. TypeOK /\ SenderInv /\ NewCodeInv /\ ReaderInv /\ KeptInv
      /\ AnswersCounted /\ NewestInv /\ NewestCodeKept /\ SpacingInv
  BY DEF Inv
<1> DEFINE c == CodeOf(p)
<1>1. /\ job[p].at = "store" /\ Finish(p) /\ cached' = job[p].codeData
      /\ past' = [past EXCEPT !.raced = Races(p)] /\ UNCHANGED clock
  BY DEF Store
<1>2. /\ c \in Code /\ Sends(p) /\ Pending(p) /\ cached'.code = c
      /\ cached' \in CodeDataStorage
      /\ cached'.createdAt \in Nat /\ cached'.countOfBadAttempts = 0
  BY <1>0, <1>1, JobTyped DEF Pending, CodeOf, Sends, SenderInv
<1>3. /\ calls' = calls /\ job' \in [Proc -> Job]
      /\ job'[p].at = "idle" /\ \A q \in Proc : q # p => job'[q] = job[q]
      /\ \A q \in Proc : Pending(q)' => q # p /\ job'[q].codeData.code # NoCode
  BY <1>0, <1>1, FinishTyped
<1>4. /\ past'.newest = past.newest /\ past'.sent = past.sent /\ past'.madeAt = past.madeAt
      /\ past'.wrong = past.wrong /\ past'.logins = past.logins
      /\ past'.spent = past.spent /\ past'.lost = past.lost /\ past'.raced = Races(p)
      /\ past' \in [newest : Code \cup {NoCode}, sent : [Code -> BOOLEAN], madeAt : [Code -> Nat],
                    wrong : [Code -> Nat], logins : [Code -> Nat], spent : SUBSET Code,
                    lost : SUBSET Code, raced : BOOLEAN]
  BY <1>0, <1>1 DEF TypeOK, Races
<1>5. TypeOK'
  BY <1>0, <1>1, <1>2, <1>3, <1>4 DEF TypeOK, Job
<1>6. /\ past.wrong[c] = 0 /\ past.logins[c] = 0 /\ past.sent[c]
      /\ past.madeAt[c] = job[p].codeData.createdAt /\ job[p].codeData.createdAt <= clock
      /\ \A q \in Proc \ {p} : Pending(q) => CodeOf(q) # c
  BY <1>0, <1>1, <1>2 DEF NewCodeInv, SenderInv
<1>7. \A q \in Proc : Sends(q)' => q # p /\ job'[q] = job[q] /\ Sends(q) /\ Pending(q)
  BY <1>3 DEF Sends, Pending
<1>8. SenderInv'
  BY <1>0, <1>1, <1>2, <1>3, <1>4, <1>6, <1>7 DEF SenderInv, CodeOf, Pending
<1>9. NewCodeInv'
  BY <1>0, <1>2, <1>3, <1>4, <1>6, <1>7 DEF NewCodeInv, CodeOf, Reads
<1>10. /\ \A q \in Proc : job'[q].at # "idle" => q # p /\ job'[q] = job[q]
       /\ ~past'.raced => ~past.raced /\ \A q \in Proc : job'[q].at = "idle"
  BY <1>3, <1>4, Alone DEF Pending
<1>11. ReaderInv' /\ KeptInv' /\ NewestInv'
  BY <1>0, <1>2, <1>4, <1>6, <1>10 DEF ReaderInv, KeptInv, NewestInv, Reads
<1>12. AnswersCounted'
  BY <1>0, <1>2, <1>4, <1>6, <1>10 DEF AnswersCounted
<1>13. NewestCodeKept'
  <2> SUFFICES ASSUME ~past'.raced, past.newest # NoCode
               PROVE  c = past.newest \/ past.newest \in past.spent \cup past.lost
    BY <1>2, <1>4 DEF NewestCodeKept
  <2>1. \A q \in Proc : job[q].at = "store" => q = p
    BY <1>3, <1>10
  <2> QED
    BY <1>0, <1>1, <1>10, <2>1 DEF NewestInv
<1>14. SpacingInv'
  <2> SUFFICES ASSUME ~past'.raced
               PROVE  \A d \in Code : Standing(d)' =>
                 /\ \/ c = d /\ job[p].codeData.createdAt = past.madeAt[d]
                    \/ past.madeAt[d] + Resend <= clock
                 /\ \A e \in Code : Standing(e)' /\ d # e /\ past.madeAt[d] <= past.madeAt[e] =>
                      past.madeAt[d] + Resend <= past.madeAt[e]
    BY <1>1, <1>2, <1>4, <1>10 DEF SpacingInv, Sends
  <2>1. \A d \in Code : Standing(d)' /\ d # c => Standing(d)
    <3> SUFFICES ASSUME NEW d \in Code, Standing(d)', d # c PROVE Standing(d)
      OBVIOUS
    <3>1. \A q \in Proc : job[q].at = "store" => CodeOf(q) # d
      BY <1>3, <1>10
    <3> QED
      BY <1>4, <3>1 DEF Standing
  <2>2. \A d \in Code : Standing(d) => past.madeAt[d] + Resend <= past.madeAt[c]
    BY <1>0, <1>2, <1>6, <1>10 DEF SpacingInv
  <2>3. \A d \in Code : past.madeAt[d] \in Nat
    BY <1>0, HistoryTyped
  <2>4. clock \in Nat /\ Resend \in Nat
    BY <1>0, HistoryTyped, CodeAssumption
  <2> TAKE d \in Code
  <2> HAVE Standing(d)'
  <2>5. \/ c = d /\ job[p].codeData.createdAt = past.madeAt[d]
        \/ past.madeAt[d] + Resend <= clock
    BY <1>2, <1>6, <2>1, <2>2, <2>3, <2>4
  <2>6. ASSUME NEW e \in Code, Standing(e)', d # e, past.madeAt[d] <= past.madeAt[e]
        PROVE  past.madeAt[d] + Resend <= past.madeAt[e]
    <3>1. CASE d # c /\ e # c
      BY <1>0, <1>10, <2>1, <2>6, <3>1 DEF SpacingInv
    <3>2. CASE e = c
      BY <2>1, <2>2, <2>6, <3>2
    <3>3. CASE d = c
      BY <1>2, <2>1, <2>2, <2>3, <2>4, <2>6, <3>3
    <3> QED
      BY <3>1, <3>2, <3>3
  <2> QED
    BY <2>5, <2>6
<1> QED
  BY <1>5, <1>8, <1>9, <1>11, <1>12, <1>13, <1>14 DEF Inv

-----------------------------------------------------------------------------
\* The record is read, and decided on.
LEMMA ValidateInv ==
  ASSUME Inv, NEW p \in Proc, NEW code \in Code \cup {NoCode}, ValidateByPhone(p, code)
  PROVE  Inv'
<1>0. TypeOK /\ SenderInv /\ NewCodeInv /\ ReaderInv /\ KeptInv
      /\ AnswersCounted /\ NewestInv /\ NewestCodeKept /\ SpacingInv
  BY DEF Inv
<1> DEFINE valid == /\ clock <= cached.createdAt + Lifetime
                    /\ cached.countOfBadAttempts < MaxBad
           j == [at |-> CASE ~valid -> "drop"
                          [] valid /\ cached.code = code -> "delete"
                          [] OTHER -> "count",
                 codeData |-> cached]
<1>1. cached.code # NoCode /\ Start(p, j) /\ UNCHANGED <<cached, clock, past>>
  BY DEF ValidateByPhone
<1>2. /\ j.at \in {"drop", "delete", "count"} /\ j.codeData = cached
      /\ j.at = "count" => cached.countOfBadAttempts < MaxBad
  OBVIOUS
<1> HIDE DEF valid
<1>3. j \in Job /\ j.codeData.code # NoCode
  BY <1>0, <1>1, <1>2, HistoryTyped DEF Job
<1> HIDE DEF j
<1>4. /\ job[p].at = "idle" /\ calls' \in 0..MaxCalls /\ job' \in [Proc -> Job]
      /\ \A q \in Proc : job'[q] = IF q = p THEN j ELSE job[q]
      /\ \A q \in Proc : Pending(q)' => job'[q].codeData.code # NoCode
  BY <1>0, <1>1, <1>3, StartTyped
<1>5. TypeOK'
  BY <1>0, <1>1, <1>4 DEF TypeOK, Job
<1>6. /\ job'[p] = j /\ \A q \in Proc : q # p => job'[q] = job[q]
      /\ \A q \in Proc : job'[q].at = "store" <=> job[q].at = "store"
      /\ \A q \in Proc : job'[q].at = "store" => q # p
      /\ \A q \in Proc : Sends(q)' => q # p /\ Sends(q) /\ job'[q] = job[q]
  BY <1>2, <1>4 DEF Sends
<1>7. SenderInv'
  BY <1>0, <1>1, <1>2, <1>6 DEF SenderInv, CodeOf, Pending
<1>8. NewCodeInv'
  BY <1>0, <1>1, <1>2, <1>6 DEF NewCodeInv, Reads, CodeOf
<1>9. ReaderInv' /\ KeptInv'
  BY <1>0, <1>1, <1>2, <1>6 DEF ReaderInv, KeptInv, Reads
<1>10. AnswersCounted'
  BY <1>0, <1>1 DEF AnswersCounted
<1>11. NewestInv' /\ NewestCodeKept'
  BY <1>0, <1>1, <1>6 DEF NewestInv, NewestCodeKept, CodeOf
<1>12. \A d \in Code : Standing(d)' <=> Standing(d)
  BY <1>1, <1>6 DEF Standing, CodeOf
<1>13. SpacingInv'
  BY <1>0, <1>1, <1>6, <1>12 DEF SpacingInv
<1> QED
  BY <1>5, <1>7, <1>8, <1>9, <1>10, <1>11, <1>13 DEF Inv

\* The record is deleted, of a code that was given up or has just been used: where
\* nothing races it is the record that was read.
LEMMA ForgetInv ==
  ASSUME Inv, NEW p \in Proc, Drop(p) \/ Delete(p)
  PROVE  Inv'
<1>0. TypeOK /\ SenderInv /\ NewCodeInv /\ ReaderInv /\ KeptInv
      /\ AnswersCounted /\ NewestInv /\ NewestCodeKept /\ SpacingInv
  BY DEF Inv
<1> DEFINE c == CodeOf(p)
<1>1. /\ Reads(p) /\ Finish(p) /\ cached' = NoRecord /\ UNCHANGED clock
      /\ \/ past' = [past EXCEPT !.spent = @ \cup {c}, !.raced = Races(p)]
         \/ past' = [past EXCEPT !.spent = @ \cup {c}, !.logins[c] = @ + 1, !.raced = Races(p)]
  BY DEF Drop, Delete, Reads, CodeOf
<1>2. /\ c \in Code /\ Pending(p) /\ ~Sends(p)
      /\ cached'.code = NoCode /\ cached' \in CodeDataStorage /\ NoCode \notin Code
  BY <1>0, <1>1, JobTyped, NothingKept DEF Reads, Sends, Pending
<1>3. /\ calls' = calls /\ job' \in [Proc -> Job]
      /\ job'[p].at = "idle" /\ \A q \in Proc : q # p => job'[q] = job[q]
      /\ \A q \in Proc : Pending(q)' => q # p /\ job'[q].codeData.code # NoCode
  BY <1>0, <1>1, FinishTyped
<1>4. /\ past'.newest = past.newest /\ past'.sent = past.sent /\ past'.madeAt = past.madeAt
      /\ past'.wrong = past.wrong /\ past'.lost = past.lost
      /\ past'.spent = past.spent \cup {c} /\ past'.raced = Races(p)
      /\ past'.logins \in [Code -> Nat]
      /\ \A d \in Code : d # c => past'.logins[d] = past.logins[d]
      /\ past'.logins[c] \in {past.logins[c], past.logins[c] + 1}
      /\ past' \in [newest : Code \cup {NoCode}, sent : [Code -> BOOLEAN], madeAt : [Code -> Nat],
                    wrong : [Code -> Nat], logins : [Code -> Nat], spent : SUBSET Code,
                    lost : SUBSET Code, raced : BOOLEAN]
  <2>1. CASE past' = [past EXCEPT !.spent = @ \cup {c}, !.raced = Races(p)]
    BY <1>0, <1>2, <2>1 DEF TypeOK, Races
  <2>2. CASE past' = [past EXCEPT !.spent = @ \cup {c}, !.logins[c] = @ + 1, !.raced = Races(p)]
    <3> DEFINE logins == [past.logins EXCEPT ![c] = @ + 1]
    <3>1. /\ logins \in [Code -> Nat] /\ logins[c] = past.logins[c] + 1
          /\ \A d \in Code : d # c => logins[d] = past.logins[d]
      BY <1>0, <1>2, HistoryTyped
    <3>2. past' = [past EXCEPT !.spent = @ \cup {c}, !.logins = logins, !.raced = Races(p)]
      BY <2>2
    <3> HIDE DEF logins
    <3> QED
      BY <1>0, <1>2, <3>1, <3>2 DEF TypeOK, Races
  <2> QED
    BY <1>1, <2>1, <2>2
<1>5. TypeOK'
  BY <1>0, <1>1, <1>2, <1>3, <1>4 DEF TypeOK, Job
<1>6. \A q \in Proc : Sends(q)' => q # p /\ job'[q] = job[q] /\ Sends(q) /\ Pending(q)
  BY <1>3 DEF Sends, Pending
<1>7. \A q \in Proc : Sends(q) => CodeOf(q) \in Code /\ CodeOf(q) # c
  BY <1>0, <1>2, JobTyped DEF SenderInv, Sends, Pending
<1>8. past.sent[c]
  BY <1>0, <1>1, <1>2 DEF NewCodeInv
<1>9. SenderInv'
  BY <1>0, <1>1, <1>2, <1>3, <1>4, <1>6, <1>7 DEF SenderInv, CodeOf, Pending
<1>10. NewCodeInv'
  BY <1>0, <1>2, <1>3, <1>4, <1>6, <1>7, <1>8 DEF NewCodeInv, CodeOf, Reads
<1>11. /\ \A q \in Proc : job'[q].at # "idle" => q # p /\ job'[q] = job[q]
       /\ ~past'.raced => ~past.raced /\ \A q \in Proc : job'[q].at = "idle"
  BY <1>3, <1>4, Alone DEF Pending
<1>12. ReaderInv' /\ KeptInv' /\ NewestInv'
  BY <1>0, <1>2, <1>4, <1>11 DEF ReaderInv, KeptInv, NewestInv, Reads
<1>13. ~past.raced => cached.code = c
  BY <1>0, <1>1 DEF ReaderInv, CodeOf
<1>14. AnswersCounted'
  <2> SUFFICES ASSUME ~past'.raced, NEW d \in Code
               PROVE  past.wrong[d] <= MaxBad /\ past'.logins[d] <= 1
    BY <1>2, <1>4 DEF AnswersCounted
  <2>1. ~past.raced /\ past.wrong[d] <= MaxBad /\ past.logins[d] <= 1 /\ past.logins[d] \in Nat
    BY <1>0, <1>11, HistoryTyped DEF AnswersCounted
  <2>2. CASE d = c
    BY <1>0, <1>2, <1>4, <1>13, <2>1, <2>2 DEF KeptInv
  <2>3. CASE d # c
    BY <1>4, <2>1, <2>3
  <2> QED
    BY <2>2, <2>3
<1>15. NewestCodeKept'
  BY <1>0, <1>1, <1>4, <1>11, <1>13, <1>3 DEF NewestCodeKept, CodeOf, Reads
<1>16. \A d \in Code : Standing(d)' => Standing(d) /\ d # c
  <2> SUFFICES ASSUME NEW d \in Code, Standing(d)' PROVE Standing(d) /\ d # c
    OBVIOUS
  <2>1. \A q \in Proc : job[q].at = "store" => q # p /\ job'[q] = job[q]
    BY <1>2, <1>3 DEF Sends
  <2> QED
    BY <1>4, <2>1 DEF Standing, CodeOf
<1>17. SpacingInv'
  BY <1>0, <1>1, <1>4, <1>6, <1>11, <1>13, <1>16 DEF SpacingInv
<1> QED
  BY <1>5, <1>9, <1>10, <1>12, <1>14, <1>15, <1>17 DEF Inv

\* A wrong answer is counted: where nothing races, in the record that was read.
LEMMA CountInv ==
  ASSUME Inv, NEW p \in Proc, Count(p)
  PROVE  Inv'
<1>0. TypeOK /\ SenderInv /\ NewCodeInv /\ ReaderInv /\ KeptInv
      /\ AnswersCounted /\ NewestInv /\ NewestCodeKept /\ SpacingInv
  BY DEF Inv
<1> DEFINE data == job[p].codeData
           c == CodeOf(p)
<1>1. /\ job[p].at = "count" /\ Finish(p) /\ UNCHANGED clock
      /\ cached' = [data EXCEPT !.countOfBadAttempts = @ + 1]
      /\ past' = [past EXCEPT !.wrong[c] = @ + 1, !.raced = Races(p)]
  BY DEF Count, CodeOf
<1>2. /\ c \in Code /\ Pending(p) /\ Reads(p) /\ ~Sends(p) /\ data \in CodeDataStorage
  BY <1>0, <1>1, JobTyped DEF Reads, Sends, Pending
<1>3. /\ cached' \in CodeDataStorage /\ cached'.code = c
      /\ cached'.createdAt = data.createdAt
      /\ cached'.countOfBadAttempts = data.countOfBadAttempts + 1
  BY <1>1, <1>2 DEF CodeDataStorage, CodeOf
<1>4. /\ calls' = calls /\ job' \in [Proc -> Job]
      /\ job'[p].at = "idle" /\ \A q \in Proc : q # p => job'[q] = job[q]
      /\ \A q \in Proc : Pending(q)' => q # p /\ job'[q].codeData.code # NoCode
  BY <1>0, <1>1, FinishTyped
<1>5. /\ past'.newest = past.newest /\ past'.sent = past.sent /\ past'.madeAt = past.madeAt
      /\ past'.logins = past.logins /\ past'.lost = past.lost
      /\ past'.spent = past.spent /\ past'.raced = Races(p)
      /\ \A d \in Code : past'.wrong[d] = IF d = c THEN past.wrong[d] + 1 ELSE past.wrong[d]
      /\ past' \in [newest : Code \cup {NoCode}, sent : [Code -> BOOLEAN], madeAt : [Code -> Nat],
                    wrong : [Code -> Nat], logins : [Code -> Nat], spent : SUBSET Code,
                    lost : SUBSET Code, raced : BOOLEAN]
  <2> DEFINE wrong == [past.wrong EXCEPT ![c] = @ + 1]
  <2>1. /\ wrong \in [Code -> Nat]
        /\ \A d \in Code : wrong[d] = IF d = c THEN past.wrong[d] + 1 ELSE past.wrong[d]
    BY <1>0, <1>2, HistoryTyped
  <2>2. past' = [past EXCEPT !.wrong = wrong, !.raced = Races(p)]
    BY <1>1
  <2> HIDE DEF wrong
  <2> QED
    BY <1>0, <2>1, <2>2 DEF TypeOK, Races
<1>6. TypeOK'
  BY <1>0, <1>1, <1>3, <1>4, <1>5 DEF TypeOK, Job
<1>7. \A q \in Proc : Sends(q)' => q # p /\ job'[q] = job[q] /\ Sends(q) /\ Pending(q)
  BY <1>4 DEF Sends, Pending
<1>8. \A q \in Proc : Sends(q) => CodeOf(q) \in Code /\ CodeOf(q) # c
  BY <1>0, <1>2, JobTyped DEF SenderInv, Sends, Pending
<1>9. past.sent[c]
  BY <1>0, <1>2 DEF NewCodeInv
<1>10. SenderInv'
  <2> SUFFICES ASSUME NEW q \in Proc, Sends(q)'
               PROVE  /\ job'[q].codeData.countOfBadAttempts = 0
                      /\ job'[q].codeData.createdAt <= clock
                      /\ past.sent[CodeOf(q)'] <=> job'[q].at = "store"
                      /\ job'[q].at = "store" =>
                           past.madeAt[CodeOf(q)'] = job'[q].codeData.createdAt
                      /\ c # CodeOf(q)'
                      /\ \A r \in Proc \ {q} : Pending(r)' => CodeOf(r)' # CodeOf(q)'
    BY <1>1, <1>3, <1>5 DEF SenderInv
  <2>1. job'[q] = job[q] /\ Sends(q) /\ CodeOf(q)' = CodeOf(q) /\ CodeOf(q) # c
    BY <1>7, <1>8 DEF CodeOf
  <2>2. \A r \in Proc : Pending(r)' => Pending(r) /\ CodeOf(r)' = CodeOf(r)
    BY <1>4 DEF Pending, CodeOf
  <2> QED
    BY <1>0, <2>1, <2>2 DEF SenderInv
<1>11. NewCodeInv'
  BY <1>0, <1>2, <1>3, <1>4, <1>5, <1>7, <1>8, <1>9 DEF NewCodeInv, CodeOf, Reads
<1>12. /\ \A q \in Proc : job'[q].at # "idle" => q # p /\ job'[q] = job[q]
       /\ ~past'.raced => ~past.raced /\ \A q \in Proc : job'[q].at = "idle"
  BY <1>4, <1>5, Alone DEF Pending
<1>13. ~past.raced => cached = data
  BY <1>0, <1>2 DEF ReaderInv
<1>14. ReaderInv' /\ KeptInv' /\ NewestInv'
  BY <1>0, <1>3, <1>5, <1>12, <1>13 DEF ReaderInv, KeptInv, NewestInv, Reads, CodeOf
<1>15. AnswersCounted'
  <2> SUFFICES ASSUME ~past'.raced
               PROVE  /\ data.countOfBadAttempts + 1 = past'.wrong[c]
                      /\ \A d \in Code : past'.wrong[d] <= MaxBad /\ past.logins[d] <= 1
    BY <1>3, <1>5 DEF AnswersCounted
  <2>1. /\ ~past.raced /\ cached = data /\ data.countOfBadAttempts = past.wrong[c]
        /\ \A d \in Code : past.wrong[d] <= MaxBad /\ past.logins[d] <= 1
    BY <1>0, <1>2, <1>12, <1>13, NothingKept DEF AnswersCounted, CodeOf
  <2>2. past.wrong[c] < MaxBad
    BY <1>0, <1>1, <2>1 DEF ReaderInv
  <2>3. past.wrong[c] \in Nat /\ MaxBad \in Nat
    BY <1>0, <1>2, HistoryTyped, CodeAssumption
  <2> QED
    BY <1>2, <1>5, <2>1, <2>2, <2>3
<1>16. \A q \in Proc : job[q].at = "store" <=> job'[q].at = "store"
  BY <1>1, <1>4
<1>17. \A q \in Proc : job[q].at = "store" => job'[q] = job[q]
  BY <1>1, <1>4
<1>18. NewestCodeKept'
  BY <1>0, <1>3, <1>5, <1>12, <1>13, <1>16, <1>17 DEF NewestCodeKept, CodeOf
<1>19. \A d \in Code : Standing(d)' <=> Standing(d)
  BY <1>5, <1>16, <1>17 DEF Standing, CodeOf
<1>20. SpacingInv'
  <2> SUFFICES ASSUME ~past'.raced, NEW d \in Code, Standing(d)
               PROVE  /\ \/ c = d /\ data.createdAt = past.madeAt[d]
                         \/ past.madeAt[d] + Resend <= clock
                      /\ \A q \in Proc : Sends(q)' =>
                           past.madeAt[d] + Resend <= job'[q].codeData.createdAt
                      /\ \A e \in Code : Standing(e) /\ d # e /\ past.madeAt[d] <= past.madeAt[e] =>
                           past.madeAt[d] + Resend <= past.madeAt[e]
    BY <1>1, <1>3, <1>5, <1>19 DEF SpacingInv
  <2>1. ~past.raced /\ cached.code = c /\ cached.createdAt = data.createdAt
    BY <1>12, <1>13 DEF CodeOf
  <2> QED
    BY <1>0, <1>7, <2>1 DEF SpacingInv
<1> QED
  BY <1>6, <1>10, <1>11, <1>14, <1>15, <1>18, <1>20 DEF Inv

\* A call fails: a code that was sent and not stored is lost.
LEMMA FailsInv ==
  ASSUME Inv, NEW p \in Proc, Fails(p)
  PROVE  Inv'
<1>0. TypeOK /\ SenderInv /\ NewCodeInv /\ ReaderInv /\ KeptInv
      /\ AnswersCounted /\ NewestInv /\ NewestCodeKept /\ SpacingInv
  BY DEF Inv
<1> DEFINE c == CodeOf(p)
<1>1. /\ Pending(p) /\ Finish(p) /\ UNCHANGED <<cached, clock>>
      /\ past' = [past EXCEPT !.lost = IF job[p].at = "store" THEN @ \cup {c} ELSE @]
  BY DEF Fails, CodeOf
<1>2. c \in Code
  BY <1>0, <1>1, JobTyped
<1>3. /\ calls' = calls /\ job' \in [Proc -> Job]
      /\ job'[p].at = "idle" /\ \A q \in Proc : q # p => job'[q] = job[q]
      /\ \A q \in Proc : Pending(q)' => q # p /\ job'[q].codeData.code # NoCode
  BY <1>0, <1>1, FinishTyped
<1>4. /\ past'.newest = past.newest /\ past'.sent = past.sent /\ past'.madeAt = past.madeAt
      /\ past'.wrong = past.wrong /\ past'.logins = past.logins
      /\ past'.spent = past.spent /\ past'.raced = past.raced
      /\ past'.lost = IF job[p].at = "store" THEN past.lost \cup {c} ELSE past.lost
      /\ past' \in [newest : Code \cup {NoCode}, sent : [Code -> BOOLEAN], madeAt : [Code -> Nat],
                    wrong : [Code -> Nat], logins : [Code -> Nat], spent : SUBSET Code,
                    lost : SUBSET Code, raced : BOOLEAN]
  BY <1>0, <1>1, <1>2 DEF TypeOK
<1>5. TypeOK'
  BY <1>0, <1>1, <1>3, <1>4 DEF TypeOK, Job
<1>6. /\ \A q \in Proc : job'[q].at # "idle" => q # p /\ job'[q] = job[q]
      /\ \A q \in Proc : Sends(q)' => q # p /\ job'[q] = job[q] /\ Sends(q)
  BY <1>3 DEF Sends
<1>7. SenderInv'
  BY <1>0, <1>1, <1>3, <1>4, <1>6 DEF SenderInv, CodeOf, Pending
<1>8. NewCodeInv' /\ ReaderInv' /\ KeptInv'
  <2>1. NewCodeInv'
    BY <1>0, <1>1, <1>3, <1>4, <1>6 DEF NewCodeInv, CodeOf, Reads
  <2>2. ReaderInv' /\ KeptInv'
    BY <1>0, <1>1, <1>4, <1>6 DEF ReaderInv, KeptInv, Reads
  <2> QED
    BY <2>1, <2>2
<1>9. AnswersCounted'
  BY <1>0, <1>1, <1>4 DEF AnswersCounted
<1>10. NewestInv' /\ NewestCodeKept'
  BY <1>0, <1>1, <1>3, <1>4, <1>6 DEF NewestInv, NewestCodeKept, CodeOf
<1>11. \A d \in Code : Standing(d)' => Standing(d)
  BY <1>3, <1>4, <1>6 DEF Standing, CodeOf
<1>12. SpacingInv'
  BY <1>0, <1>1, <1>4, <1>6, <1>11 DEF SpacingInv
<1> QED
  BY <1>5, <1>7, <1>8, <1>9, <1>10, <1>12 DEF Inv

LEMMA TickInv == Inv /\ Tick => Inv'
<1> SUFFICES ASSUME Inv, Tick PROVE Inv'
  OBVIOUS
<1>0. TypeOK /\ SenderInv /\ NewCodeInv /\ ReaderInv /\ KeptInv
      /\ AnswersCounted /\ NewestInv /\ NewestCodeKept /\ SpacingInv
  BY DEF Inv
<1>1. /\ clock' = clock + 1 /\ clock < MaxTime /\ UNCHANGED <<cached, job, calls, past>>
      /\ clock \in Nat
  BY <1>0, HistoryTyped DEF Tick
<1>2. TypeOK'
  BY <1>0, <1>1, CodeAssumption DEF TypeOK, Pending
<1>3. SenderInv'
  <2> SUFFICES ASSUME NEW p \in Proc, Sends(p) PROVE job[p].codeData.createdAt <= clock + 1
    BY <1>0, <1>1 DEF SenderInv, Sends, CodeOf, Pending
  <2> QED
    BY <1>0, <1>1, JobTyped DEF SenderInv
<1>4. NewCodeInv' /\ ReaderInv' /\ KeptInv' /\ AnswersCounted' /\ NewestInv' /\ NewestCodeKept'
  BY <1>0, <1>1 DEF NewCodeInv, ReaderInv, KeptInv, AnswersCounted, NewestInv, NewestCodeKept,
     Sends, Reads, CodeOf
<1>5. SpacingInv'
  BY <1>0, <1>1, HistoryTyped, CodeAssumption DEF SpacingInv, Standing, Sends, CodeOf
<1> QED
  BY <1>2, <1>3, <1>4, <1>5 DEF Inv

-----------------------------------------------------------------------------
\* The invariant is inductive: it holds at first, and every step keeps it.
THEOREM CodeInvariant == Spec => []Inv
<1>1. Init => Inv
  BY InitInv
<1>2. Inv /\ [Next]_vars => Inv'
  <2> SUFFICES ASSUME Inv, [Next]_vars PROVE Inv'
    OBVIOUS
  <2>1. CASE UNCHANGED vars
    BY <2>1 DEF vars, Inv, TypeOK, SenderInv, NewCodeInv, ReaderInv, KeptInv, AnswersCounted,
       NewestInv, NewestCodeKept, SpacingInv, Standing, Sends, Reads, CodeOf, Pending
  <2>2. CASE Tick
    BY <2>2, TickInv
  <2>3. ASSUME NEW p \in Proc, Step(p) PROVE Inv'
    <3>1. CASE LoginSendCode(p) \/ SendSms(p) \/ Store(p)
      BY <3>1, LoginSendCodeInv, SendSmsInv, StoreInv
    <3>2. CASE \E code \in Code \cup {NoCode} : ValidateByPhone(p, code)
      BY <3>2, ValidateInv
    <3>3. CASE Drop(p) \/ Delete(p) \/ Count(p) \/ Fails(p)
      BY <3>3, ForgetInv, CountInv, FailsInv
    <3> QED
      BY <2>3, <3>1, <3>2, <3>3 DEF Step
  <2> QED
    BY <2>1, <2>2, <2>3 DEF Next
<1> QED
  BY <1>1, <1>2, PTL DEF Spec

\* Types, and that whoever writes has a code.
THEOREM CodeTypes == Spec => []TypeOK
<1>1. Inv => TypeOK
  BY DEF Inv
<1> QED
  BY <1>1, CodeInvariant, PTL

\* Where nothing races the answers are counted, limited, and good once
\* (validateByPhone).
THEOREM AnswersLimited == Spec => []AnswersCounted
<1>1. Inv => AnswersCounted
  BY DEF Inv
<1> QED
  BY <1>1, CodeInvariant, PTL

\* Where nothing races the last code sent is the one that counts (loginSendCode).
THEOREM LastCodeCounts == Spec => []NewestCodeKept
<1>1. Inv => NewestCodeKept
  BY DEF Inv
<1> QED
  BY <1>1, CodeInvariant, PTL

\* Where nothing races, messages are a window apart but for what was used, given up
\* or lost (loginSendCode).
THEOREM MessagesAreSpaced == Spec => []MessagesSpaced
<1>1. Inv => MessagesSpaced
  <2> SUFFICES ASSUME Inv, ~past.raced, NEW c \in Code, NEW d \in Code,
                      c # d, past.sent[c], past.sent[d],
                      past.madeAt[c] <= past.madeAt[d],
                      past.madeAt[d] < past.madeAt[c] + Resend,
                      {c, d} \cap (past.spent \cup past.lost) = {}
               PROVE  \E p \in Proc : job[p].at = "store" /\ job[p].codeData.code \in {c, d}
    BY DEF MessagesSpaced
  <2>1. ~(Standing(c) /\ Standing(d))
    <3>1. /\ past.madeAt[c] \in Nat /\ past.madeAt[d] \in Nat /\ Resend \in Nat
      BY HistoryTyped, CodeAssumption DEF Inv
    <3> QED
      BY <3>1 DEF Inv, SpacingInv
  <2> QED
    BY <2>1 DEF Standing, CodeOf
<1> QED
  BY <1>1, CodeInvariant, PTL
=============================================================================
