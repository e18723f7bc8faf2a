-------------------------------- MODULE Codes --------------------------------
(***************************************************************************)
(* Login by phone: the code that loginSendCode sends by SMS and keeps in   *)
(* Redis, and validateByPhone, which compares, counts and deletes.  A call *)
(* reads the whole record, decides, and writes the whole record: an action *)
(* is one call of the cache or of the SMS service.  The model is of one    *)
(* phone; time is counted in units of which Resend and Lifetime are some.  *)
(***************************************************************************)
EXTENDS Integers

CONSTANTS Proc,               \* calls that can be under way at once
          Code, NoCode,       \* codes, each sent once, and none
          Resend, Lifetime,   \* 60 seconds, 5 minutes
          MaxBad,             \* 3
          MaxTime, MaxCalls   \* bounds

ASSUME CodeAssumption ==
  /\ NoCode \notin Code
  /\ Resend \in Nat /\ Lifetime \in Nat /\ MaxBad \in Nat
  /\ MaxTime \in Nat /\ MaxCalls \in Nat

VARIABLES cached,  \* the record of the phone: CodeDataStorage
          clock,   \* the time
          job,     \* of a process: the call it runs
          calls,   \* calls made so far
          past     \* history, which no guard reads

vars == <<cached, clock, job, calls, past>>

NoRecord == [code |-> NoCode, createdAt |-> 0, countOfBadAttempts |-> 0]
Idle == [at |-> "idle", codeData |-> NoRecord]

\* The call has read the record and is to write it.
Pending(p) == job[p].at # "idle"

Init == /\ cached = NoRecord
        /\ clock = 0
        /\ job = [p \in Proc |-> Idle]
        /\ calls = 0
        /\ past = [newest |-> NoCode,                      \* the last code that was sent
                   sent   |-> [c \in Code |-> FALSE],
                   madeAt |-> [c \in Code |-> 0],
                   wrong  |-> [c \in Code |-> 0],          \* wrong answers while it was kept
                   logins |-> [c \in Code |-> 0],
                   spent  |-> {},                          \* codes used or given up
                   lost   |-> {},                          \* sent, and not kept
                   raced  |-> FALSE]                       \* a record changed under a call

Start(p, j) == /\ job[p].at = "idle" /\ calls < MaxCalls
               /\ job' = [job EXCEPT ![p] = j]
               /\ calls' = calls + 1

Finish(p) == /\ job' = [job EXCEPT ![p] = Idle]
             /\ UNCHANGED calls

Races(p) == past.raced \/ \E q \in Proc \ {p} : Pending(q)

-----------------------------------------------------------------------------
\* Mutant of LoginSendCode: the window is not looked at.
LoginSendCodeAtOnce(p) ==
  /\ \E c \in Code :
       /\ ~past.sent[c] /\ \A q \in Proc : Pending(q) => job[q].codeData.code # c
       /\ Start(p, [at |-> "sms",
                    codeData |-> [code |-> c, createdAt |-> clock, countOfBadAttempts |-> 0]])
  /\ UNCHANGED <<cached, clock, past>>

\* loginSendCode: refused while the kept code is younger than a minute, else a code
\* is made (smsC.isSimulateSending is off).
LoginSendCode(p) ==
  /\ cached.code = NoCode \/ clock - cached.createdAt >= Resend
  /\ \E c \in Code :
       /\ ~past.sent[c] /\ \A q \in Proc : Pending(q) => job[q].codeData.code # c
       /\ Start(p, [at |-> "sms",
                    codeData |-> [code |-> c, createdAt |-> clock, countOfBadAttempts |-> 0]])
  /\ UNCHANGED <<cached, clock, past>>

\* sendSMSByPhone.
SendSms(p) ==
  LET c == job[p].codeData.code IN
  /\ job[p].at = "sms"
  /\ job' = [job EXCEPT ![p].at = "store"]
  /\ past' = [past EXCEPT !.newest = c, !.sent[c] = TRUE,
                          !.madeAt[c] = job[p].codeData.createdAt]
  /\ UNCHANGED <<cached, clock, calls>>

\* Mutant of Store: a record that is there is kept.
StoreOnce(p) ==
  /\ job[p].at = "store"
  /\ cached' = IF cached.code = NoCode THEN job[p].codeData ELSE cached
  /\ past' = [past EXCEPT !.raced = Races(p)]
  /\ Finish(p)
  /\ UNCHANGED clock

Store(p) ==
  /\ job[p].at = "store"
  /\ cached' = job[p].codeData
  /\ past' = [past EXCEPT !.raced = Races(p)]
  /\ Finish(p)
  /\ UNCHANGED clock

\* validateByPhone reads the record and, with it, what it is going to write.
ValidateByPhone(p, code) ==
  /\ cached.code # NoCode
  /\ LET valid == /\ clock <= cached.createdAt + Lifetime
                  /\ cached.countOfBadAttempts < MaxBad
     IN Start(p, [at |-> CASE ~valid -> "drop"
                           [] valid /\ cached.code = code -> "delete"
                           [] OTHER -> "count",
                  codeData |-> cached])
  /\ UNCHANGED <<cached, clock, past>>

\* An old code, or one that was tried too often, is deleted: the call throws.
Drop(p) ==
  /\ job[p].at = "drop"
  /\ cached' = NoRecord
  /\ past' = [past EXCEPT !.spent = @ \cup {job[p].codeData.code}, !.raced = Races(p)]
  /\ Finish(p)
  /\ UNCHANGED clock

\* The right code is deleted, and the user is logged in.
Delete(p) ==
  LET c == job[p].codeData.code IN
  /\ job[p].at = "delete"
  /\ cached' = NoRecord
  /\ past' = [past EXCEPT !.spent = @ \cup {c}, !.logins[c] = @ + 1, !.raced = Races(p)]
  /\ Finish(p)
  /\ UNCHANGED clock

\* Mutant of Count: the record is written as it was read.
CountNothing(p) ==
  LET data == job[p].codeData IN
  /\ job[p].at = "count"
  /\ cached' = data
  /\ past' = [past EXCEPT !.wrong[data.code] = @ + 1, !.raced = Races(p)]
  /\ Finish(p)
  /\ UNCHANGED clock

\* A wrong code is counted, in the record that was read: the call throws.
Count(p) ==
  LET data == job[p].codeData IN
  /\ job[p].at = "count"
  /\ cached' = [data EXCEPT !.countOfBadAttempts = @ + 1]
  /\ past' = [past EXCEPT !.wrong[data.code] = @ + 1, !.raced = Races(p)]
  /\ Finish(p)
  /\ UNCHANGED clock

\* The cache or the SMS service fails, at any call of theirs; a code that is sent
\* and not kept is lost.
Fails(p) ==
  /\ Pending(p)
  /\ past' = [past EXCEPT !.lost =
       IF job[p].at = "store" THEN @ \cup {job[p].codeData.code} ELSE @]
  /\ Finish(p)
  /\ UNCHANGED <<cached, clock>>

Tick == /\ clock < MaxTime
        /\ clock' = clock + 1
        /\ UNCHANGED <<cached, job, calls, past>>

Step(p) == \/ LoginSendCode(p) \/ SendSms(p) \/ Store(p)
           \/ \E code \in Code \cup {NoCode} : ValidateByPhone(p, code)
           \/ Drop(p) \/ Delete(p) \/ Count(p) \/ Fails(p)

Next == Tick \/ \E p \in Proc : Step(p)

Spec == Init /\ [][Next]_vars

-----------------------------------------------------------------------------
CodeDataStorage == [code : Code \cup {NoCode}, createdAt : Nat, countOfBadAttempts : Nat]

\* The state is well-typed; whoever writes has a code.
TypeOK ==
  /\ cached \in CodeDataStorage
  /\ clock \in 0..MaxTime /\ calls \in 0..MaxCalls
  /\ job \in [Proc -> [at : {"idle", "sms", "store", "drop", "delete", "count"},
                       codeData : CodeDataStorage]]
  /\ past \in [newest : Code \cup {NoCode}, sent : [Code -> BOOLEAN], madeAt : [Code -> Nat],
               wrong : [Code -> Nat], logins : [Code -> Nat], spent : SUBSET Code,
               lost : SUBSET Code, raced : BOOLEAN]
  /\ \A p \in Proc : Pending(p) => job[p].codeData.code # NoCode

\* As long as no record changed between a call's read and its write, the count is
\* that of the wrong answers, at most MaxBad of them are looked at, and a code logs
\* in once (validateByPhone).
AnswersCounted ==
  ~past.raced =>
    /\ cached.code # NoCode => cached.countOfBadAttempts = past.wrong[cached.code]
    /\ \A c \in Code : past.wrong[c] <= MaxBad /\ past.logins[c] <= 1

\* As long as no record changed under a call, the code of the last SMS is the one
\* that is kept, unless it was used, given up, or never stored: a code is sent
\* before it is stored (loginSendCode).
NewestCodeKept ==
  LET c == past.newest IN
  ~past.raced /\ c # NoCode =>
    \/ cached.code = c
    \/ c \in past.spent \cup past.lost
    \/ \E p \in Proc : job[p].at = "store" /\ job[p].codeData.code = c

\* Two messages to a phone are at least a minute apart, unless their calls were
\* under way at once or the earlier code is gone: it is the kept code that holds
\* back the next message, not the message (loginSendCode).
MessagesSpaced ==
  ~past.raced =>
    \A c, d \in Code :
      /\ c # d /\ past.sent[c] /\ past.sent[d]
      /\ past.madeAt[c] <= past.madeAt[d] /\ past.madeAt[d] < past.madeAt[c] + Resend
      => \/ {c, d} \cap (past.spent \cup past.lost) # {}
         \/ \E p \in Proc : job[p].at = "store" /\ job[p].codeData.code \in {c, d}
=============================================================================
