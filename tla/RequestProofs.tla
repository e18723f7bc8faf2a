---------------------------- MODULE RequestProofs ----------------------------
(***************************************************************************)
(* Proofs about the request context, for any number of documents, calls    *)
(* and connections, and any methods.                                       *)
(***************************************************************************)
EXTENDS RequestProps, SequenceTheorems, TLAPS

Active == {"opening", "run", "flush", "logging", "commit"}

Done(c, kind) ==
  {<<c, k>> : k \in {i \in 1..Len(Steps(c)) : i < at[c] /\ Steps(c)[i] = kind}}

\* A call that has not begun is at its first step, one that returned is past
\* its last.
PlaceInv ==
  \A c \in Call :
    /\ path[c] \in Paths[c]
    /\ pc[c] \in {"waiting", "opening"} => at[c] = 1
    /\ pc[c] \in {"flush", "logging", "commit"} => at[c] > Len(Steps(c))

\* What the control point of a call says about the transaction it opened.
TrxInv ==
  \A c \in Call :
    /\ pc[c] \in {"waiting", "opening"} => trx[c] = "none"
    /\ pc[c] \in {"flush", "logging", "commit"} => Live(c)
    /\ pc[c] = "run" => trx[c] = "none" \/ Live(c)
    /\ pc[c] \in {"ok", "error", "dead"} => ~Live(c)

\* A call begins, and opens a transaction, when those before it are answered.
OrderInv ==
  \A c \in Call : pc[c] \notin {"waiting", "dead"} \/ trx[c] # "none" =>
    \A d \in Before[c] : Answered(d)

\* The context of a service is that of a call that opened a transaction, on a
\* service that reaches it; all that is reached has one as soon as a call did,
\* and a call that still waits for its own was to be called neither before nor
\* after the one whose context is there.
HolderInv ==
  /\ \A d \in Doc : \A s \in Service : holder[d][s] # None =>
       /\ holder[d][s] \in Call /\ DocOf[holder[d][s]] = d
       /\ trx[holder[d][s]] # "none"
       /\ s \in Reach[ServiceOf(holder[d][s])]
  /\ \A c \in Call :
       /\ trx[c] # "none" => \A s \in Reach[ServiceOf(c)] : holder[DocOf[c]][s] # None
       /\ pc[c] \in {"run", "flush", "logging", "commit"} => Owner(c) # None
       /\ pc[c] = "opening" /\ Owner(c) # None
            => Owner(c) # c /\ Owner(c) \notin Before[c] /\ c \notin Before[Owner(c)]

\* A call that made its own context is of no service reached by an earlier
\* call that opened a transaction.
OwnInv ==
  \A c, d \in Call : c \in Before[d] /\ trx[c] # "none" /\ Owner(d) = d =>
    ServiceOf(d) \notin Reach[ServiceOf(c)]

\* A transaction beside the context of its service, or one that another call
\* aborted, is that of a query.
QueryInv ==
  \A c \in Call :
    /\ trx[c] # "none" /\ Owner(c) # c => ReadOnly(c)
    /\ trx[c] = "aborted" => ReadOnly(c)

\* A transaction holds the writes its own call has done so far.
PendingInv ==
  \A c \in Call : pending[c] = IF Live(c) THEN Done(c, "write") ELSE {}

\* The buffer holds the events of the call that will flush it.
BufferInv ==
  \A c \in Call :
    /\ trx[c] = "none" => buffer[c] = {}
    /\ pc[c] = "opening" /\ Owner(c) # None => buffer[Owner(c)] = {}
    /\ pc[c] \in {"run", "flush"} /\ trx[c] # "none"
         => buffer[Owner(c)] = Done(c, "emit")

LogInv ==
  \A c \in Call :
    /\ pc[c] = "logging" => batch[c] = Events(c)
    /\ pc[c] = "commit" => Events(c) \subseteq log

\* A call on somebody else's transaction that is no query gets no statement
\* through.
RefusedInv ==
  \A c \in Call : pc[c] = "run" /\ trx[c] = "none" /\ ~ReadOnly(c) =>
    \A k \in 1..Len(Steps(c)) : k < at[c] => Steps(c)[k] \notin Statements

\* Writes are committed by the transaction of the context, and when it ends.
CommitInv ==
  \A c \in Call :
    /\ Writes(c) \cap core # {} => Owner(c) = c
    /\ trx[c] = "none" \/ Live(c) => Writes(c) \cap core = {}

IInv ==
  /\ TypeOK /\ PlaceInv /\ TrxInv /\ OrderInv /\ HolderInv /\ OwnInv /\ QueryInv
  /\ PendingInv /\ BufferInv /\ LogInv /\ RefusedInv /\ CommitInv
  /\ ChangesAreAudited /\ OkMeansDone

-----------------------------------------------------------------------------
LEMMA StepsType ==
  ASSUME TypeOK, NEW c \in Call
  PROVE  Steps(c) \in Seq(Kind) /\ ServiceOf(c) \in Service /\ DocOf[c] \in Doc
BY RequestsAssumption DEF TypeOK, Path, Steps, ServiceOf

\* Two calls of a document are under way only if both are queries.
LEMMA Parallel ==
  ASSUME OrderInv, NEW c \in Call, NEW d \in Call, c # d, DocOf[c] = DocOf[d],
         pc[c] \in Active, pc[d] \in Active
  PROVE  ReadOnly(c) /\ ReadOnly(d)
<1>1. c \notin Before[d] /\ d \notin Before[c]
  BY DEF OrderInv, Answered, Active
<1> QED
  BY <1>1, RequestsAssumption

\* A query has nothing to commit and nothing to store.
LEMMA Quiet ==
  ASSUME PlaceInv, NEW c \in Call, ReadOnly(c)
  PROVE  /\ Writes(c) = {} /\ Events(c) = {}
         /\ Done(c, "write") = {} /\ Done(c, "emit") = {}
BY DEF PlaceInv, ReadOnly, Has, Steps, Writes, Events, Effects, Done

\* At its last step a call has done all its writes and events.
LEMMA AllDone ==
  ASSUME TypeOK, NEW c \in Call, at[c] > Len(Steps(c))
  PROVE  Done(c, "write") = Writes(c) /\ Done(c, "emit") = Events(c)
<1>1. Steps(c) \in Seq(Kind) /\ at[c] \in Nat
  BY StepsType DEF TypeOK
<1>2. \A i \in 1..Len(Steps(c)) : i < at[c]
  BY <1>1, LenProperties
<1> QED
  BY <1>2 DEF Writes, Events, Effects, Done

LEMMA NoneDone ==
  ASSUME TypeOK, NEW c \in Call, at[c] = 1
  PROVE  Done(c, "write") = {} /\ Done(c, "emit") = {}
<1>1. Steps(c) \in Seq(Kind)
  BY StepsType
<1>2. \A i \in 1..Len(Steps(c)) : ~(i < 1)
  BY <1>1, LenProperties
<1> QED
  BY <1>2 DEF Done

\* Effects of different calls are different.
LEMMA Apart ==
  ASSUME NEW c \in Call, NEW d \in Call, c # d
  PROVE  Writes(c) \cap Writes(d) = {}
BY DEF Writes, Effects

LEMMA EffectsType ==
  ASSUME TypeOK, NEW c \in Call
  PROVE  Writes(c) \subseteq Effect /\ Events(c) \subseteq Effect
<1>1. Steps(c) \in Seq(Kind)
  BY StepsType
<1>2. \A i \in 1..Len(Steps(c)) : i \in Nat \ {0}
  BY <1>1, LenProperties
<1> QED
  BY <1>2 DEF Writes, Events, Effects, Effect

\* A step that leaves the paths alone leaves the effects alone, and one that
\* leaves the position alone what is done of them.
LEMMA Frame ==
  ASSUME path' = path, NEW c \in Call
  PROVE  /\ Steps(c)' = Steps(c) /\ ServiceOf(c)' = ServiceOf(c)
         /\ Writes(c)' = Writes(c) /\ Events(c)' = Events(c)
         /\ at'[c] = at[c] => /\ Done(c, "write")' = Done(c, "write")
                              /\ Done(c, "emit")' = Done(c, "emit")
BY DEF Steps, ServiceOf, Writes, Events, Effects, Done

LEMMA AdvanceDone ==
  ASSUME TypeOK, path' = path, NEW c \in Call, Advance(c), at[c] <= Len(Steps(c))
  PROVE  /\ Done(c, "write")' = Done(c, "write")
              \cup (IF Steps(c)[at[c]] = "write" THEN {<<c, at[c]>>} ELSE {})
         /\ Done(c, "emit")' = Done(c, "emit")
              \cup (IF Steps(c)[at[c]] = "emit" THEN {<<c, at[c]>>} ELSE {})
<1>1. Steps(c) \in Seq(Kind) /\ at[c] \in Nat \ {0} /\ at'[c] = at[c] + 1
  BY StepsType DEF TypeOK, Advance
<1>2. Len(Steps(c)) \in Nat /\ at[c] \in 1..Len(Steps(c))
  BY <1>1, LenProperties
<1>3. \A i \in 1..Len(Steps(c)) : i < at'[c] <=> i < at[c] \/ i = at[c]
  BY <1>1, <1>2
<1> Steps(c)' = Steps(c)
  BY Frame
<1>4. ASSUME NEW kind
      PROVE  Done(c, kind)' = Done(c, kind)
               \cup (IF Steps(c)[at[c]] = kind THEN {<<c, at[c]>>} ELSE {})
  <2>1. {k \in 1..Len(Steps(c)) : k < at'[c] /\ Steps(c)[k] = kind}
          = {k \in 1..Len(Steps(c)) : k < at[c] /\ Steps(c)[k] = kind}
              \cup (IF Steps(c)[at[c]] = kind THEN {at[c]} ELSE {})
    BY <1>2, <1>3
  <2> QED
    BY <2>1 DEF Done
<1> QED
  BY <1>4

\* A call that is under way stays behind those it waited for.
LEMMA OrderStays ==
  ASSUME OrderInv, NEW c \in Call, pc[c] \in Active,
         \A d \in Call \ {c} : pc'[d] = pc[d], pc'[c] # "waiting",
         \A d \in Call \ {c} : trx'[d] # "none" => trx[d] # "none"
  PROVE  OrderInv'
<1>1. \A d \in Call : Before[d] \subseteq Call
  BY RequestsAssumption
<1>2. \A d \in Call : Answered(d) => Answered(d)'
  BY DEF Answered, Active
<1> QED
  BY <1>1, <1>2 DEF OrderInv, Active

\* What a running call finds on its service, and on the users'.
LEMMA Context ==
  ASSUME TypeOK, HolderInv, NEW c \in Call, Owner(c) # None
  PROVE  /\ Owner(c) \in Call /\ DocOf[Owner(c)] = DocOf[c] /\ trx[Owner(c)] # "none"
         /\ ServiceOf(c) \in Reach[ServiceOf(Owner(c))]
BY StepsType DEF HolderInv, Owner

LEMMA Lent ==
  ASSUME TypeOK, PlaceInv, HolderInv, NEW c \in Call, NextIs(c, Statements)
  PROVE  /\ Lender(c) \in Call /\ DocOf[Lender(c)] = DocOf[c] /\ trx[Lender(c)] # "none"
         /\ Lender(c) = c => trx[c] # "none"
<1>1. /\ pc[c] = "run" /\ Owner(c) # None
      /\ Steps(c) \in Seq(Kind) /\ at[c] \in 1..Len(Steps(c))
  BY StepsType, LenProperties DEF NextIs, HolderInv, TypeOK
<1>2. CASE Steps(c)[at[c]] # "lookup"
  BY <1>1, <1>2, Context DEF Lender
<1>3. CASE Steps(c)[at[c]] = "lookup"
  <2>1. Users \in Reach[ServiceOf(c)]
    BY <1>1, <1>3, RequestsAssumption DEF PlaceInv, Has, Steps, ServiceOf
  <2>2. /\ Owner(c) \in Call /\ DocOf[Owner(c)] = DocOf[c] /\ trx[Owner(c)] # "none"
        /\ ServiceOf(c) \in Reach[ServiceOf(Owner(c))]
    BY <1>1, Context
  <2>3. Users \in Reach[ServiceOf(Owner(c))]
    BY <2>1, <2>2, StepsType, RequestsAssumption
  <2>4. holder[DocOf[c]][Users] # None /\ DocOf[c] \in Doc
    BY <2>2, <2>3, StepsType DEF HolderInv
  <2> QED
    BY <1>3, <2>4, RequestsAssumption DEF HolderInv, Lender
<1> QED
  BY <1>2, <1>3

\* Only Open gives contexts.
LEMMA ContextStays ==
  ASSUME HolderInv, OwnInv, UNCHANGED <<path, holder>>,
         \A d \in Call : trx'[d] = "none" <=> trx[d] = "none",
         \A d \in Call : pc'[d] \in {"run", "flush", "logging", "commit"} => Owner(d) # None,
         \A d \in Call : pc'[d] = "opening" => pc[d] = "opening" \/ Owner(d) = None
  PROVE  HolderInv' /\ OwnInv'
<1>1. \A d : ServiceOf(d)' = ServiceOf(d) /\ Owner(d)' = Owner(d)
  BY DEF ServiceOf, Owner
<1>2. \A d \in Doc : \A s \in Service : holder'[d][s] # None =>
        /\ holder'[d][s] \in Call /\ DocOf[holder'[d][s]] = d
        /\ trx'[holder'[d][s]] # "none"
        /\ s \in Reach[ServiceOf(holder'[d][s])]
  BY <1>1 DEF HolderInv
<1>3. \A d \in Call :
        trx'[d] # "none" => \A s \in Reach[ServiceOf(d)'] : holder'[DocOf[d]][s] # None
  BY <1>1 DEF HolderInv
<1>4. \A d \in Call :
        /\ pc'[d] \in {"run", "flush", "logging", "commit"} => Owner(d)' # None
        /\ pc'[d] = "opening" /\ Owner(d)' # None
             => Owner(d)' # d /\ Owner(d)' \notin Before[d] /\ d \notin Before[Owner(d)']
  BY <1>1 DEF HolderInv
<1>5. OwnInv'
  BY <1>1 DEF OwnInv
<1> QED
  BY <1>1, <1>2, <1>3, <1>4, <1>5 DEF HolderInv, ServiceOf

-----------------------------------------------------------------------------
LEMMA InitInv == Init => IInv
<1> SUFFICES ASSUME Init PROVE IInv
  OBVIOUS
<1>1. \A c \in Call : path[c] \in Paths[c]
  BY DEF Init
<1>2. path \in [Call -> Path]
  BY <1>1, RequestsAssumption DEF Init
<1>3. TypeOK
  BY <1>2, RequestsAssumption DEF Init, TypeOK, Label
<1>4. \A c \in Call : Owner(c) = None /\ Owner(c) # c
  BY <1>3, StepsType, RequestsAssumption DEF Init, Owner
<1>5. PlaceInv /\ TrxInv /\ OrderInv /\ LogInv /\ RefusedInv /\ PendingInv /\ QueryInv
  BY <1>1 DEF Init, PlaceInv, TrxInv, OrderInv, LogInv, RefusedInv, PendingInv, QueryInv, Live
<1>6. HolderInv /\ OwnInv
  BY <1>4 DEF Init, HolderInv, OwnInv
<1>7. BufferInv /\ CommitInv /\ ChangesAreAudited /\ OkMeansDone
  BY <1>4 DEF Init, BufferInv, CommitInv, ChangesAreAudited, OkMeansDone
<1> QED
  BY <1>3, <1>5, <1>6, <1>7 DEF IInv

-----------------------------------------------------------------------------
\* A call that begins finds a context, or will ask for one of its own.
LEMMA InvokeStep ==
  ASSUME IInv, NEW c \in Call, Invoke(c)
  PROVE  IInv'
<1> USE DEF IInv
<1>1. /\ pc[c] = "waiting" /\ at[c] = 1 /\ trx[c] = "none"
      /\ pc' = [pc EXCEPT ![c] = IF Owner(c) = None THEN "opening" ELSE "run"]
      /\ \A d \in Before[c] : Answered(d)
      /\ UNCHANGED <<path, at, holder, trx, pending, buffer, batch, core, log>>
  BY DEF Invoke, Goto, PlaceInv, TrxInv
<1>2. /\ pc' \in [Call -> Label] /\ pc'[c] \in {"opening", "run"}
      /\ \A d \in Call \ {c} : pc'[d] = pc[d]
      /\ pc'[c] = "opening" <=> Owner(c) = None
  BY <1>1 DEF TypeOK, Label
<1>3. \A d \in Call : /\ Writes(d)' = Writes(d) /\ Events(d)' = Events(d)
                      /\ Done(d, "write")' = Done(d, "write")
                      /\ Done(d, "emit")' = Done(d, "emit")
                      /\ Owner(d)' = Owner(d) /\ Live(d)' = Live(d)
                      /\ Steps(d)' = Steps(d) /\ ServiceOf(d)' = ServiceOf(d)
  BY <1>1, Frame DEF Owner, Live
<1>4. TypeOK'
  BY <1>1, <1>2 DEF TypeOK
<1>5. PlaceInv' /\ TrxInv'
  BY <1>1, <1>2, <1>3 DEF PlaceInv, TrxInv
<1>6. OrderInv'
  BY <1>1, <1>2 DEF OrderInv, Answered
<1>7. HolderInv' /\ OwnInv'
  BY <1>1, <1>2, ContextStays DEF HolderInv
<1>8. QueryInv' /\ CommitInv' /\ PendingInv' /\ ChangesAreAudited'
  BY <1>1, <1>3 DEF QueryInv, CommitInv, PendingInv, ChangesAreAudited
<1>9. BufferInv'
  BY <1>1, <1>2, <1>3 DEF BufferInv
<1>10. RefusedInv'
  BY <1>1, <1>2, <1>3, StepsType, LenProperties DEF RefusedInv
<1>11. LogInv' /\ OkMeansDone'
  BY <1>1, <1>2, <1>3 DEF LogInv, OkMeansDone
<1> QED
  BY <1>4, <1>5, <1>6, <1>7, <1>8, <1>9, <1>10, <1>11

\* A new transaction gives its context to the service, and to those injected
\* into it, that have none.  One that cannot is that of a query.
LEMMA OpenStep ==
  ASSUME IInv, NEW c \in Call, Open(c)
  PROVE  IInv'
<1> USE DEF IInv
<1>1. /\ pc[c] = "opening" /\ at[c] = 1 /\ trx[c] = "none"
      /\ pc' = [pc EXCEPT ![c] = "run"]
      /\ trx' = [trx EXCEPT ![c] = "open"]
      /\ holder' = [holder EXCEPT ![DocOf[c]] =
                      [s \in Service |-> IF s \in Reach[ServiceOf(c)] /\ @[s] = None
                                        THEN c ELSE @[s]]]
      /\ UNCHANGED <<path, at, pending, buffer, batch, core, log>>
  BY DEF Open, Goto, PlaceInv, TrxInv
<1>2. /\ pc' \in [Call -> Label] /\ pc'[c] = "run"
      /\ \A d \in Call \ {c} : pc'[d] = pc[d]
      /\ trx'[c] = "open" /\ \A d \in Call \ {c} : trx'[d] = trx[d]
      /\ DocOf[c] \in Doc /\ ServiceOf(c) \in Service
  BY <1>1, StepsType DEF TypeOK, Label
<1>3. TypeOK'
  <2>1. holder' \in [Doc -> [Service -> Call \cup {None}]]
    BY <1>1, <1>2 DEF TypeOK
  <2> QED
    BY <1>1, <1>2, <2>1 DEF TypeOK
<1>4. \A d \in Call : /\ Writes(d)' = Writes(d) /\ Events(d)' = Events(d)
                      /\ Done(d, "write")' = Done(d, "write")
                      /\ Done(d, "emit")' = Done(d, "emit")
                      /\ Steps(d)' = Steps(d) /\ ServiceOf(d)' = ServiceOf(d)
                      /\ d # c => Live(d)' = Live(d)
  BY <1>1, <1>2, Frame DEF Live
<1>5. /\ \A d \in Doc : \A s \in Service :
           holder'[d][s] = IF d = DocOf[c] /\ s \in Reach[ServiceOf(c)] /\ holder[d][s] = None
                           THEN c ELSE holder[d][s]
      /\ \A d \in Call :
           Owner(d)' = IF /\ DocOf[d] = DocOf[c] /\ ServiceOf(d) \in Reach[ServiceOf(c)]
                          /\ Owner(d) = None
                       THEN c ELSE Owner(d)
      /\ Owner(c)' # None
  <2>1. \A d \in Doc : \A s \in Service :
          holder'[d][s] = IF d = DocOf[c] /\ s \in Reach[ServiceOf(c)] /\ holder[d][s] = None
                          THEN c ELSE holder[d][s]
    BY <1>1, <1>2 DEF TypeOK
  <2>2. \A d \in Call : DocOf[d] \in Doc /\ ServiceOf(d) \in Service
    BY StepsType
  <2>3. \A d \in Call : Owner(d)' = holder'[DocOf[d]][ServiceOf(d)]
    BY <1>4 DEF Owner
  <2>4. \A d \in Call :
          Owner(d)' = IF /\ DocOf[d] = DocOf[c] /\ ServiceOf(d) \in Reach[ServiceOf(c)]
                         /\ Owner(d) = None
                      THEN c ELSE Owner(d)
    BY <2>1, <2>2, <2>3 DEF Owner
  <2>5. ServiceOf(c) \in Reach[ServiceOf(c)] /\ c # None
    BY <1>2, RequestsAssumption
  <2> QED
    BY <2>1, <2>4, <2>5
<1>6. Live(c)' /\ Done(c, "write") = {} /\ Done(c, "emit") = {}
  BY <1>1, <1>2, NoneDone DEF Live
<1>7. \A d \in Before[c] : Answered(d)
  BY <1>1 DEF OrderInv
<1>8. PlaceInv' /\ TrxInv' /\ OrderInv' /\ LogInv' /\ OkMeansDone'
  <2>1. PlaceInv' /\ TrxInv'
    BY <1>1, <1>2, <1>4, <1>6 DEF PlaceInv, TrxInv
  <2>2. OrderInv'
    BY <1>1, <1>2 DEF OrderInv, Answered
  <2> QED
    BY <1>1, <1>2, <1>4, <2>1, <2>2 DEF LogInv, OkMeansDone
<1>9. HolderInv'
  <2>1. ASSUME NEW d \in Doc, NEW s \in Service, holder'[d][s] # None
        PROVE  /\ holder'[d][s] \in Call /\ DocOf[holder'[d][s]] = d
               /\ trx'[holder'[d][s]] # "none"
               /\ s \in Reach[ServiceOf(holder'[d][s])]
    <3>1. CASE holder'[d][s] = holder[d][s]
      BY <1>2, <2>1, <3>1 DEF HolderInv
    <3>2. CASE holder'[d][s] # holder[d][s]
      BY <1>2, <1>5, <3>2
    <3> QED
      BY <3>1, <3>2
  <2>2. ASSUME NEW d \in Call, trx'[d] # "none", NEW s \in Reach[ServiceOf(d)']
        PROVE  holder'[DocOf[d]][s] # None
    <3>1. s \in Service /\ DocOf[d] \in Doc /\ s \in Reach[ServiceOf(d)]
      BY <1>4, StepsType, RequestsAssumption
    <3>2. CASE d = c
      BY <1>5, <3>1, <3>2, RequestsAssumption
    <3>3. CASE d # c
      BY <1>2, <1>5, <2>2, <3>1, <3>3, RequestsAssumption DEF HolderInv
    <3> QED
      BY <3>2, <3>3
  <2>3. ASSUME NEW d \in Call, pc'[d] \in {"run", "flush", "logging", "commit"}
        PROVE  Owner(d)' # None
    BY <1>2, <1>5, <2>3, RequestsAssumption DEF HolderInv
  <2>4. ASSUME NEW d \in Call, pc'[d] = "opening", Owner(d)' # None
        PROVE  Owner(d)' # d /\ Owner(d)' \notin Before[d] /\ d \notin Before[Owner(d)']
    <3>1. d # c /\ pc[d] = "opening"
      BY <1>2, <2>4
    <3>2. c \notin Before[d] /\ d \notin Before[c]
      BY <1>1, <1>7, <3>1 DEF OrderInv, Answered
    <3> QED
      BY <1>5, <2>4, <3>1, <3>2 DEF HolderInv
  <2> QED
    BY <1>1, <2>1, <2>2, <2>3, <2>4 DEF HolderInv, ServiceOf
<1>16. OwnInv'
  <2>1. ASSUME NEW d \in Call, NEW e \in Call,
               d \in Before[e], trx'[d] # "none", Owner(e)' = e
        PROVE  ServiceOf(e) \notin Reach[ServiceOf(d)]
    <3>1. DocOf[d] = DocOf[e] /\ ServiceOf(e) \in Service
      BY <2>1, StepsType, RequestsAssumption
    <3>2. CASE e = c
      <4>1. d # c /\ trx[d] # "none"
        BY <1>1, <1>2, <1>7, <2>1, <3>2 DEF Answered
      <4>2. Owner(c) = None
        <5>1. Owner(c) # c
          BY <1>1, <1>2, RequestsAssumption, Context
        <5> QED
          BY <1>5, <2>1, <3>2, <5>1
      <4> QED
        BY <3>1, <3>2, <4>1, <4>2 DEF HolderInv, Owner
    <3>3. CASE e # c
      <4>1. Owner(e) = e /\ trx[e] # "none"
        BY <1>5, <2>1, <3>3, RequestsAssumption, Context
      <4>2. d # c
        BY <1>1, <2>1, <4>1 DEF OrderInv, Answered
      <4> QED
        BY <1>2, <2>1, <4>1, <4>2 DEF OwnInv
    <3> QED
      BY <3>2, <3>3
  <2> QED
    BY <1>4, <2>1 DEF OwnInv
<1>10. QueryInv'
  <2>1. ASSUME NEW d \in Call, trx'[d] # "none", Owner(d)' # d
        PROVE  ReadOnly(d)
    <3>1. CASE d = c
      <4>1. Owner(c) # None
        BY <1>2, <1>5, <2>1, <3>1, RequestsAssumption
      <4>2. /\ Owner(c) # c /\ Owner(c) \notin Before[c] /\ c \notin Before[Owner(c)]
            /\ Owner(c) \in Call /\ DocOf[Owner(c)] = DocOf[c]
        BY <1>1, <4>1, Context DEF HolderInv
      <4> QED
        BY <3>1, <4>2, RequestsAssumption
    <3>2. CASE d # c
      <4>1. trx[d] # "none"
        BY <1>2, <2>1, <3>2
      <4>2. ServiceOf(d) \in Reach[ServiceOf(d)]
        BY StepsType, RequestsAssumption
      <4>3. Owner(d) # None
        BY <4>1, <4>2 DEF HolderInv, Owner
      <4> QED
        BY <1>2, <1>5, <2>1, <3>2, <4>1, <4>3 DEF QueryInv
    <3> QED
      BY <3>1, <3>2
  <2>2. \A d \in Call : trx'[d] = "aborted" => ReadOnly(d)
    BY <1>2 DEF QueryInv
  <2> QED
    BY <1>1, <2>1, <2>2 DEF QueryInv, ReadOnly
<1>11. PendingInv'
  <2>1. pending[c] = {}
    BY <1>1 DEF PendingInv, Live
  <2> QED
    BY <1>1, <1>2, <1>4, <1>6, <2>1 DEF PendingInv
<1>12. BufferInv'
  <2>1. buffer[c] = {}
    BY <1>1 DEF BufferInv
  <2>2. buffer[Owner(c)'] = {}
    BY <1>1, <1>5, <2>1 DEF BufferInv
  <2>3. ASSUME NEW d \in Call
        PROVE  /\ trx'[d] = "none" => buffer[d] = {}
               /\ pc'[d] = "opening" /\ Owner(d)' # None => buffer[Owner(d)'] = {}
    BY <1>2, <1>5, <2>1 DEF BufferInv
  <2>4. ASSUME NEW d \in Call, pc'[d] \in {"run", "flush"}, trx'[d] # "none"
        PROVE  buffer[Owner(d)'] = Done(d, "emit")
    <3>1. CASE d = c
      BY <1>6, <2>2, <3>1
    <3>2. CASE d # c
      BY <1>2, <1>5, <2>4, <3>2 DEF BufferInv, HolderInv
    <3> QED
      BY <3>1, <3>2
  <2> QED
    BY <1>1, <1>4, <2>3, <2>4 DEF BufferInv
<1>13. RefusedInv'
  BY <1>1, <1>2, <1>4 DEF RefusedInv
<1>14. CommitInv'
  <2>1. ASSUME NEW d \in Call, Writes(d) \cap core # {} PROVE Owner(d)' = d
    BY <1>5, <2>1, RequestsAssumption DEF CommitInv
  <2>2. ASSUME NEW d \in Call, trx'[d] = "none" \/ Live(d)'
        PROVE  Writes(d) \cap core = {}
    BY <1>1, <1>2, <1>4, <2>2 DEF CommitInv
  <2> QED
    BY <1>1, <1>4, <2>1, <2>2 DEF CommitInv
<1>15. ChangesAreAudited'
  BY <1>1, <1>4 DEF ChangesAreAudited
<1> QED
  BY <1>3, <1>8, <1>9, <1>10, <1>11, <1>12, <1>13, <1>14, <1>15,
     <1>16

\* A call that has flushed, and is done with it, has emptied a buffer that no
\* other call that is under way puts anything into.
LEMMA FlushedBuffer ==
  ASSUME IInv, NEW c \in Call, pc[c] = "flush", pc'[c] \notin {"opening", "run", "flush"},
         UNCHANGED <<path, at, holder>>,
         \A d \in Call \ {c} : pc'[d] = pc[d],
         \A d \in Call : trx'[d] = "none" <=> trx[d] = "none",
         buffer' = [buffer EXCEPT ![Owner(c)] = {}]
  PROVE  BufferInv'
<1> USE DEF IInv
<1>1. /\ Owner(c) \in Call /\ DocOf[Owner(c)] = DocOf[c]
      /\ \A e \in Call : buffer'[e] = IF e = Owner(c) THEN {} ELSE buffer[e]
      /\ \A d \in Call : Owner(d)' = Owner(d) /\ Done(d, "emit")' = Done(d, "emit")
  BY Context, Frame DEF HolderInv, TypeOK, Owner
<1>2. ASSUME NEW d \in Call
      PROVE  /\ trx'[d] = "none" => buffer'[d] = {}
             /\ pc'[d] = "opening" /\ Owner(d)' # None => buffer'[Owner(d)'] = {}
  <2>1. trx'[d] = "none" => buffer'[d] = {}
    BY <1>1 DEF BufferInv
  <2>2. ASSUME pc'[d] = "opening", Owner(d) # None PROVE buffer'[Owner(d)] = {}
    <3>1. pc[d] = "opening" /\ Owner(d) \in Call
      BY <2>2, Context
    <3> QED
      BY <1>1, <2>2, <3>1 DEF BufferInv
  <2> QED
    BY <1>1, <2>1, <2>2
<1>3. ASSUME NEW d \in Call, pc'[d] \in {"run", "flush"}, trx'[d] # "none"
      PROVE  buffer'[Owner(d)'] = Done(d, "emit")'
  <2>1. d # c /\ pc[d] \in {"run", "flush"} /\ trx[d] # "none"
    BY <1>3
  <2>2. Owner(d) \in Call /\ DocOf[Owner(d)] = DocOf[d]
    BY <2>1, Context DEF HolderInv
  <2>3. CASE Owner(d) = Owner(c)
    BY <1>1, <2>1, <2>2, <2>3, Parallel, Quiet DEF Active
  <2>4. CASE Owner(d) # Owner(c)
    BY <1>1, <2>1, <2>2, <2>4 DEF BufferInv
  <2> QED
    BY <2>3, <2>4
<1> QED
  BY <1>2, <1>3 DEF BufferInv

\* However a call throws, its transaction ends with it, and whatever else it
\* held goes with its context; only a COMMIT whose answer is lost leaves
\* something behind.
LEMMA ThrowStep ==
  ASSUME IInv, NEW c \in Call, pc[c] \in Active,
         NEW hit \in SUBSET Call, \A d \in hit : DocOf[d] = DocOf[c],
         Throw(c, hit),
         UNCHANGED <<path, at, holder, batch>>,
         \/ buffer' = buffer
         \/ pc[c] = "flush" /\ buffer' = [buffer EXCEPT ![Owner(c)] = {}],
         core' \in {core, core \cup pending[c]},
         core' # core => pc[c] = "commit" /\ trx[c] = "open",
         log \subseteq log', log' \subseteq Effect
  PROVE  IInv'
<1> USE DEF IInv
<1>1. /\ pc' = [pc EXCEPT ![c] = "error"]
      /\ trx' = [d \in Call |->
                   IF d = c /\ Live(d) THEN "rolledBack"
                   ELSE IF d \in hit /\ Live(d) THEN "aborted" ELSE trx[d]]
      /\ pending' = [pending EXCEPT ![c] = {}]
  BY DEF Throw, Goto
<1>2. /\ pc' \in [Call -> Label] /\ pc'[c] = "error"
      /\ \A d \in Call \ {c} : pc'[d] = pc[d]
      /\ pending' \in [Call -> SUBSET Effect] /\ pending'[c] = {}
      /\ \A d \in Call \ {c} : pending'[d] = pending[d]
  BY <1>1 DEF TypeOK, Label
<1>3. \A d \in Call : /\ Writes(d)' = Writes(d) /\ Events(d)' = Events(d)
                      /\ Done(d, "write")' = Done(d, "write")
                      /\ Done(d, "emit")' = Done(d, "emit")
                      /\ Steps(d)' = Steps(d) /\ ServiceOf(d)' = ServiceOf(d)
                      /\ Owner(d)' = Owner(d)
  BY Frame DEF Owner
<1>4. \A d \in Call : /\ Live(d)' <=> Live(d) /\ d # c
                      /\ trx'[d] = "none" <=> trx[d] = "none"
                      /\ trx'[d] = "open" => trx[d] = "open"
                      /\ trx'[d] \in {"none", "open", "aborted", "committed", "rolledBack"}
  BY <1>1 DEF Live, TypeOK
<1>5. ASSUME NEW d \in Call, trx'[d] = "aborted" PROVE ReadOnly(d)
  <2>1. CASE trx[d] = "aborted"
    BY <2>1 DEF QueryInv
  <2>2. CASE trx[d] # "aborted"
    <3>1. d # c /\ d \in hit /\ Live(d)
      BY <1>1, <1>5, <2>2
    <3>2. DocOf[d] = DocOf[c]
      BY <3>1
    <3>3. pc[d] \in Active
      BY <3>1 DEF TrxInv, TypeOK, Label, Active, Live
    <3> QED
      BY <3>1, <3>2, <3>3, Parallel
  <2> QED
    BY <2>1, <2>2
<1>6. TypeOK'
  <2>1. core' \subseteq Effect /\ buffer' \in [Call -> SUBSET Effect]
    BY <1>2 DEF TypeOK
  <2>2. trx' \in [Call -> {"none", "open", "aborted", "committed", "rolledBack"}]
    BY <1>1, <1>4
  <2> QED
    BY <1>2, <2>1, <2>2 DEF TypeOK
<1>7. PlaceInv'
  BY <1>2, <1>3 DEF PlaceInv
<1>8. TrxInv'
  BY <1>2, <1>4 DEF TrxInv
<1>9. OrderInv'
  BY <1>2, <1>4, OrderStays
<1>10. HolderInv' /\ OwnInv'
  BY <1>2, <1>4, ContextStays DEF HolderInv
<1>11. QueryInv'
  BY <1>3, <1>4, <1>5 DEF QueryInv
<1>12. PendingInv'
  BY <1>2, <1>3, <1>4 DEF PendingInv
<1>13. BufferInv'
  <2>1. CASE buffer' = buffer
    BY <1>2, <1>3, <1>4, <2>1 DEF BufferInv
  <2>2. CASE pc[c] = "flush" /\ buffer' = [buffer EXCEPT ![Owner(c)] = {}]
    BY <1>2, <1>3, <1>4, <2>2, FlushedBuffer DEF Active
  <2> QED
    BY <2>1, <2>2
<1>14. LogInv'
  BY <1>2, <1>3 DEF LogInv
<1>15. RefusedInv'
  BY <1>2, <1>3, <1>4 DEF RefusedInv
<1>16. core' # core => core' = core \cup Writes(c) /\ Events(c) \subseteq log
  BY AllDone DEF PlaceInv, PendingInv, LogInv, Live
<1>17. ASSUME NEW d \in Call, d # c
       PROVE  Writes(d) \cap core' = Writes(d) \cap core
  BY <1>16, <1>17, Apart
<1>18. CommitInv'
  <2>1. ASSUME core' # core, Writes(c) # {} PROVE Owner(c) = c /\ trx'[c] = "rolledBack"
    BY <1>1, <2>1, Quiet DEF QueryInv, Live
  <2>2. ASSUME NEW d \in Call, Writes(d) \cap core' # {} PROVE Owner(d) = d
    BY <1>17, <2>1, <2>2 DEF CommitInv
  <2>3. ASSUME NEW d \in Call, trx'[d] = "none" \/ Live(d)' PROVE Writes(d) \cap core' = {}
    BY <1>4, <1>17, <2>1, <2>3 DEF CommitInv
  <2> QED
    BY <1>3, <2>2, <2>3 DEF CommitInv
<1>19. ChangesAreAudited'
  <2>1. ASSUME NEW d \in Call, Writes(d) \cap core' # {}
        PROVE  Writes(d) \subseteq core' /\ Events(d) \subseteq log'
    BY <1>16, <1>17, <2>1 DEF ChangesAreAudited
  <2> QED
    BY <1>3, <2>1 DEF ChangesAreAudited
<1>20. OkMeansDone'
  BY <1>2, <1>3 DEF OkMeansDone
<1> QED
  BY <1>6, <1>7, <1>8, <1>9, <1>10, <1>11, <1>12, <1>13, <1>14, <1>15, <1>18, <1>19, <1>20

LEMMA FailureStep ==
  ASSUME IInv, NEW c \in Call,
         \/ OpenFails(c) \/ StatementFails(c) \/ Refused(c) \/ Throws(c)
         \/ TooLarge(c) \/ LogFails(c) \/ CommitFails(c)
  PROVE  IInv'
<1>1. CASE OpenFails(c)
  BY <1>1, ThrowStep DEF OpenFails, Active, IInv, TypeOK
<1>2. CASE StatementFails(c)
  <2>1. Lender(c) \in Call /\ DocOf[Lender(c)] = DocOf[c]
    BY <1>2, Lent DEF StatementFails, IInv
  <2> QED
    BY <1>2, <2>1, ThrowStep DEF StatementFails, NextIs, Active, IInv, TypeOK
<1>3. CASE Refused(c)
  BY <1>3, ThrowStep DEF Refused, NextIs, Active, IInv, TypeOK
<1>4. CASE Throws(c)
  BY <1>4, ThrowStep DEF Throws, Active, IInv, TypeOK
<1>5. CASE TooLarge(c)
  BY <1>5, ThrowStep DEF TooLarge, Active, IInv, TypeOK
<1>6. CASE LogFails(c)
  <2>1. log' \subseteq Effect
    BY <1>6 DEF LogFails, IInv, TypeOK
  <2> QED
    BY <1>6, <2>1, ThrowStep DEF LogFails, Active
<1>7. CASE CommitFails(c)
  BY <1>7, ThrowStep DEF CommitFails, Active, IInv, TypeOK
<1> QED
  BY <1>1, <1>2, <1>3, <1>4, <1>5, <1>6, <1>7

-----------------------------------------------------------------------------
\* The next step of a method adds to what its call has done, and to what the
\* context holds, at once.
WriteNow(c) == IF Steps(c)[at[c]] = "write" THEN {<<c, at[c]>>} ELSE {}
EmitNow(c) == IF Steps(c)[at[c]] = "emit" THEN {<<c, at[c]>>} ELSE {}

LEMMA AdvanceStep ==
  ASSUME IInv, NEW c \in Call, NextIs(c, Kind), Advance(c),
         Steps(c)[at[c]] \in Statements => trx[Lender(c)] = "open",
         pending' = [pending EXCEPT ![Owner(c)] = @ \cup WriteNow(c)],
         buffer' = [buffer EXCEPT ![Owner(c)] = @ \cup EmitNow(c)],
         UNCHANGED <<path, pc, holder, trx, batch, core, log>>
  PROVE  IInv'
<1> USE DEF IInv
<1>1. /\ pc[c] = "run" /\ pc[c] \in Active /\ at[c] <= Len(Steps(c))
      /\ Steps(c) \in Seq(Kind) /\ at[c] \in 1..Len(Steps(c))
      /\ at' \in [Call -> Nat \ {0}] /\ at'[c] = at[c] + 1
      /\ \A d \in Call \ {c} : at'[d] = at[d]
      /\ Owner(c) \in Call /\ DocOf[Owner(c)] = DocOf[c] /\ trx[Owner(c)] # "none"
  <2>1. pc[c] = "run" /\ Steps(c) \in Seq(Kind) /\ at[c] \in Nat \ {0}
    BY StepsType DEF NextIs, TypeOK
  <2>2. at[c] <= Len(Steps(c)) /\ at[c] \in 1..Len(Steps(c))
    BY <2>1, LenProperties DEF NextIs
  <2>3. Owner(c) # None
    BY <2>1 DEF HolderInv
  <2>4. Owner(c) \in Call /\ DocOf[Owner(c)] = DocOf[c] /\ trx[Owner(c)] # "none"
    BY <2>3, Context
  <2>5. /\ at' \in [Call -> Nat \ {0}] /\ at'[c] = at[c] + 1
        /\ \A d \in Call \ {c} : at'[d] = at[d]
    BY <2>1 DEF Advance, TypeOK
  <2> QED
    BY <2>1, <2>2, <2>3, <2>4, <2>5 DEF Active
<1>2. \A d \in Call : /\ Writes(d)' = Writes(d) /\ Events(d)' = Events(d)
                      /\ Owner(d)' = Owner(d) /\ Live(d)' = Live(d)
                      /\ Steps(d)' = Steps(d)
                      /\ d # c => /\ Done(d, "write")' = Done(d, "write")
                                  /\ Done(d, "emit")' = Done(d, "emit")
  BY <1>1, Frame DEF Owner, Live
<1>3. /\ Done(c, "write")' = Done(c, "write") \cup WriteNow(c)
      /\ Done(c, "emit")' = Done(c, "emit") \cup EmitNow(c)
  BY <1>1, AdvanceDone DEF WriteNow, EmitNow
<1>4. ReadOnly(c) => WriteNow(c) = {} /\ EmitNow(c) = {}
  BY <1>1 DEF ReadOnly, Has, Steps, PlaceInv, WriteNow, EmitNow
<1>5. Steps(c)[at[c]] \in Statements => (Lender(c) = c /\ trx[c] = "open") \/ ReadOnly(c)
  <2> SUFFICES ASSUME Steps(c)[at[c]] \in Statements, Lender(c) # c
               PROVE  ReadOnly(c)
    OBVIOUS
  <2>1. NextIs(c, Statements) /\ trx[Lender(c)] = "open"
    BY DEF NextIs
  <2>2. Lender(c) \in Call /\ DocOf[Lender(c)] = DocOf[c]
    BY <2>1, Lent
  <2>3. pc[Lender(c)] \in Active
    BY <2>1, <2>2 DEF TrxInv, TypeOK, Label, Active, Live
  <2> QED
    BY <1>1, <2>2, <2>3, Parallel
<1>6. WriteNow(c) # {} => Owner(c) = c /\ Live(c)
  BY <1>4, <1>5 DEF WriteNow, Statements, Lender, Live
<1>7. TypeOK'
  <2>1. WriteNow(c) \subseteq Effect /\ EmitNow(c) \subseteq Effect
    BY <1>1 DEF WriteNow, EmitNow, Effect, TypeOK
  <2> QED
    BY <1>1, <2>1 DEF TypeOK
<1>8. PlaceInv'
  BY <1>1, <1>2 DEF PlaceInv
<1>9. TrxInv' /\ OrderInv' /\ HolderInv' /\ OwnInv' /\ QueryInv'
  <2>1. TrxInv' /\ OrderInv'
    BY <1>2 DEF TrxInv, OrderInv, Answered
  <2>2. HolderInv' /\ OwnInv'
    BY ContextStays DEF HolderInv
  <2> QED
    BY <1>2, <2>1, <2>2 DEF QueryInv
<1>10. PendingInv'
  <2>1. pending'[c] = pending[c] \cup WriteNow(c)
    BY <1>1, <1>6 DEF TypeOK
  <2>2. \A d \in Call \ {c} : pending'[d] = pending[d]
    BY <1>1, <1>6 DEF TypeOK
  <2>3. pending'[c] = IF Live(c) THEN Done(c, "write")' ELSE {}
    BY <1>3, <1>6, <2>1 DEF PendingInv
  <2> QED
    BY <1>2, <2>2, <2>3 DEF PendingInv
<1>11. BufferInv'
  <2>1. \A e \in Call :
          buffer'[e] = IF e = Owner(c) THEN buffer[e] \cup EmitNow(c) ELSE buffer[e]
    BY <1>1 DEF TypeOK
  <2>2. ASSUME NEW d \in Call, d # c, pc[d] \in Active, Owner(d) # None
        PROVE  buffer'[Owner(d)] = buffer[Owner(d)]
    <3>1. Owner(d) \in Call /\ DocOf[Owner(d)] = DocOf[d]
      BY <2>2, Context
    <3>2. CASE Owner(d) = Owner(c)
      BY <1>1, <1>4, <2>1, <2>2, <3>1, <3>2, Parallel
    <3> QED
      BY <2>1, <3>1, <3>2
  <2>3. ASSUME NEW d \in Call
        PROVE  /\ trx[d] = "none" => buffer'[d] = {}
               /\ pc[d] = "opening" /\ Owner(d) # None => buffer'[Owner(d)] = {}
    BY <1>1, <2>1, <2>2 DEF BufferInv, Active
  <2>4. ASSUME NEW d \in Call, pc[d] \in {"run", "flush"}, trx[d] # "none"
        PROVE  buffer'[Owner(d)] = Done(d, "emit")'
    <3>1. Owner(d) # None
      BY <2>4 DEF HolderInv
    <3> QED
      BY <1>1, <1>2, <1>3, <2>1, <2>2, <2>4, <3>1 DEF BufferInv, Active
  <2> QED
    BY <1>2, <2>3, <2>4 DEF BufferInv
<1>12. LogInv'
  BY <1>2 DEF LogInv
<1>13. RefusedInv'
  <2>1. ASSUME NEW d \in Call, pc[d] = "run", trx[d] = "none", ~ReadOnly(d),
               NEW k \in 1..Len(Steps(d)), k < at'[d]
        PROVE  Steps(d)[k] \notin Statements
    <3>1. CASE d = c /\ k = at[c]
      BY <1>5, <2>1, <3>1
    <3>2. CASE d # c \/ k # at[c]
      <4>1. at[d] \in Nat /\ k \in Nat
        BY <1>1, <2>1, StepsType, LenProperties DEF TypeOK
      <4>2. k < at[d]
        BY <1>1, <2>1, <3>2, <4>1
      <4> QED
        BY <2>1, <4>2 DEF RefusedInv
    <3> QED
      BY <3>1, <3>2
  <2> QED
    BY <1>2, <2>1 DEF RefusedInv
<1>14. CommitInv' /\ ChangesAreAudited' /\ OkMeansDone'
  BY <1>2 DEF CommitInv, ChangesAreAudited, OkMeansDone
<1> QED
  BY <1>7, <1>8, <1>9, <1>10, <1>11, <1>12, <1>13, <1>14

LEMMA MethodStep ==
  ASSUME IInv, NEW c \in Call, Statement(c) \/ Emit(c) \/ Other(c)
  PROVE  IInv'
<1>1. /\ NextIs(c, Kind)
      /\ \A d : pending = [pending EXCEPT ![d] = @ \cup {}]
      /\ \A d : buffer = [buffer EXCEPT ![d] = @ \cup {}]
  BY DEF Statement, Emit, Other, NextIs, Statements, Kind, IInv, TypeOK
<1>2. CASE Statement(c)
  <2>1. EmitNow(c) = {}
    BY <1>2 DEF Statement, NextIs, Statements, EmitNow
  <2>2. pending' = [pending EXCEPT ![Lender(c)] = @ \cup WriteNow(c)]
    BY <1>2 DEF Statement, WriteNow
  <2>3. pending' = [pending EXCEPT ![Owner(c)] = @ \cup WriteNow(c)]
    <3>1. CASE Steps(c)[at[c]] = "write"
      BY <2>2, <3>1 DEF Lender
    <3>2. CASE Steps(c)[at[c]] # "write"
      BY <1>1, <2>2, <3>2 DEF WriteNow
    <3> QED
      BY <3>1, <3>2
  <2> QED
    BY <1>1, <1>2, <2>1, <2>3, AdvanceStep DEF Statement
<1>3. CASE Emit(c)
  <2>1. WriteNow(c) = {} /\ EmitNow(c) = {<<c, at[c]>>}
    BY <1>3 DEF Emit, NextIs, WriteNow, EmitNow
  <2>2. Steps(c)[at[c]] \notin Statements
    BY <1>3 DEF Emit, NextIs, Statements
  <2> QED
    BY <1>1, <1>3, <2>1, <2>2, AdvanceStep DEF Emit
<1>4. CASE Other(c)
  <2>1. WriteNow(c) = {} /\ EmitNow(c) = {}
    BY <1>4 DEF Other, NextIs, WriteNow, EmitNow
  <2>2. Steps(c)[at[c]] \notin Statements
    BY <1>4 DEF Other, NextIs, Statements
  <2> QED
    BY <1>1, <1>4, <2>1, <2>2, AdvanceStep DEF Other
<1> QED
  BY <1>2, <1>3, <1>4

-----------------------------------------------------------------------------
\* A call without a transaction of its own has nothing left to do when it
\* returns: it is a query, or was let through no statement.
LEMMA ReturnStep ==
  ASSUME IInv, NEW c \in Call, Return(c)
  PROVE  IInv'
<1> USE DEF IInv
<1>1. /\ pc[c] = "run" /\ at[c] > Len(Steps(c))
      /\ pc' = [pc EXCEPT ![c] = IF trx[c] # "none" THEN "flush" ELSE "ok"]
      /\ UNCHANGED <<path, at, holder, trx, pending, buffer, batch, core, log>>
  BY DEF Return, Goto
<1>2. /\ pc' \in [Call -> Label] /\ pc'[c] \in {"flush", "ok"}
      /\ \A d \in Call \ {c} : pc'[d] = pc[d]
      /\ pc'[c] = "flush" <=> trx[c] # "none"
  BY <1>1 DEF TypeOK, Label
<1>3. \A d \in Call : /\ Writes(d)' = Writes(d) /\ Events(d)' = Events(d)
                      /\ Done(d, "write")' = Done(d, "write")
                      /\ Done(d, "emit")' = Done(d, "emit")
                      /\ Owner(d)' = Owner(d) /\ Live(d)' = Live(d)
                      /\ Steps(d)' = Steps(d) /\ ServiceOf(d)' = ServiceOf(d)
  BY <1>1, Frame DEF Owner, Live
<1>4. TypeOK' /\ PlaceInv'
  BY <1>1, <1>2, <1>3 DEF TypeOK, PlaceInv
<1>5. TrxInv'
  BY <1>1, <1>2, <1>3 DEF TrxInv, Live
<1>6. OrderInv'
  BY <1>1, <1>2, OrderStays DEF Active
<1>7. HolderInv' /\ OwnInv'
  BY <1>1, <1>2, ContextStays DEF HolderInv
<1>8. QueryInv' /\ PendingInv' /\ CommitInv' /\ ChangesAreAudited'
  BY <1>1, <1>3 DEF QueryInv, PendingInv, CommitInv, ChangesAreAudited
<1>9. BufferInv'
  BY <1>1, <1>2, <1>3 DEF BufferInv
<1>10. LogInv' /\ RefusedInv'
  BY <1>1, <1>2, <1>3 DEF LogInv, RefusedInv
<1>11. OkMeansDone'
  <2>1. ASSUME trx[c] = "none" PROVE Writes(c) = {} /\ Events(c) = {}
    <3>1. CASE ReadOnly(c)
      BY <3>1, Quiet
    <3>2. CASE ~ReadOnly(c)
      <4>1. Steps(c) \in Seq(Kind) /\ at[c] \in Nat
        BY StepsType DEF TypeOK
      <4>2. \A k \in 1..Len(Steps(c)) : Steps(c)[k] \notin Statements
        BY <1>1, <2>1, <3>2, <4>1, LenProperties DEF RefusedInv
      <4>3. \A k \in 1..Len(Steps(c)) : Steps(c)[k] # "emit"
        <5>1. ~Has(path[c], Statements)
          BY <4>2 DEF Has, Steps
        <5>2. ~Has(path[c], {"emit"})
          BY <5>1, RequestsAssumption DEF PlaceInv
        <5> QED
          BY <5>2 DEF Has, Steps
      <4> QED
        BY <4>2, <4>3 DEF Writes, Events, Effects, Statements
    <3> QED
      BY <3>1, <3>2
  <2> QED
    BY <1>1, <1>2, <1>3, <2>1 DEF OkMeansDone
<1> QED
  BY <1>4, <1>5, <1>6, <1>7, <1>8, <1>9, <1>10, <1>11

\* The buffer holds what the call has put there, all its events.
LEMMA FlushStep ==
  ASSUME IInv, NEW c \in Call, Flush(c)
  PROVE  IInv'
<1> USE DEF IInv
<1>1. /\ pc[c] = "flush" /\ at[c] > Len(Steps(c)) /\ trx[c] # "none"
      /\ pc' = [pc EXCEPT ![c] = IF buffer[Owner(c)] = {} THEN "commit" ELSE "logging"]
      /\ buffer' = [buffer EXCEPT ![Owner(c)] = {}]
      /\ batch' = [batch EXCEPT ![c] = buffer[Owner(c)]]
      /\ UNCHANGED <<path, at, holder, trx, pending, core, log>>
  BY DEF Flush, Goto, PlaceInv, TrxInv, Live
<1>2. buffer[Owner(c)] = Events(c)
  BY <1>1, AllDone DEF BufferInv
<1>3. /\ pc' \in [Call -> Label] /\ pc'[c] \in {"commit", "logging"}
      /\ \A d \in Call \ {c} : pc'[d] = pc[d] /\ batch'[d] = batch[d]
      /\ pc'[c] = "commit" => Events(c) = {}
      /\ batch'[c] = Events(c)
  BY <1>1, <1>2 DEF TypeOK, Label
<1>4. \A d \in Call : /\ Writes(d)' = Writes(d) /\ Events(d)' = Events(d)
                      /\ Done(d, "write")' = Done(d, "write")
                      /\ Done(d, "emit")' = Done(d, "emit")
                      /\ Owner(d)' = Owner(d) /\ Live(d)' = Live(d)
                      /\ Steps(d)' = Steps(d) /\ ServiceOf(d)' = ServiceOf(d)
  BY <1>1, Frame DEF Owner, Live
<1>5. TypeOK'
  <2>1. buffer' \in [Call -> SUBSET Effect] /\ batch' \in [Call -> SUBSET Effect]
    BY <1>1, <1>2, EffectsType DEF TypeOK
  <2> QED
    BY <1>1, <1>3, <2>1 DEF TypeOK
<1>6. PlaceInv' /\ TrxInv'
  BY <1>1, <1>3, <1>4 DEF PlaceInv, TrxInv
<1>7. OrderInv'
  BY <1>1, <1>3, OrderStays DEF Active
<1>8. HolderInv' /\ OwnInv' /\ QueryInv' /\ PendingInv' /\ CommitInv' /\ ChangesAreAudited'
  <2>1. HolderInv' /\ OwnInv'
    BY <1>1, <1>3, ContextStays DEF HolderInv
  <2>2. QueryInv' /\ PendingInv'
    BY <1>1, <1>4 DEF QueryInv, PendingInv
  <2> QED
    BY <1>1, <1>4, <2>1, <2>2 DEF CommitInv, ChangesAreAudited
<1>9. BufferInv'
  BY <1>1, <1>3, FlushedBuffer
<1>10. LogInv'
  BY <1>1, <1>3, <1>4 DEF LogInv
<1>11. RefusedInv' /\ OkMeansDone'
  BY <1>1, <1>3, <1>4 DEF RefusedInv, OkMeansDone
<1> QED
  BY <1>5, <1>6, <1>7, <1>8, <1>9, <1>10, <1>11

LEMMA LogInsertStep ==
  ASSUME IInv, NEW c \in Call, LogInsert(c)
  PROVE  IInv'
<1> USE DEF IInv
<1>1. /\ pc[c] = "logging" /\ batch[c] = Events(c)
      /\ pc' = [pc EXCEPT ![c] = "commit"]
      /\ log' = log \cup batch[c]
      /\ UNCHANGED <<path, at, holder, trx, pending, buffer, batch, core>>
  BY DEF LogInsert, Goto, LogInv
<1>2. /\ pc' \in [Call -> Label] /\ pc'[c] = "commit"
      /\ \A d \in Call \ {c} : pc'[d] = pc[d]
      /\ log \subseteq log' /\ Events(c) \subseteq log' /\ log' \subseteq Effect
  BY <1>1 DEF TypeOK, Label
<1>3. \A d \in Call : /\ Writes(d)' = Writes(d) /\ Events(d)' = Events(d)
                      /\ Done(d, "write")' = Done(d, "write")
                      /\ Done(d, "emit")' = Done(d, "emit")
                      /\ Owner(d)' = Owner(d) /\ Live(d)' = Live(d)
                      /\ Steps(d)' = Steps(d) /\ ServiceOf(d)' = ServiceOf(d)
  BY <1>1, Frame DEF Owner, Live
<1>4. TypeOK' /\ PlaceInv' /\ TrxInv'
  BY <1>1, <1>2, <1>3 DEF TypeOK, PlaceInv, TrxInv
<1>5. OrderInv'
  BY <1>1, <1>2, OrderStays DEF Active
<1>6. HolderInv' /\ OwnInv'
  BY <1>1, <1>2, ContextStays DEF HolderInv
<1>7. QueryInv' /\ PendingInv' /\ CommitInv'
  BY <1>1, <1>3 DEF QueryInv, PendingInv, CommitInv
<1>8. BufferInv' /\ LogInv'
  BY <1>1, <1>2, <1>3 DEF BufferInv, LogInv
<1>9. RefusedInv'
  BY <1>1, <1>2, <1>3 DEF RefusedInv
<1>10. ChangesAreAudited' /\ OkMeansDone'
  BY <1>1, <1>2, <1>3 DEF ChangesAreAudited, OkMeansDone
<1> QED
  BY <1>4, <1>5, <1>6, <1>7, <1>8, <1>9, <1>10

\* COMMIT brings the writes of one call, whose events are stored, or nothing.
LEMMA CommitStep ==
  ASSUME IInv, NEW c \in Call, Commit(c)
  PROVE  IInv'
<1> USE DEF IInv
<1>1. /\ pc[c] = "commit" /\ at[c] > Len(Steps(c)) /\ Live(c) /\ Events(c) \subseteq log
      /\ pc' = [pc EXCEPT ![c] = "ok"]
      /\ core' = IF trx[c] = "open" THEN core \cup pending[c] ELSE core
      /\ trx' = [trx EXCEPT ![c] = IF @ = "open" THEN "committed" ELSE "rolledBack"]
      /\ pending' = [pending EXCEPT ![c] = {}]
      /\ UNCHANGED <<path, at, holder, buffer, batch, log>>
  BY DEF Commit, Goto, PlaceInv, TrxInv, LogInv
<1>2. pending[c] = Writes(c)
  BY <1>1, AllDone DEF PendingInv
<1>3. core' = core \cup Writes(c)
  <2>1. CASE trx[c] = "open"
    BY <1>1, <1>2, <2>1
  <2>2. CASE trx[c] = "aborted"
    BY <1>1, <2>2, Quiet DEF QueryInv
  <2> QED
    BY <1>1, <2>1, <2>2 DEF Live
<1>4. Writes(c) # {} => Owner(c) = c
  BY <1>1, Quiet DEF QueryInv, Live
<1>5. /\ pc' \in [Call -> Label] /\ pc'[c] = "ok"
      /\ \A d \in Call \ {c} : pc'[d] = pc[d]
      /\ trx'[c] \in {"committed", "rolledBack"}
      /\ \A d \in Call \ {c} : trx'[d] = trx[d]
      /\ pending'[c] = {}
      /\ \A d \in Call \ {c} : pending'[d] = pending[d]
  BY <1>1 DEF TypeOK, Label
<1>6. \A d \in Call : /\ Writes(d)' = Writes(d) /\ Events(d)' = Events(d)
                      /\ Done(d, "write")' = Done(d, "write")
                      /\ Done(d, "emit")' = Done(d, "emit")
                      /\ Owner(d)' = Owner(d) /\ Steps(d)' = Steps(d)
                      /\ Live(d)' <=> Live(d) /\ d # c
                      /\ trx'[d] = "none" <=> trx[d] = "none"
  BY <1>1, <1>5, Frame DEF Owner, Live
<1>7. TypeOK'
  BY <1>1, <1>3, <1>5, EffectsType DEF TypeOK
<1>8. PlaceInv' /\ TrxInv'
  BY <1>1, <1>5, <1>6 DEF PlaceInv, TrxInv
<1>9. OrderInv'
  BY <1>1, <1>5, OrderStays DEF Active
<1>10. HolderInv' /\ OwnInv'
  BY <1>1, <1>5, <1>6, ContextStays DEF HolderInv
<1>11. QueryInv'
  BY <1>1, <1>5, <1>6 DEF QueryInv
<1>12. PendingInv'
  BY <1>5, <1>6 DEF PendingInv
<1>13. BufferInv' /\ LogInv'
  BY <1>1, <1>5, <1>6 DEF BufferInv, LogInv
<1>14. RefusedInv'
  BY <1>1, <1>5, <1>6 DEF RefusedInv
<1>15. ASSUME NEW d \in Call, d # c
       PROVE  Writes(d) \cap core' = Writes(d) \cap core
  BY <1>3, <1>15, Apart
<1>16. CommitInv'
  <2>1. ASSUME NEW d \in Call, Writes(d) \cap core' # {} PROVE Owner(d) = d
    BY <1>4, <1>15, <2>1 DEF CommitInv
  <2>2. ASSUME NEW d \in Call, trx'[d] = "none" \/ Live(d)' PROVE Writes(d) \cap core' = {}
    BY <1>5, <1>6, <1>15, <2>2 DEF CommitInv
  <2> QED
    BY <1>6, <2>1, <2>2 DEF CommitInv
<1>17. ChangesAreAudited'
  <2>1. ASSUME NEW d \in Call, Writes(d) \cap core' # {}
        PROVE  Writes(d) \subseteq core' /\ Events(d) \subseteq log
    BY <1>1, <1>3, <1>15, <2>1 DEF ChangesAreAudited
  <2> QED
    BY <1>1, <1>6, <2>1 DEF ChangesAreAudited
<1>18. OkMeansDone'
  BY <1>1, <1>3, <1>5, <1>6 DEF OkMeansDone
<1> QED
  BY <1>7, <1>8, <1>9, <1>10, <1>11, <1>12, <1>13, <1>14, <1>16, <1>17, <1>18

\* What was under way is gone; what was stored or committed is still whole.
LEMMA CrashStep == IInv /\ Crash => IInv'
<1> SUFFICES ASSUME IInv, Crash PROVE IInv'
  OBVIOUS
<1> USE DEF IInv
<1>1. /\ pc' = [c \in Call |-> IF Begun(DocOf[c]) /\ ~Answered(c) THEN "dead" ELSE pc[c]]
      /\ trx' = [c \in Call |-> IF Live(c) THEN "rolledBack" ELSE trx[c]]
      /\ pending' = [c \in Call |-> {}]
      /\ buffer' = [c \in Call |-> {}]
      /\ batch' = [c \in Call |-> {}]
      /\ UNCHANGED <<path, at, holder, core, log>>
  BY DEF Crash
<1>2. \A c \in Call : /\ pc'[c] \in {"waiting", "ok", "error", "dead"}
                      /\ pc'[c] = "waiting" => pc[c] = "waiting"
                      /\ Answered(c)' <=> Answered(c)
                      /\ pc'[c] = "ok" <=> pc[c] = "ok"
  BY <1>1 DEF TypeOK, Label, Begun, Answered
<1>3. \A c \in Call : /\ trx'[c] \in {"none", "committed", "rolledBack"}
                      /\ ~Live(c)'
                      /\ trx'[c] = "none" <=> trx[c] = "none"
  BY <1>1 DEF TypeOK, Live
<1>4. \A c \in Call : /\ Writes(c)' = Writes(c) /\ Events(c)' = Events(c)
                      /\ Owner(c)' = Owner(c)
                      /\ Owner(c) # None => Owner(c) \in Call
  BY <1>1, Frame, Context DEF Owner
<1>5. TypeOK'
  <2>1. pc' \in [Call -> Label]
    BY <1>1, <1>2 DEF Label
  <2>2. trx' \in [Call -> {"none", "open", "aborted", "committed", "rolledBack"}]
    BY <1>1, <1>3
  <2> QED
    BY <1>1, <2>1, <2>2 DEF TypeOK
<1>6. PlaceInv' /\ TrxInv'
  BY <1>1, <1>2, <1>3 DEF PlaceInv, TrxInv
<1>7. OrderInv'
  <2>1. \A c \in Call : pc'[c] \notin {"waiting", "dead"} => Answered(c)
    BY <1>2 DEF Answered
  <2>2. \A c \in Call : Before[c] \subseteq Call
    BY RequestsAssumption
  <2> QED
    BY <1>2, <1>3, <2>1, <2>2 DEF OrderInv, Answered
<1>8. HolderInv' /\ OwnInv'
  BY <1>1, <1>2, <1>3, ContextStays
<1>9. QueryInv'
  BY <1>3, <1>4 DEF QueryInv
<1>10. PendingInv' /\ BufferInv' /\ LogInv'
  BY <1>1, <1>2, <1>3, <1>4 DEF PendingInv, BufferInv, LogInv
<1>11. RefusedInv'
  BY <1>2 DEF RefusedInv
<1>12. CommitInv' /\ ChangesAreAudited' /\ OkMeansDone'
  BY <1>1, <1>2, <1>3, <1>4 DEF CommitInv, ChangesAreAudited, OkMeansDone
<1> QED
  BY <1>5, <1>6, <1>7, <1>8, <1>9, <1>10, <1>11, <1>12

-----------------------------------------------------------------------------
LEMMA NextInv == IInv /\ [Next]_vars => IInv'
<1> SUFFICES ASSUME IInv, [Next]_vars PROVE IInv'
  OBVIOUS
<1>1. CASE Next
  <2>1. ASSUME NEW c \in Call, Invoke(c) PROVE IInv'
    BY <2>1, InvokeStep
  <2>2. ASSUME NEW c \in Call, Step(c) PROVE IInv'
    <3>1. CASE Open(c)
      BY <3>1, OpenStep
    <3>2. CASE \/ OpenFails(c) \/ StatementFails(c) \/ Refused(c) \/ Throws(c)
               \/ TooLarge(c) \/ LogFails(c) \/ CommitFails(c)
      BY <3>2, FailureStep
    <3>3. CASE Statement(c) \/ Emit(c) \/ Other(c)
      BY <3>3, MethodStep
    <3>4. CASE Return(c)
      BY <3>4, ReturnStep
    <3>5. CASE Flush(c)
      BY <3>5, FlushStep
    <3>6. CASE LogInsert(c)
      BY <3>6, LogInsertStep
    <3>7. CASE Commit(c)
      BY <3>7, CommitStep
    <3> QED
      BY <2>2, <3>1, <3>2, <3>3, <3>4, <3>5, <3>6, <3>7 DEF Step
  <2> QED
    BY <1>1, <2>1, <2>2, CrashStep DEF Next
<1>2. CASE UNCHANGED vars
  <2>1. \A c \in Call : /\ Writes(c)' = Writes(c) /\ Events(c)' = Events(c)
                        /\ Done(c, "write")' = Done(c, "write")
                        /\ Done(c, "emit")' = Done(c, "emit")
                        /\ Owner(c)' = Owner(c) /\ Live(c)' = Live(c)
                        /\ Steps(c)' = Steps(c)
    BY <1>2, Frame DEF vars, Owner, Live
  <2>2. TypeOK' /\ PlaceInv' /\ TrxInv' /\ OrderInv'
    BY <1>2, <2>1 DEF vars, IInv, TypeOK, PlaceInv, TrxInv, OrderInv, Answered
  <2>3. HolderInv' /\ OwnInv' /\ QueryInv' /\ PendingInv' /\ BufferInv'
    <3>1. HolderInv' /\ OwnInv'
      BY <1>2, ContextStays DEF vars, IInv, HolderInv
    <3> QED
      BY <1>2, <2>1, <3>1 DEF vars, IInv, QueryInv, PendingInv, BufferInv
  <2>4. LogInv' /\ RefusedInv' /\ CommitInv' /\ ChangesAreAudited' /\ OkMeansDone'
    BY <1>2, <2>1 DEF vars, IInv, LogInv, RefusedInv, CommitInv, ChangesAreAudited,
                      OkMeansDone
  <2> QED
    BY <2>2, <2>3, <2>4 DEF IInv
<1> QED
  BY <1>1, <1>2

LEMMA Invariance == Spec => []IInv
BY InitInv, NextInv, PTL DEF Spec

\* The context, the transactions and the databases keep to their types, in
\* any number of documents.
THEOREM RequestTypes == Spec => []TypeOK
<1>1. IInv => TypeOK
  BY DEF IInv
<1> QED
  BY <1>1, Invariance, PTL

\* No change of the core database without its events in the log database.
THEOREM AuditTrail == Spec => []ChangesAreAudited
<1>1. IInv => ChangesAreAudited
  BY DEF IInv
<1> QED
  BY <1>1, Invariance, PTL

\* A method that reports success has had its effects, whatever transaction it
\* found on its service.
THEOREM SuccessIsHonest == Spec => []OkMeansDone
<1>1. IInv => OkMeansDone
  BY DEF IInv
<1> QED
  BY <1>1, Invariance, PTL

\* Of two calls of a document that both changed the core database, the later is
\* of a service that the earlier one's does not reach.
THEOREM OneChange == Spec => []OneChangePerContext
<1>1. ASSUME IInv PROVE OneChangePerContext
  <2> SUFFICES ASSUME NEW c \in Call, NEW d \in Call, c # d, DocOf[c] = DocOf[d],
                      Writes(c) \cap core # {}, Writes(d) \cap core # {}
               PROVE  \/ c \in Before[d] /\ ServiceOf(d) \notin Reach[ServiceOf(c)]
                      \/ d \in Before[c] /\ ServiceOf(c) \notin Reach[ServiceOf(d)]
    BY DEF OneChangePerContext
  <2>1. Owner(c) = c /\ Owner(d) = d /\ trx[c] # "none" /\ trx[d] # "none"
    BY <1>1 DEF IInv, CommitInv
  <2>2. ~ReadOnly(c) /\ ~ReadOnly(d)
    BY <1>1, Quiet DEF IInv
  <2>3. c \in Before[d] \/ d \in Before[c]
    BY <2>2, RequestsAssumption
  <2> QED
    BY <1>1, <2>1, <2>3 DEF IInv, OwnInv
<1> QED
  BY <1>1, Invariance, PTL

\* However a call ends, its connection goes back to the pool.
THEOREM ConnectionsReturn == Spec => []NoLeakedConnection
<1>1. IInv => NoLeakedConnection
  BY DEF IInv, TypeOK, Label, TrxInv, Live, NoLeakedConnection
<1> QED
  BY <1>1, Invariance, PTL

\* The two databases together are an audited ledger: every step of the
\* requests stores events, commits the changes of a call whose events are
\* stored, or shows neither database anything.
THEOREM LedgerRefined == Spec => ImplementsLedger
<1> DEFINE work == [c \in Call |-> [writes |-> Writes(c), events |-> Events(c)]]
<1>1. Init => Audited!Init
  BY DEF Init, Audited!Init
<1>2. ASSUME IInv, [Next]_vars
      PROVE  [Audited!Next]_<<work, core, log>>
  <2>1. path' = path
    BY <1>2 DEF Next, Invoke, Step, Open, OpenFails, Statement, StatementFails, Refused,
                Emit, Other, Throws, Return, Flush, TooLarge, LogInsert, LogFails,
                Commit, CommitFails, Crash, vars
  <2>2. work' = work
    BY <2>1, Frame
  <2>3. ASSUME NEW c \in Call, log' = log \cup batch[c], core' = core, pc[c] = "logging"
        PROVE  Audited!Next
    <3>1. batch[c] = work[c].events
      BY <1>2, <2>3 DEF IInv, LogInv
    <3>2. Audited!Audit(c)
      BY <2>2, <2>3, <3>1 DEF Audited!Audit
    <3> QED
      BY <3>2 DEF Audited!Next
  <2>4. ASSUME NEW c \in Call, core' = core \cup pending[c], log' = log,
               pc[c] = "commit", trx[c] = "open"
        PROVE  Audited!Next
    <3>1. at[c] > Len(Steps(c)) /\ Live(c)
      BY <1>2, <2>4 DEF IInv, PlaceInv, Live
    <3>2. pending[c] = work[c].writes
      BY <1>2, <3>1, AllDone DEF IInv, PendingInv
    <3>3. work[c].events \subseteq log /\ work[c].writes \cap core = {}
      BY <1>2, <2>4, <3>1 DEF IInv, LogInv, CommitInv
    <3>4. Audited!Change(c)
      BY <2>2, <2>4, <3>2, <3>3 DEF Audited!Change
    <3> QED
      BY <3>4 DEF Audited!Next
  <2>5. CASE UNCHANGED <<core, log>>
    BY <2>2, <2>5
  <2>6. ASSUME NEW c \in Call, LogInsert(c) \/ LogFails(c)
        PROVE  [Audited!Next]_<<work, core, log>>
    BY <2>3, <2>5, <2>6 DEF LogInsert, LogFails
  <2>7. ASSUME NEW c \in Call, Commit(c) \/ CommitFails(c)
        PROVE  [Audited!Next]_<<work, core, log>>
    BY <2>4, <2>5, <2>7 DEF Commit, CommitFails
  <2> QED
    BY <1>2, <2>5, <2>6, <2>7
       DEF Next, Invoke, Step, Open, OpenFails, Statement, StatementFails, Refused, Emit,
           Other, Throws, Return, Flush, TooLarge, Crash, vars
<1> QED
  BY <1>1, <1>2, Invariance, PTL DEF Spec, ImplementsLedger, Audited!Spec
=============================================================================
