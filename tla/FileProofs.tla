----------------------------- MODULE FileProofs -----------------------------
(***************************************************************************)
(* Proofs about files, for any number of calls and of keys: no row without *)
(* its objects, no object left behind but by a failure or a crossing, no   *)
(* entry of the cache without an expiry but by a failure.                  *)
(***************************************************************************)
EXTENDS Files, TLAPS

Writes(p) == job[p].op \in {"upload", "preview"}

\* A call that writes holds a key that no row has, and once it is to write the row
\* the object is there.
KeyInv ==
  \A p \in Proc : Writes(p) =>
    /\ job[p].key \notin DOMAIN rows
    /\ \A k \in DOMAIN rows : rows[k].previewId # job[p].key
    /\ job[p].at # "put" => job[p].key \in bucket
    /\ job[p].op = "upload" => job[p].id = job[p].key
    /\ job[p].op = "preview" => job[p].id \in DOMAIN rows /\ ~rows[job[p].id].image

\* Two calls that convert one file, or one that converts a file that meanwhile has
\* a preview, have crossed.
CrossInv ==
  \A p \in Proc : job[p].op = "preview" =>
    /\ job[p].id \in DOMAIN rows => rows[job[p].id].previewId \in {NoKey} \cup past.crossed
    /\ \A q \in Proc \ {p} : job[q].op = "preview" /\ job[q].id = job[p].id =>
         job[p].key \in past.crossed

Inv == TypeOK /\ RowsHaveObjects /\ KeyInv /\ CrossInv /\ LeftoversExplained /\ EntriesExpire

-----------------------------------------------------------------------------
\* What a job looks like in each of its phases.
LEMMA JobShape ==
  ASSUME TypeOK, NEW p \in Proc
  PROVE  /\ job[p] \in {Idle} \cup Busy
         /\ job[p].at = "idle" => job[p] = Idle
         /\ job[p].at \in {"put", "write", "commit"} =>
              /\ Writes(p) /\ job[p].id \in Key /\ job[p].key \in Key
              /\ job[p].image \in BOOLEAN
         /\ job[p].at \in {"set", "expire"} =>
              /\ job[p].op = "resize" /\ job[p].id \in Key /\ job[p].key = NoKey
         /\ job[p].key # NoKey <=> Writes(p)
         /\ Writes(p) => job[p].at \in {"put", "write", "commit"}
<1>1. job[p] \in {Idle} \cup Busy
  BY DEF TypeOK
<1>2. CASE job[p] = Idle
  BY <1>1, <1>2 DEF Idle, Writes
<1>3. CASE job[p] \in [op : {"upload", "preview"}, at : {"put", "write", "commit"},
                      id : Key, key : Key, image : BOOLEAN]
  BY <1>1, <1>3, FileAssumption DEF Writes
<1>4. CASE job[p] \in [op : {"resize"}, at : {"set", "expire"},
                      id : Key, key : {NoKey}, image : {FALSE}]
  BY <1>1, <1>4 DEF Writes
<1> QED
  BY <1>1, <1>2, <1>3, <1>4 DEF Busy

LEMMA InitInv == Init => Inv
  BY FileAssumption DEF Init, Inv, TypeOK, Busy, Idle, NoRow, RowsHaveObjects, KeyInv, Writes, CrossInv,
     LeftoversExplained, EntriesExpire

\* A call starts: it holds a fresh key, or none.
LEMMA UploadInv ==
  ASSUME Inv, NEW p \in Proc, NEW k \in Key, Upload(p, k)
  PROVE  Inv'
<1> USE FileAssumption
<1>1. PICK image \in BOOLEAN :
        Start(p, [op |-> "upload", at |-> "put", id |-> k, key |-> k, image |-> image])
  BY DEF Upload
<1> DEFINE j == [op |-> "upload", at |-> "put", id |-> k, key |-> k, image |-> image]
<1>2. /\ job[p].at = "idle" /\ calls < MaxCalls /\ calls' = calls + 1
      /\ job' = [job EXCEPT ![p] = j]
      /\ k \notin bucket /\ \A q \in Proc : job[q].key # k
      /\ UNCHANGED <<bucket, rows, resized, past>>
  BY <1>1 DEF Upload, Start, Fresh
<1>3. job[p] = Idle
  BY <1>2, JobShape DEF Inv
<1>4. j \in Busy
  BY DEF Busy
<1>5. \A q \in Proc : job'[q] = IF q = p THEN j ELSE job[q]
  BY <1>2 DEF Inv, TypeOK
<1>6. TypeOK'
  BY <1>2, <1>4, <1>5 DEF Inv, TypeOK
<1>7. RowsHaveObjects' /\ EntriesExpire'
  BY <1>2, <1>3, <1>5 DEF Inv, RowsHaveObjects, EntriesExpire, Idle
<1>8. k \notin DOMAIN rows /\ \A l \in DOMAIN rows : rows[l].previewId # k
  BY <1>2 DEF Inv, RowsHaveObjects
<1>9. KeyInv'
  BY <1>2, <1>5, <1>8 DEF Inv, KeyInv, Writes
<1>10. CrossInv'
  BY <1>2, <1>5 DEF Inv, CrossInv
<1>11. LeftoversExplained'
  BY <1>2, <1>3, <1>5 DEF Inv, LeftoversExplained, Idle, TypeOK
<1> QED
  BY <1>6, <1>7, <1>9, <1>10, <1>11 DEF Inv

LEMMA PreviewInv ==
  ASSUME Inv, NEW p \in Proc, NEW id \in Key, Preview(p, id)
  PROVE  Inv'
<1> USE FileAssumption
<1>1. PICK k \in Key : Fresh(k) /\ Convert(p, id, k)
  BY DEF Preview
<1> DEFINE j == [op |-> "preview", at |-> "put", id |-> id, key |-> k, image |-> FALSE]
           others == {q \in Proc \ {p} : job[q].op = "preview" /\ job[q].id = id}
<1>2. /\ job[p].at = "idle" /\ calls < MaxCalls /\ calls' = calls + 1
      /\ job' = [job EXCEPT ![p] = j]
      /\ past' = [past EXCEPT !.crossed =
           IF others = {} THEN @ ELSE @ \cup {k} \cup {job[q].key : q \in others}]
      /\ k \notin bucket /\ \A q \in Proc : job[q].key # k
      /\ id \in DOMAIN rows /\ ~rows[id].image /\ rows[id].previewId = NoKey
      /\ UNCHANGED <<bucket, rows, resized>>
  BY <1>1 DEF Preview, Convert, Start, Fresh
<1>3. job[p] = Idle
  BY <1>2, JobShape DEF Inv
<1>4. j \in Busy
  BY DEF Busy
<1>5. \A q \in Proc : job'[q] = IF q = p THEN j ELSE job[q]
  BY <1>2 DEF Inv, TypeOK
<1>6. \A q \in others : job[q].key \in Key
  BY JobShape DEF Inv, Writes
<1>7. /\ past'.failed = past.failed /\ past'.unexpired = past.unexpired
      /\ past'.crossed = IF others = {} THEN past.crossed
                         ELSE past.crossed \cup {k} \cup {job[q].key : q \in others}
  BY <1>2 DEF Inv, TypeOK
<1>8. past' \in [failed : SUBSET Key, crossed : SUBSET Key, unexpired : SUBSET Key]
  <2>1. /\ past.failed \subseteq Key /\ past.crossed \subseteq Key
        /\ past.unexpired \subseteq Key
    BY DEF Inv, TypeOK
  <2>2. past'.crossed \subseteq Key
    BY <1>6, <1>7, <2>1
  <2>3. DOMAIN past' = DOMAIN past
    BY <1>2
  <2> QED
    BY <1>2, <1>7, <2>1, <2>2, <2>3 DEF Inv, TypeOK
<1>9. TypeOK'
  BY <1>2, <1>4, <1>5, <1>8 DEF Inv, TypeOK
<1>10. RowsHaveObjects' /\ EntriesExpire'
  BY <1>2, <1>3, <1>5, <1>7 DEF Inv, RowsHaveObjects, EntriesExpire, Idle
<1>11. k \notin DOMAIN rows /\ \A l \in DOMAIN rows : rows[l].previewId # k
  BY <1>2 DEF Inv, RowsHaveObjects
<1>12. KeyInv'
  BY <1>2, <1>5, <1>11 DEF Inv, KeyInv, Writes
<1>13. CrossInv'
  <2> SUFFICES ASSUME NEW q \in Proc, job'[q].op = "preview"
               PROVE  /\ job'[q].id \in DOMAIN rows' =>
                           rows'[job'[q].id].previewId \in {NoKey} \cup past'.crossed
                      /\ \A r \in Proc \ {q} : job'[r].op = "preview" /\ job'[r].id = job'[q].id =>
                           job'[q].key \in past'.crossed
    BY DEF CrossInv
  <2>1. past.crossed \subseteq past'.crossed
    BY <1>7
  <2>2. CASE q = p
    <3>1. job'[q].id = id /\ job'[q].key = k
      BY <1>5, <2>2
    <3>2. \A r \in Proc \ {q} : job'[r].op = "preview" /\ job'[r].id = id => r \in others
      BY <1>5, <2>2
    <3> QED
      BY <1>2, <1>7, <3>1, <3>2
  <2>3. CASE q # p
    <3>1. job'[q] = job[q]
      BY <1>5, <2>3
    <3>2. \A r \in Proc \ {q} : job'[r].op = "preview" /\ job'[r].id = job[q].id =>
            job[q].key \in past'.crossed
      <4> TAKE r \in Proc \ {q}
      <4> HAVE job'[r].op = "preview" /\ job'[r].id = job[q].id
      <4>1. CASE r = p
        <5>1. q \in others
          BY <1>5, <2>3, <3>1, <4>1
        <5> QED
          BY <1>7, <5>1
      <4>2. CASE r # p
        BY <1>5, <2>1, <3>1, <4>2 DEF Inv, CrossInv
      <4> QED
        BY <4>1, <4>2
    <3> QED
      BY <1>2, <2>1, <3>1, <3>2 DEF Inv, CrossInv
  <2> QED
    BY <2>2, <2>3
<1>14. LeftoversExplained'
  BY <1>2, <1>3, <1>5, <1>7 DEF Inv, LeftoversExplained, Idle, TypeOK
<1> QED
  BY <1>9, <1>10, <1>12, <1>13, <1>14 DEF Inv

\* A call goes on to its next phase.
LEMMA GotoTyped ==
  ASSUME TypeOK, NEW p \in Proc, NEW at, job[p].at # "idle",
         job[p].op = "resize" => at \in {"set", "expire"},
         job[p].op # "resize" => at \in {"put", "write", "commit"}
  PROVE  /\ [job EXCEPT ![p].at = at] \in [Proc -> {Idle} \cup Busy]
         /\ \A q \in Proc : [job EXCEPT ![p].at = at][q] =
              IF q = p THEN [job[p] EXCEPT !.at = at] ELSE job[q]
         /\ LET j == [job[p] EXCEPT !.at = at] IN
              /\ j.at = at /\ j.op = job[p].op /\ j.id = job[p].id
              /\ j.key = job[p].key /\ j.image = job[p].image
<1>1. job[p] \in Busy
  BY JobShape DEF TypeOK, Idle
<1>2. [job[p] EXCEPT !.at = at] \in Busy
  <2>1. CASE job[p] \in [op : {"upload", "preview"}, at : {"put", "write", "commit"},
                        id : Key, key : Key, image : BOOLEAN]
    BY <2>1 DEF Busy
  <2>2. CASE job[p] \in [op : {"resize"}, at : {"set", "expire"},
                        id : Key, key : {NoKey}, image : {FALSE}]
    BY <2>2 DEF Busy
  <2> QED
    BY <1>1, <2>1, <2>2 DEF Busy
<1>3. /\ [job[p] EXCEPT !.at = at].at = at
      /\ [job[p] EXCEPT !.at = at].op = job[p].op
      /\ [job[p] EXCEPT !.at = at].id = job[p].id
      /\ [job[p] EXCEPT !.at = at].key = job[p].key
      /\ [job[p] EXCEPT !.at = at].image = job[p].image
  <2>1. CASE job[p] \in [op : {"upload", "preview"}, at : {"put", "write", "commit"},
                        id : Key, key : Key, image : BOOLEAN]
    BY <2>1
  <2>2. CASE job[p] \in [op : {"resize"}, at : {"set", "expire"},
                        id : Key, key : {NoKey}, image : {FALSE}]
    BY <2>2
  <2> QED
    BY <1>1, <2>1, <2>2 DEF Busy
<1> QED
  BY <1>2, <1>3 DEF TypeOK

LEMMA PutObjectInv ==
  ASSUME Inv, NEW p \in Proc, PutObject(p)
  PROVE  Inv'
<1> DEFINE j == [job[p] EXCEPT !.at = "write"]
<1>1. /\ job[p].at = "put" /\ bucket' = bucket \cup {job[p].key}
      /\ job' = [job EXCEPT ![p].at = "write"]
      /\ UNCHANGED <<rows, resized, past, calls>>
  BY DEF PutObject, Goto
<1>2. Writes(p) /\ job[p].op # "resize" /\ job[p].key \in Key
  BY <1>1, JobShape DEF Inv, Writes
<1>3. /\ job' \in [Proc -> {Idle} \cup Busy]
      /\ \A q \in Proc : job'[q] = IF q = p THEN j ELSE job[q]
  BY <1>1, <1>2, GotoTyped DEF Inv
<1>4. \A q \in Proc : /\ job'[q].op = job[q].op /\ job'[q].id = job[q].id
                      /\ job'[q].key = job[q].key
  BY <1>1, <1>2, <1>3, GotoTyped DEF Inv
<1>5. \A q \in Proc : q # p => job'[q] = job[q]
  BY <1>3
<1>6. TypeOK'
  BY <1>1, <1>2, <1>3, <1>4 DEF Inv, TypeOK
<1>7. RowsHaveObjects'
  BY <1>1 DEF Inv, RowsHaveObjects
<1>8. KeyInv'
  BY <1>1, <1>4, <1>5 DEF Inv, KeyInv, Writes
<1>9. CrossInv'
  BY <1>1, <1>4 DEF Inv, CrossInv
<1>10. LeftoversExplained'
  BY <1>1, <1>4 DEF Inv, LeftoversExplained
<1>11. EntriesExpire'
  BY <1>1, <1>4, <1>5 DEF Inv, EntriesExpire
<1> QED
  BY <1>6, <1>7, <1>8, <1>9, <1>10, <1>11 DEF Inv

LEMMA WriteInv ==
  ASSUME Inv, NEW p \in Proc, Write(p)
  PROVE  Inv'
<1> DEFINE j == [job[p] EXCEPT !.at = "commit"]
<1>1. /\ job[p].at = "write" /\ job' = [job EXCEPT ![p].at = "commit"]
      /\ UNCHANGED <<bucket, rows, resized, past, calls>>
  BY DEF Write, Goto
<1>2. Writes(p) /\ job[p].op # "resize"
  BY <1>1, JobShape DEF Inv, Writes
<1>3. /\ job' \in [Proc -> {Idle} \cup Busy]
      /\ \A q \in Proc : job'[q] = IF q = p THEN j ELSE job[q]
  BY <1>1, <1>2, GotoTyped DEF Inv
<1>4. \A q \in Proc : /\ job'[q].op = job[q].op /\ job'[q].id = job[q].id
                      /\ job'[q].key = job[q].key
  BY <1>1, <1>2, <1>3, GotoTyped DEF Inv
<1>5. \A q \in Proc : q # p => job'[q] = job[q]
  BY <1>3
<1>6. TypeOK'
  BY <1>1, <1>3, <1>4 DEF Inv, TypeOK
<1>7. RowsHaveObjects'
  BY <1>1 DEF Inv, RowsHaveObjects
<1>8. KeyInv'
  BY <1>1, <1>4, <1>5 DEF Inv, KeyInv, Writes
<1>9. CrossInv'
  BY <1>1, <1>4 DEF Inv, CrossInv
<1>10. LeftoversExplained'
  BY <1>1, <1>4 DEF Inv, LeftoversExplained
<1>11. EntriesExpire'
  BY <1>1, <1>4, <1>5 DEF Inv, EntriesExpire
<1> QED
  BY <1>6, <1>7, <1>8, <1>9, <1>10, <1>11 DEF Inv

\* A call ends: what it held is named by a row, or is among what has failed.
LEMMA FinishTyped ==
  ASSUME TypeOK, NEW p \in Proc, Finish(p)
  PROVE  /\ job' \in [Proc -> {Idle} \cup Busy] /\ calls' = calls
         /\ \A q \in Proc : job'[q] = IF q = p THEN Idle ELSE job[q]
  BY DEF TypeOK, Finish

LEMMA CommitInv ==
  ASSUME Inv, NEW p \in Proc, Commit(p)
  PROVE  Inv'
<1> USE FileAssumption
<1> DEFINE j == job[p]
           row == IF j.op = "upload" THEN [image |-> j.image, previewId |-> NoKey]
                  ELSE [rows[j.id] EXCEPT !.previewId = j.key]
<1>1. /\ j.at = "commit" /\ Finish(p) /\ UNCHANGED <<bucket, resized, past>>
      /\ rows' = [k \in DOMAIN rows \cup {j.id} |-> IF k # j.id THEN rows[k] ELSE row]
  BY DEF Commit
<1>2. /\ j.op \in {"upload", "preview"} /\ Writes(p) /\ j.id \in Key /\ j.key \in Key
      /\ j.image \in BOOLEAN
  BY <1>1, JobShape DEF Inv, Writes
<1>3. /\ job' \in [Proc -> {Idle} \cup Busy] /\ calls' = calls
      /\ \A q \in Proc : job'[q] = IF q = p THEN Idle ELSE job[q]
  BY <1>1, FinishTyped DEF Inv
<1>4. /\ DOMAIN rows' = DOMAIN rows \cup {j.id} /\ rows'[j.id] = row
      /\ \A k \in DOMAIN rows : k # j.id => rows'[k] = rows[k]
  BY <1>1
<1>5. /\ j.key \notin DOMAIN rows /\ \A k \in DOMAIN rows : rows[k].previewId # j.key
      /\ j.key \in bucket
      /\ j.op = "upload" => j.id = j.key
      /\ j.op = "preview" => j.id \in DOMAIN rows /\ ~rows[j.id].image
  BY <1>1, <1>2 DEF Inv, KeyInv
<1>6. \A k \in DOMAIN rows : rows[k] \in [image : BOOLEAN, previewId : Key \cup {NoKey}]
  BY DEF Inv, TypeOK
<1>7. /\ row \in [image : BOOLEAN, previewId : Key \cup {NoKey}]
      /\ j.op = "upload" => row.previewId = NoKey /\ row.image = j.image
      /\ j.op = "preview" => row.previewId = j.key /\ row.image = rows[j.id].image
  BY <1>2, <1>5, <1>6
<1>8. TypeOK'
  BY <1>1, <1>2, <1>3, <1>4, <1>6, <1>7 DEF Inv, TypeOK, Idle
<1>9. RowsHaveObjects'
  <2> SUFFICES ASSUME NEW k \in DOMAIN rows'
               PROVE  /\ k \in bucket'
                      /\ rows'[k].previewId # NoKey =>
                           /\ rows'[k].previewId \in bucket' \ DOMAIN rows'
                           /\ ~rows'[k].image
                           /\ \A l \in DOMAIN rows' \ {k} :
                                rows'[l].previewId # rows'[k].previewId
    BY DEF RowsHaveObjects
  <2>1. CASE j.op = "upload"
    BY <1>1, <1>4, <1>5, <1>7, <2>1 DEF Inv, RowsHaveObjects
  <2>2. CASE j.op = "preview"
    BY <1>1, <1>4, <1>5, <1>7, <2>2 DEF Inv, RowsHaveObjects
  <2> QED
    BY <1>2, <2>1, <2>2
<1>10. \A q \in Proc : Writes(q) /\ q # p => job[q].key # j.key
  BY <1>2, JobShape DEF Inv, TypeOK
<1>11. KeyInv'
  <2> SUFFICES ASSUME NEW q \in Proc, Writes(q)'
               PROVE  /\ job'[q].key \notin DOMAIN rows'
                      /\ \A k \in DOMAIN rows' : rows'[k].previewId # job'[q].key
                      /\ job'[q].at # "put" => job'[q].key \in bucket'
                      /\ job'[q].op = "upload" => job'[q].id = job'[q].key
                      /\ job'[q].op = "preview" =>
                           job'[q].id \in DOMAIN rows' /\ ~rows'[job'[q].id].image
    BY DEF KeyInv
  <2>1. q # p /\ job'[q] = job[q] /\ Writes(q)
    BY <1>3 DEF Writes, Idle
  <2>2. job[q].key # j.key /\ job[q].key # NoKey
    BY <1>10, <2>1, JobShape DEF Inv
  <2>3. CASE j.op = "upload"
    BY <1>1, <1>4, <1>5, <1>7, <2>1, <2>2, <2>3 DEF Inv, KeyInv
  <2>4. CASE j.op = "preview"
    BY <1>1, <1>4, <1>5, <1>7, <2>1, <2>2, <2>4 DEF Inv, KeyInv
  <2> QED
    BY <1>2, <2>3, <2>4
<1>12. CrossInv'
  <2> SUFFICES ASSUME NEW q \in Proc, job'[q].op = "preview"
               PROVE  /\ job'[q].id \in DOMAIN rows' =>
                           rows'[job'[q].id].previewId \in {NoKey} \cup past'.crossed
                      /\ \A r \in Proc \ {q} : job'[r].op = "preview" /\ job'[r].id = job'[q].id =>
                           job'[q].key \in past'.crossed
    BY DEF CrossInv
  <2>1. q # p /\ job'[q] = job[q]
    BY <1>3 DEF Idle
  <2>2. \A r \in Proc \ {q} : job'[r].op = "preview" => job'[r] = job[r]
    BY <1>3 DEF Idle
  <2>3. j.op = "preview" /\ j.id = job[q].id => j.key \in past.crossed
    BY <2>1 DEF Inv, CrossInv
  <2>4. job[q].id \in DOMAIN rows' => rows'[job[q].id].previewId \in {NoKey} \cup past.crossed
    BY <1>2, <1>4, <1>7, <2>1, <2>3 DEF Inv, CrossInv
  <2> QED
    BY <1>1, <2>1, <2>2, <2>4 DEF Inv, CrossInv
<1>13. LeftoversExplained'
  <2> SUFFICES ASSUME NEW k \in bucket
               PROVE  \/ k \in DOMAIN rows'
                      \/ \E f \in DOMAIN rows' : rows'[f].previewId = k
                      \/ \E q \in Proc : job'[q].key = k
                      \/ k \in past.failed
                      \/ k \in past.crossed
    BY <1>1 DEF LeftoversExplained
  <2>0. k \in Key
    BY DEF Inv, TypeOK
  <2>1. CASE k = j.key
    BY <1>2, <1>4, <1>5, <1>7, <2>1
  <2>2. CASE \E q \in Proc : job[q].key = k /\ k # j.key
    BY <1>3, <2>2
  <2>3. CASE \E f \in DOMAIN rows : rows[f].previewId = k
    <3>1. PICK f \in DOMAIN rows : rows[f].previewId = k
      BY <2>3
    <3>2. CASE f = j.id /\ j.op = "preview"
      BY <2>0, <3>1, <3>2 DEF Inv, CrossInv
    <3>3. CASE f # j.id
      BY <1>4, <3>1, <3>3
    <3>4. f = j.id => j.op = "preview"
      BY <1>2, <1>5
    <3> QED
      BY <3>2, <3>3, <3>4
  <2>4. CASE k \in DOMAIN rows
    BY <1>4, <2>4
  <2> QED
    BY <2>1, <2>2, <2>3, <2>4 DEF Inv, LeftoversExplained
<1>14. EntriesExpire'
  BY <1>1, <1>3 DEF Inv, EntriesExpire
<1> QED
  BY <1>8, <1>9, <1>11, <1>12, <1>13, <1>14 DEF Inv

-----------------------------------------------------------------------------
\* The cache.
LEMMA GetResizeInv ==
  ASSUME Inv, NEW p \in Proc, NEW id \in Key, GetResize(p, id)
  PROVE  Inv'
<1> USE FileAssumption
<1> DEFINE j == [op |-> "resize", at |-> "set", id |-> id, key |-> NoKey, image |-> FALSE]
<1>1. /\ job[p].at = "idle" /\ calls < MaxCalls /\ calls' = calls + 1
      /\ job' = [job EXCEPT ![p] = j]
      /\ UNCHANGED <<bucket, rows, resized, past>>
  BY DEF GetResize, Start
<1>2. job[p] = Idle
  BY <1>1, JobShape DEF Inv
<1>3. j \in Busy
  BY DEF Busy
<1>4. \A q \in Proc : job'[q] = IF q = p THEN j ELSE job[q]
  BY <1>1 DEF Inv, TypeOK
<1>5. TypeOK'
  BY <1>1, <1>3, <1>4 DEF Inv, TypeOK
<1>6. RowsHaveObjects' /\ EntriesExpire'
  BY <1>1, <1>2, <1>4 DEF Inv, RowsHaveObjects, EntriesExpire, Idle
<1>7. KeyInv' /\ CrossInv'
  BY <1>1, <1>4 DEF Inv, KeyInv, CrossInv, Writes
<1>8. LeftoversExplained'
  BY <1>1, <1>2, <1>4 DEF Inv, LeftoversExplained, Idle, TypeOK
<1> QED
  BY <1>5, <1>6, <1>7, <1>8 DEF Inv

LEMMA SetResizedInv ==
  ASSUME Inv, NEW p \in Proc, SetResized(p)
  PROVE  Inv'
<1> DEFINE j == [job[p] EXCEPT !.at = "expire"]
           id == job[p].id
<1>1. /\ job[p].at = "set" /\ job' = [job EXCEPT ![p].at = "expire"]
      /\ resized' = [resized EXCEPT ![id] = "kept"]
      /\ UNCHANGED <<bucket, rows, past, calls>>
  BY DEF SetResized, Goto
<1>2. job[p].op = "resize" /\ id \in Key
  BY <1>1, JobShape DEF Inv
<1>3. /\ job' \in [Proc -> {Idle} \cup Busy]
      /\ \A q \in Proc : job'[q] = IF q = p THEN j ELSE job[q]
  BY <1>1, <1>2, GotoTyped DEF Inv
<1>4. /\ \A q \in Proc : /\ job'[q].op = job[q].op /\ job'[q].id = job[q].id
                         /\ job'[q].key = job[q].key
      /\ job'[p].at = "expire"
  BY <1>1, <1>2, <1>3, GotoTyped DEF Inv
<1>5. \A q \in Proc : q # p => job'[q] = job[q]
  BY <1>3
<1>6. TypeOK'
  BY <1>1, <1>2, <1>3, <1>4 DEF Inv, TypeOK
<1>7. RowsHaveObjects'
  BY <1>1 DEF Inv, RowsHaveObjects
<1>8. KeyInv'
  BY <1>1, <1>2, <1>4, <1>5 DEF Inv, KeyInv, Writes
<1>9. CrossInv'
  BY <1>1, <1>4 DEF Inv, CrossInv
<1>10. LeftoversExplained'
  BY <1>1, <1>4 DEF Inv, LeftoversExplained
<1>11. EntriesExpire'
  BY <1>1, <1>2, <1>4, <1>5 DEF Inv, EntriesExpire, TypeOK
<1> QED
  BY <1>6, <1>7, <1>8, <1>9, <1>10, <1>11 DEF Inv

LEMMA SetExpirationInv ==
  ASSUME Inv, NEW p \in Proc, SetExpiration(p)
  PROVE  Inv'
<1> DEFINE id == job[p].id
<1>1. /\ job[p].at = "expire" /\ Finish(p) /\ UNCHANGED <<bucket, rows, past>>
      /\ resized' = [resized EXCEPT ![id] = IF @ = "none" THEN @ ELSE "expiring"]
  BY DEF SetExpiration
<1>2. job[p].op = "resize" /\ id \in Key /\ job[p].key = NoKey
  BY <1>1, JobShape DEF Inv
<1>3. /\ job' \in [Proc -> {Idle} \cup Busy] /\ calls' = calls
      /\ \A q \in Proc : job'[q] = IF q = p THEN Idle ELSE job[q]
  BY <1>1, FinishTyped DEF Inv
<1>4. /\ resized' \in [Key -> {"none", "kept", "expiring"}]
      /\ \A k \in Key : resized'[k] = "kept" => resized[k] = "kept" /\ k # id
  BY <1>1, <1>2 DEF Inv, TypeOK
<1>5. TypeOK'
  BY <1>1, <1>3, <1>4 DEF Inv, TypeOK, Idle
<1>6. RowsHaveObjects'
  BY <1>1 DEF Inv, RowsHaveObjects
<1>7. KeyInv' /\ CrossInv'
  BY <1>1, <1>3 DEF Inv, KeyInv, CrossInv, Writes, Idle
<1>8. LeftoversExplained'
  BY <1>1, <1>2, <1>3, FileAssumption DEF Inv, LeftoversExplained, TypeOK
<1>9. EntriesExpire'
  BY <1>1, <1>3, <1>4 DEF Inv, EntriesExpire
<1> QED
  BY <1>5, <1>6, <1>7, <1>8, <1>9 DEF Inv

LEMMA ExpiresInv ==
  ASSUME Inv, NEW id \in Key, Expires(id)
  PROVE  Inv'
<1>1. /\ resized' = [resized EXCEPT ![id] = "none"]
      /\ UNCHANGED <<bucket, rows, job, calls, past>>
  BY DEF Expires
<1>2. TypeOK' /\ RowsHaveObjects'
  BY <1>1 DEF Inv, TypeOK, RowsHaveObjects
<1>3. KeyInv' /\ CrossInv' /\ LeftoversExplained'
  BY <1>1 DEF Inv, KeyInv, CrossInv, LeftoversExplained, Writes
<1>4. EntriesExpire'
  BY <1>1 DEF Inv, EntriesExpire, TypeOK
<1> QED
  BY <1>2, <1>3, <1>4 DEF Inv

LEMMA FailsInv ==
  ASSUME Inv, NEW p \in Proc, Fails(p)
  PROVE  Inv'
<1> USE FileAssumption
<1> DEFINE j == job[p]
<1>1. /\ j.at # "idle" /\ Finish(p) /\ UNCHANGED <<rows, resized>>
      /\ bucket' \in {bucket} \cup (IF j.at = "put" THEN {bucket \cup {j.key}} ELSE {})
      /\ past' = [past EXCEPT
           !.failed = IF j.key = NoKey THEN @ ELSE @ \cup {j.key},
           !.unexpired = IF j.at = "expire" THEN @ \cup {j.id} ELSE @]
  BY DEF Fails
<1>2. /\ j.key \in Key \cup {NoKey} /\ j.id \in Key \cup {NoKey}
      /\ j.at = "put" => j.key \in Key
      /\ j.at = "expire" => j.id \in Key
  <2>1. j \in Busy
    BY <1>1, JobShape DEF Inv, Idle
  <2> QED
    BY <2>1 DEF Busy
<1>3. /\ job' \in [Proc -> {Idle} \cup Busy] /\ calls' = calls
      /\ \A q \in Proc : job'[q] = IF q = p THEN Idle ELSE job[q]
  BY <1>1, FinishTyped DEF Inv
<1>4. /\ past' \in [failed : SUBSET Key, crossed : SUBSET Key, unexpired : SUBSET Key]
      /\ past'.failed = IF j.key = NoKey THEN past.failed ELSE past.failed \cup {j.key}
      /\ past'.unexpired = IF j.at = "expire" THEN past.unexpired \cup {j.id}
                           ELSE past.unexpired
      /\ past'.crossed = past.crossed
  BY <1>1, <1>2 DEF Inv, TypeOK
<1>5. bucket \subseteq bucket' /\ bucket' \subseteq bucket \cup ({j.key} \ {NoKey})
  BY <1>1, <1>2
<1>6. TypeOK'
  BY <1>1, <1>2, <1>3, <1>4, <1>5 DEF Inv, TypeOK, Idle
<1>7. RowsHaveObjects'
  BY <1>1, <1>5 DEF Inv, RowsHaveObjects
<1>8. KeyInv' /\ CrossInv'
  BY <1>1, <1>3, <1>4, <1>5 DEF Inv, KeyInv, CrossInv, Writes, Idle
<1>9. LeftoversExplained'
  BY <1>1, <1>3, <1>4, <1>5 DEF Inv, LeftoversExplained, TypeOK
<1>10. EntriesExpire'
  BY <1>1, <1>3, <1>4 DEF Inv, EntriesExpire
<1> QED
  BY <1>6, <1>7, <1>8, <1>9, <1>10 DEF Inv

-----------------------------------------------------------------------------
\* The invariant is inductive: it holds at first, and every step keeps it.
THEOREM FileInvariant == Spec => []Inv
<1>1. Init => Inv
  BY InitInv
<1>2. Inv /\ [Next]_vars => Inv'
  <2> SUFFICES ASSUME Inv, [Next]_vars PROVE Inv'
    OBVIOUS
  <2>1. CASE UNCHANGED vars
    BY <2>1 DEF vars, Inv, TypeOK, RowsHaveObjects, KeyInv, Writes, CrossInv,
       LeftoversExplained, EntriesExpire
  <2>2. CASE \E id \in Key : Expires(id)
    BY <2>2, ExpiresInv
  <2>3. ASSUME NEW p \in Proc, Step(p) PROVE Inv'
    <3>1. CASE \E k \in Key : Upload(p, k) \/ Preview(p, k) \/ GetResize(p, k)
      BY <3>1, UploadInv, PreviewInv, GetResizeInv
    <3>2. CASE PutObject(p) \/ Write(p) \/ Commit(p)
      BY <3>2, PutObjectInv, WriteInv, CommitInv
    <3>3. CASE SetResized(p) \/ SetExpiration(p) \/ Fails(p)
      BY <3>3, SetResizedInv, SetExpirationInv, FailsInv
    <3> QED
      BY <2>3, <3>1, <3>2, <3>3 DEF Step
  <2> QED
    BY <2>1, <2>2, <2>3 DEF Next
<1> QED
  BY <1>1, <1>2, PTL DEF Spec

\* Types, and keys that no two calls share.
THEOREM FileTypes == Spec => []TypeOK
<1>1. Inv => TypeOK
  BY DEF Inv
<1> QED
  BY <1>1, FileInvariant, PTL

\* No row of a file without its objects (upload, uploadPreview).
THEOREM RowsAreBacked == Spec => []RowsHaveObjects
<1>1. Inv => RowsHaveObjects
  BY DEF Inv
<1> QED
  BY <1>1, FileInvariant, PTL

\* No object left behind but by a failure or a crossing (preview, upload).
THEOREM NothingElseIsLeft == Spec => []LeftoversExplained
<1>1. Inv => LeftoversExplained
  BY DEF Inv
<1> QED
  BY <1>1, FileInvariant, PTL

\* No entry of the cache for good but by a failure (getResize).
THEOREM CacheIsBounded == Spec => []EntriesExpire
<1>1. Inv => EntriesExpire
  BY DEF Inv
<1> QED
  BY <1>1, FileInvariant, PTL
=============================================================================
