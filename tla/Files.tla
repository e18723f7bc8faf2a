-------------------------------- MODULE Files --------------------------------
(***************************************************************************)
(* Files: an object in the bucket, its row in table file, and what is made *)
(* of it on demand, the preview (an object of its own, whose key the row   *)
(* keeps) and the resized image (an entry of the cache).  The bucket and   *)
(* the cache take no part in the transaction of the row.  An action is one *)
(* call of the bucket, the database or the cache.  Fails stands for a      *)
(* failing call, for the restart of the process and for a lost connection. *)
(***************************************************************************)
EXTENDS Naturals

CONSTANTS Proc,        \* calls that can be under way at once
          Key, NoKey,  \* keys of objects (uuid), and none
          MaxCalls     \* bound on the calls that are made

ASSUME FileAssumption == NoKey \notin Key /\ MaxCalls \in Nat

VARIABLES bucket,   \* the objects there are
          rows,     \* the committed rows, under the key of their object
          resized,  \* of a key, the cache's entry: "none", "kept" for good, or "expiring"
          job,      \* of a process: the call it runs
          calls,    \* calls made so far
          past      \* history, which no guard reads

vars == <<bucket, rows, resized, job, calls, past>>

NoRow == [image |-> FALSE, previewId |-> NoKey]
Idle == [op |-> "none", at |-> "idle", id |-> NoKey, key |-> NoKey, image |-> FALSE]

Init == /\ bucket = {}
        /\ rows = [k \in {} |-> NoRow]
        /\ resized = [k \in Key |-> "none"]
        /\ job = [p \in Proc |-> Idle]
        /\ calls = 0
        /\ past = [failed    |-> {},   \* keys of calls that failed
                   crossed   |-> {},   \* keys of calls that converted one file at once
                   unexpired |-> {}]   \* entries set by a call that failed then

Start(p, j) == /\ job[p].at = "idle" /\ calls < MaxCalls
               /\ job' = [job EXCEPT ![p] = j]
               /\ calls' = calls + 1

Goto(p, at) == /\ job' = [job EXCEPT ![p].at = at]
               /\ UNCHANGED calls

Finish(p) == /\ job' = [job EXCEPT ![p] = Idle]
             /\ UNCHANGED calls

\* v4(): a key nobody has had.
Fresh(k) == k \notin bucket /\ k \notin past.failed /\ \A p \in Proc : job[p].key # k

-----------------------------------------------------------------------------
\* upload: the object, then the row, in the transaction of the call.
Upload(p, k) ==
  /\ Fresh(k)
  /\ \E image \in BOOLEAN :
       Start(p, [op |-> "upload", at |-> "put", id |-> k, key |-> k, image |-> image])
  /\ UNCHANGED <<bucket, rows, resized, past>>

\* The file is downloaded and converted; the answer is to be stored under key k.
Convert(p, id, k) ==
  LET others == {q \in Proc \ {p} : job[q].op = "preview" /\ job[q].id = id} IN
  /\ Start(p, [op |-> "preview", at |-> "put", id |-> id, key |-> k, image |-> FALSE])
  /\ past' = [past EXCEPT !.crossed =
       IF others = {} THEN @ ELSE @ \cup {k} \cup {job[q].key : q \in others}]

\* Mutant of Preview: the preview the row names is not looked at.
PreviewAnew(p, id) ==
  /\ id \in DOMAIN rows /\ ~rows[id].image
  /\ \E k \in Key : Fresh(k) /\ Convert(p, id, k)
  /\ UNCHANGED <<bucket, rows, resized>>

\* preview: an image is its own preview; a file that has one is done (the download
\* changes nothing); any other is converted, and the conversion gets a fresh key.
Preview(p, id) ==
  /\ id \in DOMAIN rows /\ ~rows[id].image /\ rows[id].previewId = NoKey
  /\ \E k \in Key : Fresh(k) /\ Convert(p, id, k)
  /\ UNCHANGED <<bucket, rows, resized>>

\* Mutant of PutObject: the upload is not awaited, and fails unnoticed.
PutObjectUnawaited(p) ==
  /\ job[p].at = "put"
  /\ bucket' \in {bucket, bucket \cup {job[p].key}}
  /\ Goto(p, "write")
  /\ UNCHANGED <<rows, resized, past>>

\* s3.upload, awaited by upload and by uploadPreview.
PutObject(p) ==
  /\ job[p].at = "put"
  /\ bucket' = bucket \cup {job[p].key}
  /\ Goto(p, "write")
  /\ UNCHANGED <<rows, resized, past>>

\* The insert, or the patch, within the transaction: a row another transaction has
\* patched is waited for.
Write(p) ==
  /\ job[p].at = "write"
  /\ \A q \in Proc : ~(job[q].at = "commit" /\ job[q].id = job[p].id)
  /\ Goto(p, "commit")
  /\ UNCHANGED <<bucket, rows, resized, past>>

\* The commit: upload's row is new, the preview's key replaces the one of the row.
Commit(p) ==
  LET j == job[p] IN
  /\ j.at = "commit"
  /\ rows' = [k \in DOMAIN rows \cup {j.id} |->
       IF k # j.id THEN rows[k]
       ELSE IF j.op = "upload" THEN [image |-> j.image, previewId |-> NoKey]
       ELSE [rows[k] EXCEPT !.previewId = j.key]]
  /\ Finish(p)
  /\ UNCHANGED <<bucket, resized, past>>

-----------------------------------------------------------------------------
\* getResize, of one size: an entry of the cache is the answer and nothing changes.
\* Whatever the controller has found of the file, it goes on to call it.
GetResize(p, id) ==
  /\ id \in DOMAIN rows /\ resized[id] = "none"
  /\ Start(p, [op |-> "resize", at |-> "set", id |-> id, key |-> NoKey, image |-> FALSE])
  /\ UNCHANGED <<bucket, rows, resized, past>>

\* Mutant of SetResized: no expiry is set.
SetResizedForGood(p) ==
  /\ job[p].at = "set" /\ job[p].id \in bucket
  /\ resized' = [resized EXCEPT ![job[p].id] = "kept"]
  /\ Finish(p)
  /\ UNCHANGED <<bucket, rows, past>>

\* getS3Object has the bytes; cache.set drops the expiry the entry had.
SetResized(p) ==
  /\ job[p].at = "set" /\ job[p].id \in bucket
  /\ resized' = [resized EXCEPT ![job[p].id] = "kept"]
  /\ Goto(p, "expire")
  /\ UNCHANGED <<bucket, rows, past>>

\* An expiry set on an entry that is gone has no effect.
SetExpiration(p) ==
  LET id == job[p].id IN
  /\ job[p].at = "expire"
  /\ resized' = [resized EXCEPT ![id] = IF @ = "none" THEN @ ELSE "expiring"]
  /\ Finish(p)
  /\ UNCHANGED <<bucket, rows, past>>

\* imageCacheTtl is over.
Expires(id) ==
  /\ resized[id] = "expiring"
  /\ resized' = [resized EXCEPT ![id] = "none"]
  /\ UNCHANGED <<bucket, rows, job, calls, past>>

-----------------------------------------------------------------------------
\* A call fails where it is: its transaction is rolled back, its object and its
\* entry stay; a failing s3.upload may have stored the object all the same.
Fails(p) ==
  LET j == job[p] IN
  /\ j.at # "idle"
  /\ bucket' \in {bucket} \cup (IF j.at = "put" THEN {bucket \cup {j.key}} ELSE {})
  /\ past' = [past EXCEPT
       !.failed = IF j.key = NoKey THEN @ ELSE @ \cup {j.key},
       !.unexpired = IF j.at = "expire" THEN @ \cup {j.id} ELSE @]
  /\ Finish(p)
  /\ UNCHANGED <<rows, resized>>

Step(p) == \/ \E k \in Key : Upload(p, k) \/ Preview(p, k) \/ GetResize(p, k)
           \/ PutObject(p) \/ Write(p) \/ Commit(p)
           \/ SetResized(p) \/ SetExpiration(p) \/ Fails(p)

Next == \/ \E p \in Proc : Step(p)
        \/ \E id \in Key : Expires(id)

Spec == Init /\ [][Next]_vars

-----------------------------------------------------------------------------
Busy == [op : {"upload", "preview"}, at : {"put", "write", "commit"},
         id : Key, key : Key, image : BOOLEAN]
        \cup [op : {"resize"}, at : {"set", "expire"},
              id : Key, key : {NoKey}, image : {FALSE}]

\* The state is well-typed; a call that writes has a key of its own.
TypeOK ==
  /\ bucket \subseteq Key
  /\ DOMAIN rows \subseteq Key
  /\ \A k \in DOMAIN rows : rows[k] \in [image : BOOLEAN, previewId : Key \cup {NoKey}]
  /\ resized \in [Key -> {"none", "kept", "expiring"}]
  /\ job \in [Proc -> {Idle} \cup Busy]
  /\ calls \in 0..MaxCalls
  /\ past \in [failed : SUBSET Key, crossed : SUBSET Key, unexpired : SUBSET Key]
  /\ \A p, q \in Proc : p # q /\ job[p].key # NoKey => job[p].key # job[q].key

\* Whatever fails and however calls cross, a committed row has its object, and the
\* preview it names is an object too, of its own: no download of a file or of a
\* preview finds nothing (upload, uploadPreview put the object first).
RowsHaveObjects ==
  \A k \in DOMAIN rows :
    /\ k \in bucket
    /\ rows[k].previewId # NoKey =>
         /\ rows[k].previewId \in bucket \ DOMAIN rows
         /\ ~rows[k].image
         /\ \A l \in DOMAIN rows \ {k} : rows[l].previewId # rows[k].previewId

\* An object that no row names and no call is about to name was left by a call that
\* failed, or by one of two that converted the same file at once: nothing deletes
\* it, and nothing else leaves one behind (preview, upload).
LeftoversExplained ==
  \A k \in bucket :
    \/ k \in DOMAIN rows
    \/ \E f \in DOMAIN rows : rows[f].previewId = k
    \/ \E p \in Proc : job[p].key = k
    \/ k \in past.failed
    \/ k \in past.crossed

\* An entry of the cache without an expiry belongs to a call that is about to set
\* it, or one failed just then; such an entry is answered from for good (getResize).
EntriesExpire ==
  \A id \in Key :
    resized[id] = "kept" => \/ id \in past.unexpired
                            \/ \E p \in Proc : job[p].at = "expire" /\ job[p].id = id
=============================================================================
