---------------------------- MODULE FetchDownload ----------------------------
(***************************************************************************)
(* fetch::download: a background task streams a resource into <path>.part, *)
(* describes the partial in <path>.part.json and renames it onto <path>.   *)
(* It retries, resumes what an earlier attempt or an earlier process left, *)
(* and can be cancelled, fail or lose power between any two steps.         *)
(*                                                                         *)
(* The bytes of a version v of a resource are the blocks <<v, 1>>,         *)
(* <<v, 2>>, ... up to Length[v], so a file that mixes two versions, or    *)
(* misses or repeats a block, is told from a whole one.  A hash is the     *)
(* sequence of blocks it was fed.                                          *)
(***************************************************************************)
EXTENDS Naturals, Sequences

CONSTANTS
    Urls,         \* where resources are served
    Versions,     \* what a URL may serve, one version at a time
    Length,       \* the number of blocks of each version
    Validator,    \* the ETag or Last-Modified each version is served with
    Keys,         \* the resume keys callers identify their bytes by
    Requests,     \* the downloads the program may start
    Retries,      \* PreparedRequest::retries
    MaxChanges,   \* bound on how often a URL changes what it serves
    ShortRanges,  \* whether a 206 may hold fewer blocks than were asked for
    NoKey, NoValidator, NoLength, NoFile, Torn, NoSide, NoHash, NoResponse

Modes == {"Resume", "Overwrite", "Skip"}

ASSUME DownloadAssumption ==
    /\ Length \in [Versions -> Nat \ {0}]
    /\ \A v, w \in Versions :   \* a validator names one version
          Validator[v] = Validator[w] /\ Validator[v] # NoValidator => v = w
    /\ Requests \subseteq [mode : Modes, url : Urls, key : Keys \cup {NoKey},
                           across : BOOLEAN, hash : BOOLEAN]
    /\ Retries \in Nat
    /\ MaxChanges \in Nat
    /\ ShortRanges \in BOOLEAN

VARIABLES
    served,      \* the version each URL serves
    changes,     \* how often that changed
    target,      \* the file at <path>
    part,        \* the file at <path>.part
    side,        \* the file at <path>.part.json
    pc, req,     \* the task: where it is, and what it was asked for
    attempt,     \* how many attempts failed
    offset,      \* the offset this attempt read from the partial
    recorded,    \* the sidecar this attempt read
    resp,        \* the response it is processing
    pos,         \* `downloaded`: blocks received, a resumed prefix included
    buf,         \* the tail of those still in the writer's buffer
    hasher,      \* the running hash
    checkpoint,  \* the hash carried between attempts, and what it covers
    digest       \* the digest the finished transfer published

disk == <<target, part, side>>
vars == <<served, changes, disk, pc, req, attempt, offset, recorded, resp, pos,
          buf, hasher, checkpoint, digest>>

-----------------------------------------------------------------------------
(* Data. *)

Content(v) == [i \in 1..Length[v] |-> <<v, i>>]

(* The validator an attempt sends as If-Range. *)
IfRange == IF recorded = NoSide THEN NoValidator ELSE recorded.validator

(* A file: its blocks, how many of them are known to be on the medium,     *)
(* and for the properties whether it was resumed without a validator       *)
(* (blind), renamed before it was synced (loose), and on whose requests    *)
(* its blocks came.                                                        *)
Empty == [data |-> <<>>, synced |-> 0, blind |-> FALSE, loose |-> FALSE, asked |-> {}]

Resumed(file) == [file EXCEPT !.blind = @ \/ IfRange = NoValidator]

Len0(file) == IF file = NoFile THEN 0 ELSE Len(file.data)
IsSidecar(s) == s \notin {NoSide, Torn}

(* Mutant: a sidecar that ignores the resume key. *)
matchesUrlOnly(s, r) == s.url = r.url \/ r.across

(* Sidecar::matches. *)
matches(s, r) ==
    /\ s.url = r.url \/ (r.across /\ r.key # NoKey)
    /\ s.key = r.key

(* hash_prefix: the hash of the partial's first n blocks.  A checkpoint    *)
(* that covers more than n is of no use.                                   *)
hash_prefix(n) ==
    IF checkpoint # NoHash /\ Len(checkpoint) <= n
    THEN checkpoint \o SubSeq(part.data, Len(checkpoint) + 1, n)
    ELSE SubSeq(part.data, 1, n)

(* What the task holds in memory when it is not running. *)
Finished(d) ==
    /\ pc' = "idle" /\ attempt' = 0 /\ offset' = 0 /\ recorded' = NoSide
    /\ resp' = NoResponse /\ pos' = 0 /\ buf' = <<>> /\ hasher' = NoHash
    /\ checkpoint' = NoHash /\ digest' = d

resuming == resp # NoResponse /\ offset > 0 /\ resp.status = 206

transfer == <<offset, recorded, resp, pos, buf, hasher>>

-----------------------------------------------------------------------------
(* stream_to_file, before the first attempt. *)

(* A file at the target is finished, unless the mode is Overwrite. *)
Start(r) ==
    /\ pc = "idle"
    /\ target = NoFile \/ r.mode = "Overwrite"
    /\ req' = r
    /\ pc' = "prepare"
    /\ digest' = NoHash
    /\ UNCHANGED <<served, changes, disk, attempt, transfer, checkpoint>>

(* partial::reconcile: the partial is kept only if its sidecar says that   *)
(* it belongs to this request.  Overwrite always discards.                 *)
Reconcile ==
    /\ pc = "prepare"
    /\ pc' = IF /\ req.mode # "Overwrite"
                /\ part # NoFile /\ IsSidecar(side) /\ matches(side, req)
             THEN "attempt" ELSE "discard"
    /\ UNCHANGED <<served, changes, disk, req, attempt, transfer, checkpoint, digest>>

(* partial::discard: the partial, then the sidecar.  Called here, and for  *)
(* a partial a 416 disowned, which also forgets the checkpoint.            *)
DiscardPart ==
    /\ pc = "discard"
    /\ part' = NoFile
    /\ pc' = "discardside"
    /\ UNCHANGED <<served, changes, target, side, req, attempt, transfer,
                   checkpoint, digest>>

DiscardSide ==
    /\ pc = "discardside"
    /\ side' = NoSide
    /\ checkpoint' = NoHash
    /\ pc' = IF resp = NoResponse THEN "attempt" ELSE "failed"
    /\ UNCHANGED <<served, changes, target, part, req, attempt, transfer, digest>>

-----------------------------------------------------------------------------
(* One attempt. *)

(* The offset, and the sidecar behind it, are read again every time. *)
Attempt ==
    /\ pc = "attempt"
    /\ offset' = IF req.mode = "Overwrite" THEN 0 ELSE Len0(part)
    /\ recorded' = IF offset' > 0 /\ IsSidecar(side) THEN side ELSE NoSide
    /\ resp' = NoResponse
    /\ pc' = "send"
    /\ UNCHANGED <<served, changes, disk, req, attempt, pos, buf, hasher,
                   checkpoint, digest>>

(* The server's answers to the request, the version being pinned now.  A   *)
(* Range is honoured only if If-Range, when sent, names that version.      *)
Full(v) == [status |-> 200, version |-> v, from |-> 1, to |-> Length[v],
            validator |-> Validator[v], length |-> Length[v]]

(* A 206 need not repeat the validator, and its length is what it covers. *)
Ranged(v) ==
    {[status |-> 206, version |-> v, from |-> a, to |-> b,
      validator |-> e, length |-> b] :
        a \in {1, offset + 1}, b \in offset + 1..Length[v],
        e \in {Validator[v], NoValidator}}

Unsatisfiable(v) ==
    [status : {416}, version : {v}, from : {0}, to : {0},
     validator : {NoValidator}, length : {Length[v], NoLength}]

Unsized(r) == {r, [r EXCEPT !.length = NoLength]}

Answers(v) ==
    Unsized(Full(v)) \cup
    (IF offset = 0 \/ (IfRange # NoValidator /\ IfRange # Validator[v]) THEN {}
     ELSE IF offset >= Length[v] THEN Unsatisfiable(v)
     ELSE UNION {Unsized(r) : r \in {q \in Ranged(v) : ShortRanges \/ q.to = Length[v]}})

(* The response, and where it sends the task: a 416 whose length does not  *)
(* disagree makes the partial the whole file, any other 416 disowns it; a  *)
(* 206 must begin at the block that was asked for.                         *)
Complete416(r) ==
    LET total == IF r.length # NoLength THEN r.length
                 ELSE IF recorded # NoSide THEN recorded.total ELSE NoLength
    IN  total \in {NoLength, offset}

Send ==
    /\ pc = "send"
    /\ \E r \in Answers(served[req.url]) :
          /\ resp' = r
          /\ pc' = CASE r.status = 416 -> IF Complete416(r) THEN "adopt" ELSE "discard"
                     [] r.status = 206 -> IF r.from = offset + 1 THEN "open" ELSE "truncate"
                     [] OTHER -> "open"
    /\ UNCHANGED <<served, changes, disk, req, attempt, offset, recorded, pos,
                   buf, hasher, checkpoint, digest>>

(* The partial is the artifact: hash what the checkpoint does not cover,   *)
(* and promote it.                                                         *)
Adopt ==
    /\ pc = "adopt"
    /\ hasher' = IF req.hash THEN hash_prefix(offset) ELSE NoHash
    /\ checkpoint' = NoHash
    /\ part' = Resumed(part)
    /\ pc' = "promote"
    /\ UNCHANGED <<served, changes, target, side, req, attempt, offset, recorded,
                   resp, pos, buf, digest>>

(* A 206 for another range: the partial is emptied. *)
Truncate ==
    /\ pc = "truncate"
    /\ part' = Empty
    /\ checkpoint' = NoHash
    /\ pc' = "failed"
    /\ UNCHANGED <<served, changes, target, side, req, attempt, transfer, digest>>

(* Mutant: truncating the partial does not forget the checkpoint. *)
OpenRemembering ==
    /\ pc = "open"
    /\ IF resuming
       THEN /\ part' = Resumed(part)
            /\ pos' = offset
            /\ hasher' = IF req.hash THEN hash_prefix(offset) ELSE NoHash
            /\ checkpoint' = NoHash
       ELSE /\ part' = Empty
            /\ pos' = 0
            /\ hasher' = IF req.hash THEN <<>> ELSE NoHash
            /\ UNCHANGED checkpoint
    /\ buf' = <<>>
    /\ pc' = "sidecar"
    /\ UNCHANGED <<served, changes, target, side, req, attempt, offset, recorded,
                   resp, digest>>

(* Open the partial to append, or truncate it, and seed the hash. *)
Open ==
    /\ pc = "open"
    /\ IF resuming
       THEN /\ part' = Resumed(part)
            /\ pos' = offset
            /\ hasher' = IF req.hash THEN hash_prefix(offset) ELSE NoHash
       ELSE /\ part' = Empty
            /\ pos' = 0
            /\ hasher' = IF req.hash THEN <<>> ELSE NoHash
    /\ checkpoint' = NoHash
    /\ buf' = <<>>
    /\ pc' = "sidecar"
    /\ UNCHANGED <<served, changes, target, side, req, attempt, offset, recorded,
                   resp, digest>>

(* partial::write: the sidecar is truncated, then filled. *)
TruncateSide ==
    /\ pc = "sidecar"
    /\ side' = Torn
    /\ pc' = "sidewrite"
    /\ UNCHANGED <<served, changes, target, part, req, attempt, transfer,
                   checkpoint, digest>>

(* Mutant: a validator outlives the bytes it was sent with. *)
NewSidecarCarried ==
    [url |-> req.url, key |-> req.key,
     validator |-> IF recorded # NoSide /\ resp.validator = NoValidator
                   THEN recorded.validator ELSE resp.validator,
     total |-> resp.length]

NewSidecar ==
    [url |-> req.url, key |-> req.key,
     validator |-> IF resuming /\ recorded # NoSide /\ resp.validator = NoValidator
                   THEN recorded.validator ELSE resp.validator,
     total |-> resp.length]

WriteSide ==
    /\ pc = "sidewrite"
    /\ side' = NewSidecar
    /\ pc' = "stream"
    /\ UNCHANGED <<served, changes, target, part, req, attempt, transfer,
                   checkpoint, digest>>

(* The next block of the body, which starts at resp.from. *)
cursor == resp.from + (pos - IF resuming THEN offset ELSE 0)

(* A chunk arrives: it is given to the writer and to the hash. *)
Chunk ==
    /\ pc = "stream"
    /\ cursor <= resp.to
    /\ LET block == <<resp.version, cursor>> IN
          /\ buf' = Append(buf, block)
          /\ hasher' = IF req.hash THEN Append(hasher, block) ELSE NoHash
    /\ pos' = pos + 1
    /\ UNCHANGED <<served, changes, disk, pc, req, attempt, offset, recorded,
                   resp, checkpoint, digest>>

(* The writer's buffer reaches the file, at its own pace or on a flush. *)
Flushed ==
    part' = [part EXCEPT !.data = Append(@, Head(buf)),
                         !.asked = @ \cup {[url |-> req.url, key |-> req.key]}]

WriteOut ==
    /\ pc = "stream"
    /\ buf # <<>>
    /\ Flushed
    /\ buf' = Tail(buf)
    /\ UNCHANGED <<served, changes, target, side, pc, req, attempt, offset,
                   recorded, resp, pos, hasher, checkpoint, digest>>

(* Past a progress threshold the file is flushed, and the hash recorded. *)
Checkpoint ==
    /\ pc = "stream"
    /\ req.hash /\ buf = <<>> /\ pos > offset
    /\ checkpoint' = hasher
    /\ UNCHANGED <<served, changes, disk, pc, req, attempt, transfer, digest>>

(* Mutant: into_inner without the flush drops the buffer. *)
SyncUnflushed ==
    /\ pc = "stream"
    /\ cursor > resp.to
    /\ part' = [part EXCEPT !.synced = Len(part.data)]
    /\ pc' = "promote"
    /\ UNCHANGED <<served, changes, target, side, req, attempt, transfer,
                   checkpoint, digest>>

(* The stream ends: flush, then sync_all. *)
Sync ==
    /\ pc = "stream"
    /\ cursor > resp.to /\ buf = <<>>
    /\ part' = [part EXCEPT !.synced = Len(part.data)]
    /\ pc' = "promote"
    /\ UNCHANGED <<served, changes, target, side, req, attempt, transfer,
                   checkpoint, digest>>

(* partial::promote: the sidecar goes first, then the rename.  run then    *)
(* publishes the digest.                                                   *)
PromoteSide ==
    /\ pc = "promote"
    /\ side' = NoSide
    /\ pc' = "rename"
    /\ UNCHANGED <<served, changes, target, part, req, attempt, transfer,
                   checkpoint, digest>>

Rename ==
    /\ pc = "rename"
    /\ target' = [part EXCEPT !.loose = part.synced # Len(part.data)]
    /\ part' = NoFile
    /\ Finished(hasher)
    /\ UNCHANGED <<served, changes, side, req>>

-----------------------------------------------------------------------------
(* What goes wrong. *)

(* A failed request, a broken or stalled stream, a disk error, of a kind   *)
(* is_retryable accepts: the attempt is over, its file is dropped, and     *)
(* what the writer still held is lost.                                     *)
Attempting ==
    \/ pc \in {"attempt", "send", "adopt", "truncate", "open", "sidecar",
               "sidewrite", "stream", "promote", "rename"}
    \/ pc \in {"discard", "discardside"} /\ resp # NoResponse

Fail ==
    /\ Attempting
    /\ pc' = "failed"
    /\ buf' = <<>>
    /\ UNCHANGED <<served, changes, disk, req, attempt, offset, recorded, resp,
                   pos, hasher, checkpoint, digest>>

(* Mutant: retries nobody counts. *)
RetryForever ==
    /\ pc = "failed"
    /\ pc' = "attempt"
    /\ UNCHANGED <<served, changes, disk, req, attempt, transfer, checkpoint, digest>>

(* with_fibonacci_backoff: another attempt after the delay, if one is left. *)
Retry ==
    /\ pc = "failed"
    /\ attempt < Retries
    /\ attempt' = attempt + 1
    /\ pc' = "attempt"
    /\ UNCHANGED <<served, changes, disk, req, transfer, checkpoint, digest>>

GiveUp ==
    /\ pc = "failed"
    /\ attempt = Retries
    /\ Finished(NoHash)
    /\ UNCHANGED <<served, changes, disk, req>>

(* The task ends where it stands: Download::cancel aborts it at an await,  *)
(* an error is final or came before the first attempt, or the process is   *)
(* killed.  None of these cleans up.                                       *)
Stop ==
    /\ pc # "idle"
    /\ Finished(NoHash)
    /\ UNCHANGED <<served, changes, disk, req>>

(* A power failure: a file keeps at least what was synced, and a sidecar,  *)
(* which never is, may come back torn.                                     *)
Remnants(file) ==
    IF file = NoFile THEN {NoFile}
    ELSE {[file EXCEPT !.data = SubSeq(@, 1, n), !.synced = n] : n \in file.synced..Len(file.data)}

PowerLoss ==
    /\ target' \in Remnants(target)
    /\ part' \in Remnants(part)
    /\ side' \in {side} \cup (IF IsSidecar(side) THEN {Torn} ELSE {})
    /\ Finished(NoHash)
    /\ UNCHANGED <<served, changes, req>>

(* The server publishes something else under a URL. *)
Republish(u, v) ==
    /\ changes < MaxChanges
    /\ served[u] # v
    /\ served' = [served EXCEPT ![u] = v]
    /\ changes' = changes + 1
    /\ UNCHANGED <<disk, pc, req, attempt, transfer, checkpoint, digest>>

-----------------------------------------------------------------------------
Init ==
    /\ served \in [Urls -> Versions]
    /\ changes = 0
    /\ target = NoFile /\ part = NoFile /\ side = NoSide
    /\ pc = "idle"
    /\ req \in Requests
    /\ attempt = 0 /\ offset = 0 /\ recorded = NoSide /\ resp = NoResponse
    /\ pos = 0 /\ buf = <<>> /\ hasher = NoHash /\ checkpoint = NoHash
    /\ digest = NoHash

(* What the task does on its own; a stalled request fails on its timeout. *)
Proceed ==
    \/ Reconcile \/ DiscardPart \/ DiscardSide
    \/ Attempt \/ Send \/ Adopt \/ Truncate \/ Open
    \/ TruncateSide \/ WriteSide \/ Chunk \/ WriteOut \/ Sync
    \/ PromoteSide \/ Rename \/ Retry \/ GiveUp

Environment ==
    \/ \E r \in Requests : Start(r)
    \/ Checkpoint \/ Fail \/ Stop \/ PowerLoss
    \/ \E u \in Urls, v \in Versions : Republish(u, v)

Next == Proceed \/ Environment

Spec == Init /\ [][Next]_vars

FairSpec == Spec /\ WF_vars(Proceed)

-----------------------------------------------------------------------------
(* Properties. *)

PCs == {"idle", "prepare", "discard", "discardside", "attempt", "send", "adopt",
        "truncate", "open", "sidecar", "sidewrite", "stream", "promote", "rename",
        "failed"}

Origin == [url : Urls, key : Keys \cup {NoKey}]
Validators == {Validator[v] : v \in Versions} \cup {NoValidator}
Block == {b \in Versions \X Nat : b[2] \in 1..Length[b[1]]}
Hash == Seq(Block)

File == {f \in [data : Seq(Block), synced : Nat, blind : BOOLEAN, loose : BOOLEAN,
                asked : SUBSET Origin] : f.synced <= Len(f.data)}

Sidecar == [url : Urls, key : Keys \cup {NoKey}, validator : Validators,
            total : Nat \cup {NoLength}]

Response == [status : {200, 206, 416}, version : Versions, from : Nat, to : Nat,
             validator : Validators, length : Nat \cup {NoLength}]

(* What stands for nothing is nothing else. *)
ASSUME AbsentAssumption ==
    /\ NoFile \notin File /\ NoHash \notin Hash /\ NoResponse \notin Response
    /\ NoSide \notin Sidecar /\ Torn \notin Sidecar /\ Torn # NoSide
    /\ NoLength \notin Nat

(* Every variable keeps its type. *)
TypeOK ==
    /\ served \in [Urls -> Versions] /\ changes \in 0..MaxChanges
    /\ target \in File \cup {NoFile} /\ part \in File \cup {NoFile}
    /\ side \in Sidecar \cup {NoSide, Torn} /\ recorded \in Sidecar \cup {NoSide}
    /\ pc \in PCs /\ req \in Requests /\ attempt \in 0..Retries
    /\ offset \in Nat /\ pos \in Nat
    /\ resp \in Response \cup {NoResponse}
    /\ buf \in Seq(Block)
    /\ {hasher, checkpoint, digest} \subseteq Hash \cup {NoHash}

Whole(data) == \E v \in Versions : data = Content(v)
Prefix(data) == \E v \in Versions :
                   Len(data) <= Length[v] /\ data = SubSeq(Content(v), 1, Len(data))

(* "A file at the target path is complete, always" (fetch/partial.rs): it  *)
(* holds exactly the bytes of one version, through failures, retries,      *)
(* cancellations and republications, unless a resume had no validator to   *)
(* send as If-Range, or a 416 promoted a partial nobody had synced.        *)
TargetWhole ==
    target # NoFile /\ ~target.blind /\ ~target.loose => Whole(target.data)

(* A partial whose sidecar names a validator holds a prefix of the version *)
(* that validator names, whatever was interrupted between writing one and  *)
(* writing the other: the next If-Range tells the truth.                   *)
SidecarDescribesPart ==
    part # NoFile /\ ~part.blind /\ IsSidecar(side) /\ side.validator # NoValidator =>
        \A i \in DOMAIN part.data :
            part.data[i][2] = i /\ Validator[part.data[i][1]] = side.validator

(* "A resume is provably a resume of the right thing" (fetch/partial.rs):  *)
(* no block is appended to, or promoted with, blocks another request asked *)
(* for under another key, or without a key from another URL.               *)
ResumeIdentified ==
    pc \in {"open", "stream", "promote", "rename"} /\ offset > 0 /\ part # NoFile =>
        \A o \in part.asked :
            o.key = req.key /\ (o.url = req.url \/ req.key # NoKey)

(* The published digest is the digest of the file that was promoted, also  *)
(* when checkpoints of several attempts went into it.                      *)
DigestOfTarget ==
    digest # NoHash => target # NoFile /\ digest = target.data

(* A transfer ends: attempts are bounded and a stalled one times out. *)
TransferEnds == pc # "idle" ~> pc = "idle"

(* fetch/partial.rs, promote: "The caller is responsible for having        *)
(* flushed and synced the .part before calling this".  What reaches the    *)
(* target path is on the medium.                                           *)
TargetDurable == target # NoFile => ~target.loose

(* "A file at the target path is complete, always": no prefix of a version *)
(* is promoted because a 206 ended before the end of the resource.         *)
NoShortTarget ==
    target # NoFile /\ ~target.blind /\ ~target.loose /\ Prefix(target.data)
        => Whole(target.data)

(* fetch/partial.rs, read: a sidecar that cannot be understood means "this *)
(* partial's identity is unknown", "which the caller resolves by starting  *)
(* fresh".  No block is appended to a partial without a readable sidecar.  *)
UnknownStartsFresh == pc = "open" /\ resuming => recorded # NoSide
=============================================================================
