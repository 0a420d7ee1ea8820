------------------------- MODULE FetchDownloadProofs -------------------------
(***************************************************************************)
(* Proofs about FetchDownload, for any URLs, versions, lengths, resume     *)
(* keys, requests and retries, and any failures.                           *)
(***************************************************************************)
EXTENDS FetchDownload, TLAPS

(* The response says who it is: its range begins where it was asked to,    *)
(* and a Range is honoured only for the version If-Range named.            *)
Named == IfRange \in {NoValidator, Validator[resp.version]}

Receiving == {"open", "sidecar", "sidewrite", "stream"}

(* Before an attempt there is no response. *)
NoAnswerYet == pc \in {"idle", "prepare"} => resp = NoResponse

(* The offset and the sidecar an attempt has read are those of the partial *)
(* until it touches either.                                                *)
ReadTruly ==
    pc \in {"send", "adopt", "open"} =>
        /\ offset > 0 => part # NoFile /\ offset = Len(part.data)
        /\ recorded # NoSide => side = recorded /\ offset > 0

(* What an attempt may receive. *)
AnsweredTruly ==
    /\ pc \in Receiving =>
          /\ resp # NoResponse
          /\ resp.validator \in {Validator[resp.version], NoValidator}
          /\ resp.to <= Length[resp.version]
          /\ ~ShortRanges => resp.to = Length[resp.version]
          /\ \/ resp.status = 200 /\ resp.from = 1
             \/ /\ resp.status = 206 /\ resp.from = offset + 1
                /\ 0 < offset /\ offset < resp.to /\ Named
    /\ pc = "adopt" =>
          /\ resp # NoResponse /\ resp.status = 416
          /\ 0 < offset /\ Length[resp.version] <= offset /\ Named
          /\ resp.length \in {offset, NoLength}
          /\ resp.length # NoLength => resp.length = Length[resp.version]

(* The partial and the writer's buffer hold the blocks received, in order, *)
(* the buffered ones of the version received, and the others too unless    *)
(* they were resumed blindly; the running hash covers them all.            *)
BodyInOrder ==
    pc \in {"sidecar", "sidewrite", "stream"} =>
        /\ part # NoFile
        /\ pos = Len(part.data) + Len(buf) /\ pos <= resp.to
        /\ resuming => offset <= pos
        /\ pc # "stream" => buf = <<>>
        /\ \A k \in 1..Len(buf) : buf[k] = <<resp.version, Len(part.data) + k>>
        /\ ~part.blind => \A i \in 1..Len(part.data) : part.data[i] = <<resp.version, i>>
        /\ IF req.hash THEN hasher = part.data \o buf ELSE hasher = NoHash

(* While blocks arrive, the sidecar speaks of this request's bytes. *)
SidecarWritten ==
    pc = "stream" =>
        /\ side \in Sidecar /\ side.url = req.url /\ side.key = req.key
        /\ side.validator \in {Validator[resp.version], NoValidator}

(* What is promoted is whole, and hashed. *)
PromotesWhole ==
    pc \in {"promote", "rename"} =>
        /\ part # NoFile
        /\ hasher # NoHash => hasher = part.data
        /\ ~ShortRanges /\ ~part.blind => Whole(part.data)

(* The checkpoint is the hash of a prefix of the partial. *)
CheckpointCovers ==
    checkpoint # NoHash /\ part # NoFile =>
        /\ Len(checkpoint) <= Len(part.data)
        /\ \A i \in 1..Len(checkpoint) : checkpoint[i] = part.data[i]

(* Only a target renamed before it was synced can lose blocks. *)
TargetSynced == target # NoFile /\ ~target.loose => target.synced = Len(target.data)

(* On whose requests the partial's blocks came, by its sidecar.            *)
SidecarIdentifies ==
    part # NoFile /\ side \in Sidecar =>
        \A o \in part.asked : o.key = side.key /\ (o.url = side.url \/ side.key # NoKey)

(* Once reconcile has kept or discarded the partial, it is this request's. *)
Reconciled == pc \notin {"idle", "prepare"} /\ ~(pc = "discard" /\ resp = NoResponse)
OwnPart ==
    Reconciled /\ part # NoFile =>
        \A o \in part.asked : o.key = req.key /\ (o.url = req.url \/ req.key # NoKey)

DownloadInv ==
    /\ TypeOK /\ NoAnswerYet /\ ReadTruly /\ AnsweredTruly
    /\ BodyInOrder /\ SidecarWritten /\ PromotesWhole
    /\ CheckpointCovers /\ TargetSynced /\ SidecarIdentifies /\ OwnPart
    /\ SidecarDescribesPart /\ DigestOfTarget
    /\ ~ShortRanges => TargetWhole

-----------------------------------------------------------------------------
(* Data. *)

(* A file's fields. *)
LEMMA FileFacts ==
  ASSUME NEW f \in File
  PROVE  /\ f.data \in Seq(Block) /\ f.synced \in Nat /\ f.synced <= Len(f.data)
         /\ f.blind \in BOOLEAN /\ f.loose \in BOOLEAN /\ f.asked \subseteq Origin
         /\ f # NoFile
BY AbsentAssumption DEF File

(* An empty file. *)
LEMMA EmptyFacts ==
  /\ Empty \in File /\ Len(Empty.data) = 0 /\ Empty.data = <<>>
  /\ ~Empty.blind /\ Empty.asked = {}
<1>1. <<>> \in Seq(Block) /\ Len(<<>>) = 0
  OBVIOUS
<1> QED BY <1>1 DEF Empty, File

(* A partial that is resumed keeps its blocks. *)
LEMMA ResumedFacts ==
  ASSUME NEW f \in File
  PROVE  /\ Resumed(f) \in File /\ Resumed(f).data = f.data /\ Resumed(f).asked = f.asked
         /\ ~Resumed(f).blind <=> (~f.blind /\ IfRange # NoValidator)
BY DEF Resumed, File

(* A file with other blocks. *)
LEMMA EditedFacts ==
  ASSUME NEW f \in File, NEW d \in Seq(Block), NEW n \in Nat, n <= Len(d),
         NEW a \in SUBSET Origin
  PROVE  [data |-> d, synced |-> n, blind |-> f.blind, loose |-> f.loose, asked |-> a] \in File
<1>1. f.blind \in BOOLEAN /\ f.loose \in BOOLEAN
  BY FileFacts
<1> QED BY <1>1 DEF File

(* A block is a version's, and within it. *)
LEMMA BlockFacts ==
  ASSUME NEW b \in Block
  PROVE  /\ b[1] \in Versions /\ b[2] \in Nat /\ b = <<b[1], b[2]>>
         /\ 1 <= b[2] /\ b[2] <= Length[b[1]]
BY DownloadAssumption DEF Block, DownloadAssumption

(* The blocks of a version. *)
LEMMA BlockIn ==
  ASSUME NEW v \in Versions, NEW i \in Nat, 1 <= i, i <= Length[v]
  PROVE  <<v, i>> \in Block
BY DownloadAssumption DEF Block, DownloadAssumption

(* A prefix of a sequence. *)
LEMMA PrefixFacts ==
  ASSUME NEW S, NEW q \in Seq(S), NEW n \in 0..Len(q)
  PROVE  /\ SubSeq(q, 1, n) \in Seq(S) /\ Len(SubSeq(q, 1, n)) = n
         /\ \A i \in 1..n : SubSeq(q, 1, n)[i] = q[i]
         /\ n = Len(q) => SubSeq(q, 1, n) = q
OBVIOUS

(* A digest continued from a checkpoint is the digest of the whole.        *)
LEMMA ContinuedHash ==
  ASSUME NEW S, NEW q \in Seq(S), NEW c \in Seq(S), Len(c) <= Len(q),
         \A i \in 1..Len(c) : c[i] = q[i]
  PROVE  c \o SubSeq(q, Len(c) + 1, Len(q)) = q
OBVIOUS

(* A chunk is the last of the running hash and of the buffer. *)
LEMMA AppendFacts ==
  ASSUME NEW S, NEW b \in Seq(S), NEW x \in S
  PROVE  /\ Append(b, x) \in Seq(S) /\ Len(Append(b, x)) = Len(b) + 1
         /\ Append(b, x)[Len(b) + 1] = x
         /\ \A k \in 1..Len(b) : Append(b, x)[k] = b[k]
OBVIOUS

(* A block received goes to the end of what is not yet written.            *)
LEMMA AppendBoth ==
  ASSUME NEW q \in Seq(Block), NEW b \in Seq(Block), NEW x \in Block
  PROVE  Append(q \o b, x) = q \o Append(b, x)
OBVIOUS

(* A block that moves from the buffer to the file. *)
LEMMA MoveHead ==
  ASSUME NEW S, NEW q \in Seq(S), NEW b \in Seq(S), b # <<>>
  PROVE  /\ Tail(b) \in Seq(S) /\ Len(b) \in Nat /\ Len(b) >= 1 /\ Len(Tail(b)) = Len(b) - 1
         /\ b[1] = Head(b) /\ b[1] \in S
         /\ \A k \in 1..Len(b) - 1 : Tail(b)[k] = b[k + 1]
         /\ Append(q, Head(b)) \in Seq(S) /\ Len(Append(q, Head(b))) = Len(q) + 1
         /\ Append(q, Head(b))[Len(q) + 1] = b[1]
         /\ \A i \in 1..Len(q) : Append(q, Head(b))[i] = q[i]
         /\ Append(q, Head(b)) \o Tail(b) = q \o b
<1>1. /\ Tail(b) \in Seq(S) /\ Len(b) \in Nat /\ Len(b) >= 1 /\ Len(Tail(b)) = Len(b) - 1
      /\ b[1] = Head(b) /\ b[1] \in S
      /\ \A k \in 1..Len(b) - 1 : Tail(b)[k] = b[k + 1]
  OBVIOUS
<1>2. /\ Append(q, Head(b)) \in Seq(S) /\ Len(Append(q, Head(b))) = Len(q) + 1
      /\ Append(q, Head(b))[Len(q) + 1] = b[1]
      /\ \A i \in 1..Len(q) : Append(q, Head(b))[i] = q[i]
  BY <1>1
<1>3. Append(q, Head(b)) \o Tail(b) = q \o b
  BY <1>1, <1>2
<1> QED BY <1>1, <1>2, <1>3

(* All the blocks of a version are the version. *)
LEMMA AllBlocks ==
  ASSUME NEW v \in Versions, NEW d \in Seq(Block), Len(d) = Length[v],
         \A i \in 1..Len(d) : d[i] = <<v, i>>
  PROVE  Whole(d)
<1>1. d = [i \in 1..Len(d) |-> d[i]]
  OBVIOUS
<1>2. Content(v) = [i \in 1..Len(d) |-> <<v, i>>]
  BY DEF Content
<1>3. d = Content(v)
  BY <1>1, <1>2
<1> QED BY <1>3 DEF Whole

-----------------------------------------------------------------------------
USE DownloadAssumption, AbsentAssumption
USE DEF DownloadInv, Named, Receiving, Reconciled, PCs, Finished, IfRange, resuming,
        disk, transfer

(* What a request may be. *)
LEMMA RequestFacts ==
  ASSUME NEW r \in Requests
  PROVE  r.url \in Urls /\ r.key \in Keys \cup {NoKey} /\ r.hash \in BOOLEAN
BY DEF DownloadAssumption

(* What a response may be. *)
LEMMA ResponseFacts ==
  ASSUME NEW r \in Response
  PROVE  /\ r # NoResponse /\ r.version \in Versions /\ Length[r.version] \in Nat
         /\ r.from \in Nat /\ r.to \in Nat /\ r.validator \in Validators
         /\ r.length \in Nat \cup {NoLength}
BY DEF Response, DownloadAssumption, AbsentAssumption

(* The server's answers to an attempt. *)
LEMMA AnswerFacts ==
  ASSUME TypeOK, NEW v \in Versions, NEW r \in Answers(v)
  PROVE  /\ r \in Response /\ r.version = v
         /\ r.status \in {200, 206} => /\ r.validator \in {Validator[v], NoValidator}
                                       /\ r.to <= Length[v]
                                       /\ ~ShortRanges => r.to = Length[v]
         /\ r.status = 200 => r.from = 1
         /\ r.status = 206 => 0 < offset /\ offset < r.to /\ IfRange \in {NoValidator, Validator[v]}
         /\ r.status = 416 => /\ 0 < offset /\ Length[v] <= offset
                              /\ IfRange \in {NoValidator, Validator[v]}
                              /\ r.length \in {Length[v], NoLength}
<1>1. Length[v] \in Nat \ {0} /\ Validator[v] \in Validators /\ NoValidator \in Validators /\ offset \in Nat
  BY DEF DownloadAssumption, Validators, TypeOK
<1>2. CASE r \in Unsized(Full(v))
  BY <1>1, <1>2 DEF Unsized, Full, Response
<1>3. CASE r \in Unsatisfiable(v) /\ 0 < offset /\ Length[v] <= offset /\ IfRange \in {NoValidator, Validator[v]}
  BY <1>1, <1>3 DEF Unsatisfiable, Response
<1>4. CASE /\ 0 < offset /\ IfRange \in {NoValidator, Validator[v]}
           /\ \E q \in Ranged(v) : r \in Unsized(q) /\ (ShortRanges \/ q.to = Length[v])
  <2>1. PICK q \in Ranged(v) : r \in Unsized(q) /\ (ShortRanges \/ q.to = Length[v])
    BY <1>4
  <2>2. /\ q \in Response /\ q.version = v /\ q.status = 206
        /\ q.validator \in {Validator[v], NoValidator} /\ offset < q.to /\ q.to <= Length[v]
    BY <1>1, <2>1 DEF Ranged, Response
  <2>3. /\ r \in Response /\ r.version = v /\ r.status = 206
        /\ r.validator = q.validator /\ r.to = q.to
    BY <2>1, <2>2 DEF Unsized, Response
  <2> QED BY <1>4, <2>1, <2>2, <2>3
<1> QED BY <1>1, <1>2, <1>3, <1>4 DEF Answers

(* The new sidecar names this request, and no version but the response's.  *)
LEMMA NewSidecarFacts ==
  ASSUME TypeOK, AnsweredTruly, pc \in Receiving
  PROVE  /\ NewSidecar \in Sidecar /\ NewSidecar.url = req.url /\ NewSidecar.key = req.key
         /\ NewSidecar.validator \in {Validator[resp.version], NoValidator}
<1>1. resp \in Response
  BY DEF TypeOK, AnsweredTruly
<1>2. NewSidecar.validator \in {Validator[resp.version], NoValidator}
  BY DEF AnsweredTruly, NewSidecar
<1>3. Validator[resp.version] \in Validators /\ NoValidator \in Validators
  BY <1>1, ResponseFacts DEF Validators
<1>4. NewSidecar \in Sidecar
  BY <1>1, <1>2, <1>3, RequestFacts, ResponseFacts DEF TypeOK, NewSidecar, Sidecar
<1> QED BY <1>2, <1>4 DEF NewSidecar

(* The next block to arrive is the one after those received. *)
LEMMA NextBlock ==
  ASSUME TypeOK, AnsweredTruly, BodyInOrder, pc \in {"sidecar", "sidewrite", "stream"}
  PROVE  cursor = pos + 1 /\ resp \in Response
<1>1. resp \in Response
  BY DEF TypeOK, AnsweredTruly
<1> QED BY <1>1, ResponseFacts DEF TypeOK, AnsweredTruly, BodyInOrder, cursor

(* hash_prefix over all of the partial, with a checkpoint or without. *)
LEMMA HashPrefix ==
  ASSUME TypeOK, CheckpointCovers, part # NoFile, offset = Len(part.data)
  PROVE  hash_prefix(offset) = part.data
<1>1. part.data \in Seq(Block) /\ Len(part.data) \in Nat
  BY FileFacts DEF TypeOK
<1>2. CASE checkpoint # NoHash
  <2>1. checkpoint \in Seq(Block)
    BY <1>2 DEF TypeOK, Hash
  <2>2. checkpoint \o SubSeq(part.data, Len(checkpoint) + 1, Len(part.data)) = part.data
    BY <1>1, <1>2, <2>1, ContinuedHash DEF CheckpointCovers
  <2> QED BY <1>2, <2>2 DEF hash_prefix, CheckpointCovers
<1>3. CASE checkpoint = NoHash
  BY <1>1, <1>3, PrefixFacts DEF hash_prefix
<1> QED BY <1>2, <1>3

(* If-Range named the version of a partial that is resumed. *)
LEMMA ResumedBlocks ==
  ASSUME TypeOK, ReadTruly, AnsweredTruly, SidecarDescribesPart, pc \in {"open", "adopt"},
         offset > 0, Named, IfRange # NoValidator, ~part.blind, resp \in Response
  PROVE  \A i \in 1..Len(part.data) : part.data[i] = <<resp.version, i>>
<1>1. part \in File /\ recorded # NoSide /\ side = recorded /\ side \in Sidecar
  BY DEF TypeOK, ReadTruly
<1>2. side.validator # NoValidator /\ side.validator = Validator[resp.version]
  BY <1>1
<1>3. \A i \in DOMAIN part.data :
          part.data[i][2] = i /\ Validator[part.data[i][1]] = side.validator
  BY <1>1, <1>2, FileFacts DEF SidecarDescribesPart, IsSidecar, AbsentAssumption
<1>4. ASSUME NEW i \in 1..Len(part.data) PROVE part.data[i] = <<resp.version, i>>
  <2>1. part.data[i] \in Block /\ i \in DOMAIN part.data
    BY <1>1, FileFacts
  <2>2. part.data[i][1] \in Versions /\ part.data[i] = <<part.data[i][1], part.data[i][2]>>
    BY <2>1, BlockFacts
  <2>3. part.data[i][1] = resp.version
    BY <1>2, <1>3, <2>1, <2>2, ResponseFacts DEF DownloadAssumption
  <2> QED BY <1>3, <2>1, <2>2, <2>3
<1> QED BY <1>4

(* Nothing has been downloaded. *)
LEMMA InitDownload == Init => DownloadInv
<1> SUFFICES ASSUME Init PROVE DownloadInv
  OBVIOUS
<1> USE DEF Init
<1>1. TypeOK
  BY DEF TypeOK, DownloadAssumption
<1>2. NoAnswerYet /\ ReadTruly /\ AnsweredTruly /\ BodyInOrder /\ SidecarWritten
      /\ PromotesWhole /\ CheckpointCovers /\ TargetSynced
  BY DEF NoAnswerYet, ReadTruly, AnsweredTruly, BodyInOrder, SidecarWritten,
         PromotesWhole, CheckpointCovers, TargetSynced
<1>3. SidecarIdentifies /\ OwnPart /\ SidecarDescribesPart /\ DigestOfTarget /\ TargetWhole
  BY DEF SidecarIdentifies, OwnPart, SidecarDescribesPart, DigestOfTarget, TargetWhole
<1> QED BY <1>1, <1>2, <1>3

(* A transfer begins without a response or a digest. *)
LEMMA StartStep ==
  ASSUME DownloadInv, NEW r \in Requests, Start(r)
  PROVE  DownloadInv'
<1> USE DEF Start
<1>1. TypeOK'
  BY DEF TypeOK
<1>2. (NoAnswerYet /\ ReadTruly)'
  BY DEF TypeOK, NoAnswerYet, ReadTruly
<1>3. AnsweredTruly'
  BY DEF TypeOK, AnsweredTruly
<1>4. BodyInOrder'
  BY DEF TypeOK, BodyInOrder
<1>5. SidecarWritten'
  BY DEF TypeOK, SidecarWritten
<1>6. PromotesWhole'
  BY DEF TypeOK, PromotesWhole
<1>7. (CheckpointCovers /\ TargetSynced)'
  BY DEF TypeOK, CheckpointCovers, TargetSynced
<1>8. (SidecarIdentifies /\ OwnPart)'
  BY DEF TypeOK, NoAnswerYet, SidecarIdentifies, OwnPart
<1>9. SidecarDescribesPart'
  BY DEF TypeOK, SidecarDescribesPart, IsSidecar
<1>10. (DigestOfTarget /\ (~ShortRanges => TargetWhole))'
  BY DEF TypeOK, DigestOfTarget, TargetWhole
<1> QED BY <1>1, <1>2, <1>3, <1>4, <1>5, <1>6, <1>7, <1>8, <1>9, <1>10

(* A partial that is kept is this request's. *)
LEMMA ReconcileStep ==
  ASSUME DownloadInv, Reconcile
  PROVE  DownloadInv'
<1> USE DEF Reconcile
<1>1. TypeOK'
  BY DEF TypeOK
<1>2. (NoAnswerYet /\ ReadTruly)'
  BY DEF TypeOK, NoAnswerYet, ReadTruly
<1>3. AnsweredTruly'
  BY DEF TypeOK, AnsweredTruly
<1>4. BodyInOrder'
  BY DEF TypeOK, BodyInOrder
<1>5. SidecarWritten'
  BY DEF TypeOK, SidecarWritten
<1>6. PromotesWhole'
  BY DEF TypeOK, PromotesWhole
<1>7. (CheckpointCovers /\ TargetSynced)'
  BY DEF TypeOK, CheckpointCovers, TargetSynced
<1>8. (SidecarIdentifies /\ OwnPart)'
  BY DEF TypeOK, NoAnswerYet, SidecarIdentifies, OwnPart, matches, IsSidecar
<1>9. SidecarDescribesPart'
  BY DEF TypeOK, SidecarDescribesPart, IsSidecar
<1>10. (DigestOfTarget /\ (~ShortRanges => TargetWhole))'
  BY DEF TypeOK, DigestOfTarget, TargetWhole
<1> QED BY <1>1, <1>2, <1>3, <1>4, <1>5, <1>6, <1>7, <1>8, <1>9, <1>10

(* What is discarded belongs to nobody. *)
LEMMA DiscardPartStep ==
  ASSUME DownloadInv, DiscardPart
  PROVE  DownloadInv'
<1> USE DEF DiscardPart
<1>1. TypeOK'
  BY DEF TypeOK
<1>2. (NoAnswerYet /\ ReadTruly)'
  BY DEF TypeOK, NoAnswerYet, ReadTruly
<1>3. AnsweredTruly'
  BY DEF TypeOK, AnsweredTruly
<1>4. BodyInOrder'
  BY DEF TypeOK, BodyInOrder
<1>5. SidecarWritten'
  BY DEF TypeOK, SidecarWritten
<1>6. PromotesWhole'
  BY DEF TypeOK, PromotesWhole
<1>7. (CheckpointCovers /\ TargetSynced)'
  BY DEF TypeOK, CheckpointCovers, TargetSynced
<1>8. (SidecarIdentifies /\ OwnPart)'
  BY DEF TypeOK, NoAnswerYet, SidecarIdentifies, OwnPart
<1>9. SidecarDescribesPart'
  BY DEF TypeOK, SidecarDescribesPart, IsSidecar
<1>10. (DigestOfTarget /\ (~ShortRanges => TargetWhole))'
  BY DEF TypeOK, DigestOfTarget, TargetWhole
<1> QED BY <1>1, <1>2, <1>3, <1>4, <1>5, <1>6, <1>7, <1>8, <1>9, <1>10

(* Nor does anything describe it. *)
LEMMA DiscardSideStep ==
  ASSUME DownloadInv, DiscardSide
  PROVE  DownloadInv'
<1> USE DEF DiscardSide
<1>1. TypeOK'
  BY DEF TypeOK
<1>2. (NoAnswerYet /\ ReadTruly)'
  BY DEF TypeOK, NoAnswerYet, ReadTruly
<1>3. AnsweredTruly'
  BY DEF TypeOK, AnsweredTruly
<1>4. BodyInOrder'
  BY DEF TypeOK, BodyInOrder
<1>5. SidecarWritten'
  BY DEF TypeOK, SidecarWritten
<1>6. PromotesWhole'
  BY DEF TypeOK, PromotesWhole
<1>7. (CheckpointCovers /\ TargetSynced)'
  BY DEF TypeOK, CheckpointCovers, TargetSynced
<1>8. (SidecarIdentifies /\ OwnPart)'
  BY DEF TypeOK, NoAnswerYet, SidecarIdentifies, OwnPart
<1>9. SidecarDescribesPart'
  BY DEF TypeOK, SidecarDescribesPart, IsSidecar
<1>10. (DigestOfTarget /\ (~ShortRanges => TargetWhole))'
  BY DEF TypeOK, DigestOfTarget, TargetWhole
<1> QED BY <1>1, <1>2, <1>3, <1>4, <1>5, <1>6, <1>7, <1>8, <1>9, <1>10

(* An attempt reads the partial and its sidecar as they are. *)
LEMMA AttemptStep ==
  ASSUME DownloadInv, Attempt
  PROVE  DownloadInv'
<1> USE DEF Attempt
<1>1. TypeOK'
  <2>1. offset' \in Nat
    BY FileFacts DEF TypeOK, Len0
  <2>2. recorded' \in Sidecar \cup {NoSide}
    BY DEF TypeOK, IsSidecar
  <2> QED BY <2>1, <2>2 DEF TypeOK
<1>2. (NoAnswerYet /\ ReadTruly)'
  BY FileFacts DEF TypeOK, NoAnswerYet, ReadTruly, Len0, IsSidecar
<1>3. AnsweredTruly'
  BY DEF TypeOK, AnsweredTruly
<1>4. BodyInOrder'
  BY DEF TypeOK, BodyInOrder
<1>5. SidecarWritten'
  BY DEF TypeOK, SidecarWritten
<1>6. PromotesWhole'
  BY DEF TypeOK, PromotesWhole
<1>7. (CheckpointCovers /\ TargetSynced)'
  BY DEF TypeOK, CheckpointCovers, TargetSynced
<1>8. (SidecarIdentifies /\ OwnPart)'
  BY DEF TypeOK, NoAnswerYet, SidecarIdentifies, OwnPart
<1>9. SidecarDescribesPart'
  BY DEF TypeOK, SidecarDescribesPart, IsSidecar
<1>10. (DigestOfTarget /\ (~ShortRanges => TargetWhole))'
  BY DEF TypeOK, DigestOfTarget, TargetWhole
<1> QED BY <1>1, <1>2, <1>3, <1>4, <1>5, <1>6, <1>7, <1>8, <1>9, <1>10

(* The server honours If-Range. *)
LEMMA SendStep ==
  ASSUME DownloadInv, Send
  PROVE  DownloadInv'
<1> USE DEF Send
<1>a. PICK r \in Answers(served[req.url]) :
         /\ resp' = r
         /\ pc' = CASE r.status = 416 -> IF Complete416(r) THEN "adopt" ELSE "discard"
                    [] r.status = 206 -> IF r.from = offset + 1 THEN "open" ELSE "truncate"
                    [] OTHER -> "open"
  OBVIOUS
<1>b. served[req.url] \in Versions
  BY RequestFacts DEF TypeOK
<1>c. r \in Response /\ r.status \in {200, 206, 416}
  BY <1>b, AnswerFacts DEF Response
<1>d. /\ r.status = 200 => pc' = "open"
      /\ r.status = 206 => pc' = IF r.from = offset + 1 THEN "open" ELSE "truncate"
      /\ r.status = 416 => pc' = IF Complete416(r) THEN "adopt" ELSE "discard"
  BY <1>a
<1>1. TypeOK'
  BY <1>a, <1>c, <1>d DEF TypeOK
<1>2. (NoAnswerYet /\ ReadTruly)'
  BY <1>a, <1>c, <1>d DEF TypeOK, NoAnswerYet, ReadTruly
<1>3. AnsweredTruly'
  <2>1. CASE r.status = 200
    BY <1>a, <1>b, <1>c, <1>d, <2>1, AnswerFacts DEF AnsweredTruly, AbsentAssumption
  <2>2. CASE r.status = 206
    BY <1>a, <1>b, <1>c, <1>d, <2>2, AnswerFacts DEF AnsweredTruly, AbsentAssumption
  <2>3. CASE r.status = 416
    <3>1. Complete416(r) => r.length \in {offset, NoLength}
      BY <1>b, AnswerFacts DEF Complete416, TypeOK, AbsentAssumption
    <3> QED BY <1>a, <1>b, <1>c, <1>d, <2>3, <3>1, AnswerFacts DEF AnsweredTruly, AbsentAssumption
  <2> QED BY <1>c, <2>1, <2>2, <2>3
<1>4. BodyInOrder'
  BY DEF TypeOK, BodyInOrder
<1>5. SidecarWritten'
  BY DEF TypeOK, SidecarWritten
<1>6. PromotesWhole'
  BY DEF TypeOK, PromotesWhole
<1>7. (CheckpointCovers /\ TargetSynced)'
  BY DEF TypeOK, CheckpointCovers, TargetSynced
<1>8. (SidecarIdentifies /\ OwnPart)'
  BY <1>a, <1>c, <1>d, ResponseFacts DEF TypeOK, SidecarIdentifies, OwnPart
<1>9. SidecarDescribesPart'
  BY DEF TypeOK, SidecarDescribesPart, IsSidecar
<1>10. (DigestOfTarget /\ (~ShortRanges => TargetWhole))'
  BY DEF TypeOK, DigestOfTarget, TargetWhole
<1> QED BY <1>1, <1>2, <1>3, <1>4, <1>5, <1>6, <1>7, <1>8, <1>9, <1>10

(* A partial that a 416 declares complete is complete. *)
LEMMA AdoptStep ==
  ASSUME DownloadInv, Adopt
  PROVE  DownloadInv'
<1> USE DEF Adopt
<1>a. /\ part # NoFile /\ part \in File /\ part' \in File /\ offset = Len(part.data)
      /\ resp \in Response
  BY ResumedFacts DEF TypeOK, ReadTruly, AnsweredTruly
<1>b. /\ part'.data = part.data /\ part'.asked = part.asked
      /\ ~part'.blind <=> (~part.blind /\ IfRange # NoValidator)
      /\ part' # NoFile
  BY <1>a, ResumedFacts, FileFacts
<1>c. hasher' \in {part.data, NoHash}
  BY <1>a, HashPrefix
<1>1. TypeOK'
  <2>1. part.data \in Hash
    BY <1>a, FileFacts DEF Hash
  <2> QED BY <1>a, <1>c, <2>1 DEF TypeOK
<1>2. (NoAnswerYet /\ ReadTruly)'
  BY DEF TypeOK, NoAnswerYet, ReadTruly
<1>3. AnsweredTruly'
  BY DEF TypeOK, AnsweredTruly
<1>4. BodyInOrder'
  BY DEF TypeOK, BodyInOrder
<1>5. SidecarWritten'
  BY DEF TypeOK, SidecarWritten
<1>6. PromotesWhole'
  <2>1. ASSUME ~ShortRanges, ~part'.blind PROVE Whole(part.data)
    <3>1. \A i \in 1..Len(part.data) : part.data[i] = <<resp.version, i>>
      BY <1>a, <1>b, <2>1, ResumedBlocks DEF AnsweredTruly
    <3>2. Len(part.data) <= Length[resp.version]
      <4>1. CASE Len(part.data) = 0
        BY <4>1, <1>a, ResponseFacts
      <4>2. CASE Len(part.data) # 0
        <5>1. part.data[Len(part.data)] \in Block /\ Len(part.data) \in 1..Len(part.data)
          BY <1>a, <4>2, FileFacts
        <5>2. part.data[Len(part.data)] = <<resp.version, Len(part.data)>>
          BY <3>1, <5>1
        <5> QED BY <5>1, <5>2, BlockFacts
      <4> QED BY <4>1, <4>2
    <3>3. Len(part.data) = Length[resp.version]
      BY <1>a, <3>2, FileFacts, ResponseFacts DEF AnsweredTruly
    <3> QED BY <1>a, <3>1, <3>3, AllBlocks, FileFacts, ResponseFacts
  <2> QED BY <1>b, <1>c, <2>1 DEF PromotesWhole
<1>7. (CheckpointCovers /\ TargetSynced)'
  BY DEF TypeOK, CheckpointCovers, TargetSynced
<1>8. (SidecarIdentifies /\ OwnPart)'
  BY <1>a, <1>b DEF TypeOK, SidecarIdentifies, OwnPart
<1>9. SidecarDescribesPart'
  BY <1>a, <1>b DEF SidecarDescribesPart
<1>10. (DigestOfTarget /\ (~ShortRanges => TargetWhole))'
  BY DEF TypeOK, DigestOfTarget, TargetWhole
<1> QED BY <1>1, <1>2, <1>3, <1>4, <1>5, <1>6, <1>7, <1>8, <1>9, <1>10

(* An emptied partial has no wrong bytes. *)
LEMMA TruncateStep ==
  ASSUME DownloadInv, Truncate
  PROVE  DownloadInv'
<1> USE DEF Truncate
<1>1. TypeOK'
  BY EmptyFacts DEF TypeOK
<1>2. (NoAnswerYet /\ ReadTruly)'
  BY DEF TypeOK, NoAnswerYet, ReadTruly
<1>3. AnsweredTruly'
  BY DEF TypeOK, AnsweredTruly
<1>4. BodyInOrder'
  BY DEF TypeOK, BodyInOrder
<1>5. SidecarWritten'
  BY DEF TypeOK, SidecarWritten
<1>6. PromotesWhole'
  BY DEF TypeOK, PromotesWhole
<1>7. (CheckpointCovers /\ TargetSynced)'
  BY DEF TypeOK, CheckpointCovers, TargetSynced
<1>8. (SidecarIdentifies /\ OwnPart)'
  BY EmptyFacts DEF SidecarIdentifies, OwnPart
<1>9. SidecarDescribesPart'
  BY EmptyFacts DEF SidecarDescribesPart
<1>10. (DigestOfTarget /\ (~ShortRanges => TargetWhole))'
  BY DEF TypeOK, DigestOfTarget, TargetWhole
<1> QED BY <1>1, <1>2, <1>3, <1>4, <1>5, <1>6, <1>7, <1>8, <1>9, <1>10

(* A resumed partial is of the version the response continues. *)
LEMMA OpenStep ==
  ASSUME DownloadInv, Open
  PROVE  DownloadInv'
<1> USE DEF Open
<1>a. resp \in Response /\ resp # NoResponse
  BY DEF TypeOK, AnsweredTruly
<1>b. ASSUME resuming
      PROVE  /\ part \in File /\ part # NoFile /\ part' \in File /\ offset = Len(part.data)
             /\ part'.data = part.data /\ part'.asked = part.asked
             /\ ~part'.blind <=> (~part.blind /\ IfRange # NoValidator)
             /\ pos' = offset /\ hasher' = IF req.hash THEN part.data ELSE NoHash
             /\ resp.status = 206
  <2>1. part # NoFile /\ part \in File /\ offset = Len(part.data)
    BY <1>b DEF TypeOK, ReadTruly
  <2> QED BY <1>b, <2>1, ResumedFacts, HashPrefix
<1>c. ASSUME ~resuming
      PROVE  /\ part' = Empty /\ pos' = 0 /\ hasher' = IF req.hash THEN <<>> ELSE NoHash
             /\ resp.status = 200
  BY <1>a, <1>c DEF AnsweredTruly
<1>d. part' \in File /\ part' # NoFile /\ part'.data \in Seq(Block) /\ Len(part'.data) \in Nat
  BY <1>b, <1>c, EmptyFacts, FileFacts
<1>e. /\ pos' = Len(part'.data)
      /\ hasher' = IF req.hash THEN part'.data ELSE NoHash
  BY <1>b, <1>c, EmptyFacts
<1>1. TypeOK'
  <2>1. part'.data \in Hash /\ <<>> \in Seq(Block) /\ pos' \in Nat
    BY <1>d, <1>e DEF Hash
  <2> QED BY <1>d, <1>e, <2>1 DEF TypeOK
<1>2. (NoAnswerYet /\ ReadTruly)'
  BY DEF TypeOK, NoAnswerYet, ReadTruly
<1>3. AnsweredTruly'
  BY DEF TypeOK, AnsweredTruly
<1>4. BodyInOrder'
  <2>1. Len(buf') = 0 /\ part'.data \o buf' = part'.data /\ 1..Len(buf') = {}
    BY <1>d
  <2>2. pos' <= resp.to /\ (resuming => offset <= pos')
    BY <1>a, <1>b, <1>c, ResponseFacts DEF AnsweredTruly, TypeOK
  <2>3. ~part'.blind => \A i \in 1..Len(part'.data) : part'.data[i] = <<resp.version, i>>
    <3>1. CASE resuming
      BY <1>a, <1>b, <3>1, ResumedBlocks DEF AnsweredTruly
    <3>2. CASE ~resuming
      BY <1>c, <3>2, EmptyFacts
    <3> QED BY <3>1, <3>2
  <2> QED BY <1>d, <1>e, <2>1, <2>2, <2>3 DEF BodyInOrder
<1>5. SidecarWritten'
  BY DEF TypeOK, SidecarWritten
<1>6. PromotesWhole'
  BY DEF TypeOK, PromotesWhole
<1>7. (CheckpointCovers /\ TargetSynced)'
  BY DEF TypeOK, CheckpointCovers, TargetSynced
<1>8. (SidecarIdentifies /\ OwnPart)'
  <2>1. part'.asked = {} \/ (part # NoFile /\ part'.asked = part.asked)
    BY <1>b, <1>c, EmptyFacts
  <2> QED BY <1>a, <2>1 DEF SidecarIdentifies, OwnPart
<1>9. SidecarDescribesPart'
  <2>1. CASE resuming
    BY <1>b, <2>1 DEF SidecarDescribesPart
  <2>2. CASE ~resuming
    BY <1>c, <2>2, EmptyFacts DEF SidecarDescribesPart
  <2> QED BY <2>1, <2>2
<1>10. (DigestOfTarget /\ (~ShortRanges => TargetWhole))'
  BY DEF TypeOK, DigestOfTarget, TargetWhole
<1> QED BY <1>1, <1>2, <1>3, <1>4, <1>5, <1>6, <1>7, <1>8, <1>9, <1>10

(* A torn sidecar describes nothing. *)
LEMMA TruncateSideStep ==
  ASSUME DownloadInv, TruncateSide
  PROVE  DownloadInv'
<1> USE DEF TruncateSide
<1>1. TypeOK'
  BY DEF TypeOK
<1>2. (NoAnswerYet /\ ReadTruly)'
  BY DEF TypeOK, NoAnswerYet, ReadTruly
<1>3. AnsweredTruly'
  BY DEF TypeOK, AnsweredTruly
<1>4. BodyInOrder'
  BY DEF TypeOK, BodyInOrder
<1>5. SidecarWritten'
  BY DEF TypeOK, SidecarWritten
<1>6. PromotesWhole'
  BY DEF TypeOK, PromotesWhole
<1>7. (CheckpointCovers /\ TargetSynced)'
  BY DEF TypeOK, CheckpointCovers, TargetSynced
<1>8. (SidecarIdentifies /\ OwnPart)'
  BY DEF TypeOK, NoAnswerYet, SidecarIdentifies, OwnPart
<1>9. SidecarDescribesPart'
  BY DEF TypeOK, SidecarDescribesPart, IsSidecar
<1>10. (DigestOfTarget /\ (~ShortRanges => TargetWhole))'
  BY DEF TypeOK, DigestOfTarget, TargetWhole
<1> QED BY <1>1, <1>2, <1>3, <1>4, <1>5, <1>6, <1>7, <1>8, <1>9, <1>10

(* The new sidecar describes what the partial holds. *)
LEMMA WriteSideStep ==
  ASSUME DownloadInv, WriteSide
  PROVE  DownloadInv'
<1> USE DEF WriteSide
<1>a. /\ side' \in Sidecar /\ side'.url = req.url /\ side'.key = req.key
      /\ side'.validator \in {Validator[resp.version], NoValidator}
  BY NewSidecarFacts
<1>1. TypeOK'
  BY <1>a DEF TypeOK
<1>2. (NoAnswerYet /\ ReadTruly)'
  BY DEF TypeOK, NoAnswerYet, ReadTruly
<1>3. AnsweredTruly'
  BY DEF TypeOK, AnsweredTruly
<1>4. BodyInOrder'
  BY DEF TypeOK, BodyInOrder
<1>5. SidecarWritten'
  BY <1>a DEF SidecarWritten
<1>6. PromotesWhole'
  BY DEF TypeOK, PromotesWhole
<1>7. (CheckpointCovers /\ TargetSynced)'
  BY DEF TypeOK, CheckpointCovers, TargetSynced
<1>8. (SidecarIdentifies /\ OwnPart)'
  BY <1>a DEF SidecarIdentifies, OwnPart
<1>9. SidecarDescribesPart'
  <2>1. \A i \in 1..Len(part.data) : part.data[i][1] \in Versions
    BY FileFacts, BlockFacts DEF TypeOK, BodyInOrder
  <2>2. DOMAIN part.data = 1..Len(part.data)
    BY FileFacts DEF TypeOK, BodyInOrder
  <2> QED BY <1>a, <2>2 DEF SidecarDescribesPart, BodyInOrder
<1>10. (DigestOfTarget /\ (~ShortRanges => TargetWhole))'
  BY DEF TypeOK, DigestOfTarget, TargetWhole
<1> QED BY <1>1, <1>2, <1>3, <1>4, <1>5, <1>6, <1>7, <1>8, <1>9, <1>10

(* A chunk is the next of its version, for the writer and the hash. *)
LEMMA ChunkStep ==
  ASSUME DownloadInv, Chunk
  PROVE  DownloadInv'
<1> DEFINE x == <<resp.version, pos + 1>>
<1>1. cursor = pos + 1 /\ resp \in Response
  BY NextBlock DEF Chunk
<1>2. /\ pc = "stream" /\ pos + 1 <= resp.to /\ buf' = Append(buf, x) /\ pos' = pos + 1
      /\ hasher' = IF req.hash THEN Append(hasher, x) ELSE NoHash
      /\ UNCHANGED <<served, changes, target, part, side, pc, req, attempt, offset, recorded,
                     resp, checkpoint, digest>>
  BY <1>1 DEF Chunk
<1>3. x \in Block /\ x = <<resp.version, pos + 1>>
  BY <1>1, <1>2, BlockIn, ResponseFacts DEF TypeOK, AnsweredTruly
<1> DEFINE q == part.data
<1>4. part \in File /\ part # NoFile /\ q \in Seq(Block) /\ buf \in Seq(Block) /\ pos \in Nat
  BY <1>2, FileFacts DEF TypeOK, BodyInOrder
<1>a. /\ pos = Len(q) + Len(buf) /\ pos <= resp.to /\ (resuming => offset <= pos)
      /\ \A k \in 1..Len(buf) : buf[k] = <<resp.version, Len(q) + k>>
      /\ IF req.hash THEN hasher = q \o buf ELSE hasher = NoHash
  BY <1>2 DEF BodyInOrder
<1> HIDE DEF x, q
<1>5. /\ buf' \in Seq(Block) /\ Len(buf') = Len(buf) + 1 /\ buf'[Len(buf) + 1] = x
      /\ \A k \in 1..Len(buf) : buf'[k] = buf[k]
      /\ Append(q \o buf, x) = q \o buf'
  <2>1. /\ Append(buf, x) \in Seq(Block) /\ Len(Append(buf, x)) = Len(buf) + 1
        /\ Append(buf, x)[Len(buf) + 1] = x
        /\ \A k \in 1..Len(buf) : Append(buf, x)[k] = buf[k]
    BY <1>3, <1>4, AppendFacts
  <2>2. Append(q \o buf, x) = q \o Append(buf, x)
    <3>1. q \in Seq(Block) /\ buf \in Seq(Block) /\ x \in Block
      BY <1>3, <1>4
    <3> QED BY <3>1, AppendBoth
  <2> QED BY <1>2, <2>1, <2>2
<1>6. Len(q) \in Nat /\ Len(buf) \in Nat /\ q \o buf' \in Seq(Block)
  BY <1>4, <1>5
<1>7. IF req.hash THEN hasher' = q \o buf' ELSE hasher' = NoHash
  BY <1>2, <1>5, <1>a
<1>8. TypeOK'
  <2>1. hasher' \in Hash \cup {NoHash}
    BY <1>6, <1>7 DEF Hash
  <2>2. pos' \in Nat
    BY <1>2, <1>4
  <2> QED BY <1>2, <1>5, <2>1, <2>2 DEF TypeOK
<1>9. BodyInOrder'
  <2>1. pos = Len(q) + Len(buf) /\ pos' = Len(q) + Len(buf')
    BY <1>2, <1>5, <1>6, <1>a
  <2>2. pos' <= resp.to /\ (resuming => offset <= pos')
    BY <1>2, <1>4, <1>a DEF TypeOK
  <2>3. ASSUME NEW k \in 1..Len(buf') PROVE buf'[k] = <<resp.version, Len(q) + k>>
    <3>1. CASE k \in 1..Len(buf)
      BY <1>5, <1>a, <3>1
    <3>2. CASE k = Len(buf) + 1
      <4>1. pos + 1 = Len(q) + k
        BY <1>6, <1>4, <2>1, <3>2
      <4> QED BY <1>3, <1>5, <3>2, <4>1
    <3> QED BY <1>5, <1>6, <3>1, <3>2
  <2> QED BY <1>2, <1>4, <1>7, <2>1, <2>2, <2>3 DEF BodyInOrder, q
<1>10. (NoAnswerYet /\ ReadTruly /\ AnsweredTruly /\ SidecarWritten /\ PromotesWhole)'
  BY <1>2 DEF NoAnswerYet, ReadTruly, AnsweredTruly, SidecarWritten, PromotesWhole
<1>11. (CheckpointCovers /\ TargetSynced /\ SidecarIdentifies /\ OwnPart)'
  BY <1>2 DEF CheckpointCovers, TargetSynced, SidecarIdentifies, OwnPart
<1>12. (SidecarDescribesPart /\ DigestOfTarget /\ (~ShortRanges => TargetWhole))'
  BY <1>2 DEF SidecarDescribesPart, IsSidecar, DigestOfTarget, TargetWhole
<1> QED BY <1>8, <1>9, <1>10, <1>11, <1>12

(* The writer keeps the order. *)
LEMMA WriteOutStep ==
  ASSUME DownloadInv, WriteOut
  PROVE  DownloadInv'
<1> USE DEF WriteOut
<1>a. /\ part \in File /\ part # NoFile /\ part.data \in Seq(Block) /\ Len(part.data) \in Nat
      /\ buf \in Seq(Block) /\ resp \in Response
  BY FileFacts DEF TypeOK, BodyInOrder, AnsweredTruly
<1>b. [url |-> req.url, key |-> req.key] \in Origin
  BY RequestFacts DEF TypeOK, Origin
<1>c. part' \in File /\ part'.data = Append(part.data, Head(buf)) /\ part'.blind = part.blind
      /\ part'.asked = part.asked \cup {[url |-> req.url, key |-> req.key]}
  <2>1. /\ Append(part.data, Head(buf)) \in Seq(Block)
        /\ Len(Append(part.data, Head(buf))) = Len(part.data) + 1
    BY <1>a, MoveHead
  <2> DEFINE d == Append(part.data, Head(buf))
             o == [url |-> req.url, key |-> req.key]
  <2>2. part' = [data |-> d, synced |-> part.synced, blind |-> part.blind,
                 loose |-> part.loose, asked |-> part.asked \cup {o}]
    BY <1>a DEF Flushed, File
  <2>3. d \in Seq(Block) /\ Len(d) = Len(part.data) + 1 /\ o \in Origin
    BY <1>b, <2>1
  <2>4. d = Append(part.data, Head(buf)) /\ o = [url |-> req.url, key |-> req.key]
    OBVIOUS
  <2>5. /\ part.synced \in Nat /\ part.synced <= Len(part.data) + 1
        /\ part.asked \cup {o} \in SUBSET Origin
    BY <1>a, <2>3, FileFacts
  <2> HIDE DEF d, o
  <2>6. part' \in File
    BY <1>a, <2>2, <2>3, <2>5, EditedFacts
  <2> QED BY <2>2, <2>4, <2>6
<1>d. part' # NoFile
  BY <1>c, FileFacts
<1>e. /\ Len(part'.data) = Len(part.data) + 1
      /\ part'.data[Len(part.data) + 1] = <<resp.version, Len(part.data) + 1>>
      /\ \A i \in 1..Len(part.data) : part'.data[i] = part.data[i]
      /\ part'.data \in Seq(Block) /\ buf' \in Seq(Block)
  BY <1>a, <1>c, MoveHead DEF BodyInOrder
<1>1. TypeOK'
  BY <1>c, <1>e DEF TypeOK
<1>2. (NoAnswerYet /\ ReadTruly)'
  BY DEF TypeOK, NoAnswerYet, ReadTruly
<1>3. AnsweredTruly'
  BY DEF TypeOK, AnsweredTruly
<1>4. BodyInOrder'
  <2>1. /\ Len(buf) \in Nat /\ Len(buf) >= 1 /\ Len(buf') = Len(buf) - 1
        /\ \A k \in 1..Len(buf) - 1 : buf'[k] = buf[k + 1]
        /\ part'.data \o buf' = part.data \o buf
    <3>1. /\ Len(buf) \in Nat /\ Len(buf) >= 1 /\ Len(buf') = Len(buf) - 1
          /\ \A k \in 1..Len(buf) - 1 : buf'[k] = buf[k + 1]
      BY <1>a
    <3>2. Append(part.data, Head(buf)) \o buf' = part.data \o buf
      BY <1>a, MoveHead
    <3> QED BY <1>c, <3>1, <3>2
  <2>2. \A k \in 1..Len(buf') : buf'[k] = <<resp.version, Len(part'.data) + k>>
    BY <1>a, <1>e, <2>1 DEF BodyInOrder
  <2>3. pos = Len(part'.data) + Len(buf')
    BY <1>a, <1>e, <2>1 DEF BodyInOrder
  <2>4. ~part'.blind => \A i \in 1..Len(part'.data) : part'.data[i] = <<resp.version, i>>
    BY <1>a, <1>c, <1>e DEF BodyInOrder
  <2> QED BY <1>d, <2>1, <2>2, <2>3, <2>4 DEF BodyInOrder
<1>5. SidecarWritten'
  BY DEF TypeOK, SidecarWritten
<1>6. PromotesWhole'
  BY DEF TypeOK, PromotesWhole
<1>7. (CheckpointCovers /\ TargetSynced)'
  <2>1. CheckpointCovers'
    <3>1. ASSUME checkpoint # NoHash
          PROVE  /\ Len(checkpoint) <= Len(part'.data)
                 /\ \A i \in 1..Len(checkpoint) : checkpoint[i] = part'.data[i]
      <4>1. Len(checkpoint) \in Nat
        BY <3>1 DEF TypeOK, Hash
      <4> QED BY <1>a, <1>e, <3>1, <4>1 DEF CheckpointCovers
    <3> QED BY <3>1 DEF CheckpointCovers
  <2>2. TargetSynced'
    BY DEF TargetSynced
  <2> QED BY <2>1, <2>2
<1>8. (SidecarIdentifies /\ OwnPart)'
  BY <1>a, <1>c, <1>d, ResponseFacts DEF SidecarIdentifies, OwnPart, SidecarWritten
<1>9. SidecarDescribesPart'
  <2>1. DOMAIN part'.data = 1..Len(part.data) + 1 /\ DOMAIN part.data = 1..Len(part.data)
    BY <1>a, <1>e
  <2> QED BY <1>a, <1>c, <1>e, <2>1 DEF SidecarDescribesPart, SidecarWritten
<1>10. (DigestOfTarget /\ (~ShortRanges => TargetWhole))'
  BY DEF TypeOK, DigestOfTarget, TargetWhole
<1> QED BY <1>1, <1>2, <1>3, <1>4, <1>5, <1>6, <1>7, <1>8, <1>9, <1>10

(* A flushed hash covers the partial. *)
LEMMA CheckpointStep ==
  ASSUME DownloadInv, Checkpoint
  PROVE  DownloadInv'
<1> USE DEF Checkpoint
<1>a. /\ part \in File /\ part.data \in Seq(Block) /\ hasher = part.data
  <2>1. part \in File /\ part.data \in Seq(Block) /\ hasher = part.data \o buf
    BY FileFacts DEF TypeOK, BodyInOrder
  <2> QED BY <2>1
<1>1. TypeOK'
  BY DEF TypeOK
<1>2. (NoAnswerYet /\ ReadTruly)'
  BY DEF TypeOK, NoAnswerYet, ReadTruly
<1>3. AnsweredTruly'
  BY DEF TypeOK, AnsweredTruly
<1>4. BodyInOrder'
  BY DEF TypeOK, BodyInOrder
<1>5. SidecarWritten'
  BY DEF TypeOK, SidecarWritten
<1>6. PromotesWhole'
  BY DEF TypeOK, PromotesWhole
<1>7. (CheckpointCovers /\ TargetSynced)'
  BY <1>a DEF CheckpointCovers, TargetSynced
<1>8. (SidecarIdentifies /\ OwnPart)'
  BY DEF TypeOK, NoAnswerYet, SidecarIdentifies, OwnPart
<1>9. SidecarDescribesPart'
  BY DEF TypeOK, SidecarDescribesPart, IsSidecar
<1>10. (DigestOfTarget /\ (~ShortRanges => TargetWhole))'
  BY DEF TypeOK, DigestOfTarget, TargetWhole
<1> QED BY <1>1, <1>2, <1>3, <1>4, <1>5, <1>6, <1>7, <1>8, <1>9, <1>10

(* A body that has ended is whole. *)
LEMMA SyncStep ==
  ASSUME DownloadInv, Sync
  PROVE  DownloadInv'
<1> USE DEF Sync
<1>a. /\ part \in File /\ part # NoFile /\ part.data \in Seq(Block) /\ Len(part.data) \in Nat
      /\ cursor = pos + 1 /\ resp \in Response
  BY NextBlock, FileFacts DEF TypeOK, BodyInOrder
<1>b. part' \in File /\ part'.data = part.data /\ part'.blind = part.blind /\ part'.asked = part.asked
  <2> DEFINE q == part.data
             n == Len(q)
  <2>1. part' = [data |-> q, synced |-> n, blind |-> part.blind,
                 loose |-> part.loose, asked |-> part.asked]
    BY <1>a DEF File
  <2>2. /\ part.asked \in SUBSET Origin /\ n \in Nat /\ n <= Len(q)
        /\ q \in Seq(Block) /\ q = part.data
    BY <1>a, FileFacts
  <2> HIDE DEF n, q
  <2>3. [data |-> q, synced |-> n, blind |-> part.blind, loose |-> part.loose,
         asked |-> part.asked] \in File
    <3>1. part \in File
      BY <1>a
    <3> QED BY <2>2, <3>1, EditedFacts
  <2> QED BY <2>1, <2>2, <2>3
<1>c. part' # NoFile
  BY <1>b, FileFacts
<1>1. TypeOK'
  BY <1>b DEF TypeOK
<1>2. (NoAnswerYet /\ ReadTruly)'
  BY DEF TypeOK, NoAnswerYet, ReadTruly
<1>3. AnsweredTruly'
  BY DEF TypeOK, AnsweredTruly
<1>4. BodyInOrder'
  BY DEF TypeOK, BodyInOrder
<1>5. SidecarWritten'
  BY DEF TypeOK, SidecarWritten
<1>6. PromotesWhole'
  <2>1. pos = Len(part.data) /\ part.data \o buf = part.data
    BY <1>a DEF BodyInOrder
  <2>2. pos = resp.to
    BY <1>a, ResponseFacts DEF TypeOK, BodyInOrder
  <2>3. ~ShortRanges /\ ~part.blind => Whole(part.data)
    <3>1. ASSUME ~ShortRanges, ~part.blind PROVE Whole(part.data)
      <4>1. Len(part.data) = Length[resp.version] /\ resp.version \in Versions
        BY <1>a, <2>1, <2>2, <3>1, ResponseFacts DEF AnsweredTruly
      <4>2. \A i \in 1..Len(part.data) : part.data[i] = <<resp.version, i>>
        BY <3>1 DEF BodyInOrder
      <4> QED BY <1>a, <4>1, <4>2, AllBlocks
    <3> QED BY <3>1
  <2> QED BY <1>b, <1>c, <2>1, <2>3 DEF BodyInOrder, PromotesWhole
<1>7. (CheckpointCovers /\ TargetSynced)'
  BY <1>a, <1>b DEF CheckpointCovers, TargetSynced
<1>8. (SidecarIdentifies /\ OwnPart)'
  BY <1>a, <1>b DEF SidecarIdentifies, OwnPart
<1>9. SidecarDescribesPart'
  BY <1>a, <1>b DEF SidecarDescribesPart
<1>10. (DigestOfTarget /\ (~ShortRanges => TargetWhole))'
  BY DEF TypeOK, DigestOfTarget, TargetWhole
<1> QED BY <1>1, <1>2, <1>3, <1>4, <1>5, <1>6, <1>7, <1>8, <1>9, <1>10

(* Without a sidecar nothing is said of the partial. *)
LEMMA PromoteSideStep ==
  ASSUME DownloadInv, PromoteSide
  PROVE  DownloadInv'
<1> USE DEF PromoteSide
<1>1. TypeOK'
  BY DEF TypeOK
<1>2. (NoAnswerYet /\ ReadTruly)'
  BY DEF TypeOK, NoAnswerYet, ReadTruly
<1>3. AnsweredTruly'
  BY DEF TypeOK, AnsweredTruly
<1>4. BodyInOrder'
  BY DEF TypeOK, BodyInOrder
<1>5. SidecarWritten'
  BY DEF TypeOK, SidecarWritten
<1>6. PromotesWhole'
  BY DEF TypeOK, PromotesWhole
<1>7. (CheckpointCovers /\ TargetSynced)'
  BY DEF TypeOK, CheckpointCovers, TargetSynced
<1>8. (SidecarIdentifies /\ OwnPart)'
  BY DEF TypeOK, NoAnswerYet, SidecarIdentifies, OwnPart
<1>9. SidecarDescribesPart'
  BY DEF TypeOK, SidecarDescribesPart, IsSidecar
<1>10. (DigestOfTarget /\ (~ShortRanges => TargetWhole))'
  BY DEF TypeOK, DigestOfTarget, TargetWhole
<1> QED BY <1>1, <1>2, <1>3, <1>4, <1>5, <1>6, <1>7, <1>8, <1>9, <1>10

(* The target is what the partial was. *)
LEMMA RenameStep ==
  ASSUME DownloadInv, Rename
  PROVE  DownloadInv'
<1> USE DEF Rename
<1>a. /\ part # NoFile /\ part \in File /\ part.synced \in Nat /\ part.data \in Seq(Block)
  BY FileFacts DEF TypeOK, PromotesWhole
<1>b. /\ target' \in File /\ target'.data = part.data /\ target'.synced = part.synced
      /\ target'.blind = part.blind /\ target'.loose = (part.synced # Len(part.data))
  BY <1>a DEF File
<1>c. target' # NoFile
  BY <1>b, FileFacts
<1>1. TypeOK'
  BY <1>b DEF TypeOK
<1>2. (NoAnswerYet /\ ReadTruly)'
  BY DEF TypeOK, NoAnswerYet, ReadTruly
<1>3. AnsweredTruly'
  BY DEF TypeOK, AnsweredTruly
<1>4. BodyInOrder'
  BY DEF TypeOK, BodyInOrder
<1>5. SidecarWritten'
  BY DEF TypeOK, SidecarWritten
<1>6. PromotesWhole'
  BY DEF TypeOK, PromotesWhole
<1>7. (CheckpointCovers /\ TargetSynced)'
  BY <1>b DEF CheckpointCovers, TargetSynced
<1>8. (SidecarIdentifies /\ OwnPart)'
  BY DEF TypeOK, NoAnswerYet, SidecarIdentifies, OwnPart
<1>9. SidecarDescribesPart'
  BY DEF TypeOK, SidecarDescribesPart, IsSidecar
<1>10. (DigestOfTarget /\ (~ShortRanges => TargetWhole))'
  BY <1>b, <1>c DEF PromotesWhole, DigestOfTarget, TargetWhole
<1> QED BY <1>1, <1>2, <1>3, <1>4, <1>5, <1>6, <1>7, <1>8, <1>9, <1>10

(* A failed attempt leaves the disk as it is. *)
LEMMA FailStep ==
  ASSUME DownloadInv, Fail
  PROVE  DownloadInv'
<1> USE DEF Fail
<1>1. TypeOK'
  BY DEF TypeOK
<1>2. (NoAnswerYet /\ ReadTruly)'
  BY DEF TypeOK, NoAnswerYet, ReadTruly
<1>3. AnsweredTruly'
  BY DEF TypeOK, AnsweredTruly
<1>4. BodyInOrder'
  BY DEF TypeOK, BodyInOrder
<1>5. SidecarWritten'
  BY DEF TypeOK, SidecarWritten
<1>6. PromotesWhole'
  BY DEF TypeOK, PromotesWhole
<1>7. (CheckpointCovers /\ TargetSynced)'
  BY DEF TypeOK, CheckpointCovers, TargetSynced
<1>8. (SidecarIdentifies /\ OwnPart)'
  BY DEF TypeOK, NoAnswerYet, SidecarIdentifies, OwnPart, Attempting
<1>9. SidecarDescribesPart'
  BY DEF TypeOK, SidecarDescribesPart, IsSidecar
<1>10. (DigestOfTarget /\ (~ShortRanges => TargetWhole))'
  BY DEF TypeOK, DigestOfTarget, TargetWhole
<1> QED BY <1>1, <1>2, <1>3, <1>4, <1>5, <1>6, <1>7, <1>8, <1>9, <1>10

(* So does waiting for another. *)
LEMMA RetryStep ==
  ASSUME DownloadInv, Retry
  PROVE  DownloadInv'
<1> USE DEF Retry
<1>1. TypeOK'
  BY DEF TypeOK
<1>2. (NoAnswerYet /\ ReadTruly)'
  BY DEF TypeOK, NoAnswerYet, ReadTruly
<1>3. AnsweredTruly'
  BY DEF TypeOK, AnsweredTruly
<1>4. BodyInOrder'
  BY DEF TypeOK, BodyInOrder
<1>5. SidecarWritten'
  BY DEF TypeOK, SidecarWritten
<1>6. PromotesWhole'
  BY DEF TypeOK, PromotesWhole
<1>7. (CheckpointCovers /\ TargetSynced)'
  BY DEF TypeOK, CheckpointCovers, TargetSynced
<1>8. (SidecarIdentifies /\ OwnPart)'
  BY DEF TypeOK, NoAnswerYet, SidecarIdentifies, OwnPart
<1>9. SidecarDescribesPart'
  BY DEF TypeOK, SidecarDescribesPart, IsSidecar
<1>10. (DigestOfTarget /\ (~ShortRanges => TargetWhole))'
  BY DEF TypeOK, DigestOfTarget, TargetWhole
<1> QED BY <1>1, <1>2, <1>3, <1>4, <1>5, <1>6, <1>7, <1>8, <1>9, <1>10

(* So does giving up. *)
LEMMA GiveUpStep ==
  ASSUME DownloadInv, GiveUp
  PROVE  DownloadInv'
<1> USE DEF GiveUp
<1>1. TypeOK'
  BY DEF TypeOK
<1>2. (NoAnswerYet /\ ReadTruly)'
  BY DEF TypeOK, NoAnswerYet, ReadTruly
<1>3. AnsweredTruly'
  BY DEF TypeOK, AnsweredTruly
<1>4. BodyInOrder'
  BY DEF TypeOK, BodyInOrder
<1>5. SidecarWritten'
  BY DEF TypeOK, SidecarWritten
<1>6. PromotesWhole'
  BY DEF TypeOK, PromotesWhole
<1>7. (CheckpointCovers /\ TargetSynced)'
  BY DEF TypeOK, CheckpointCovers, TargetSynced
<1>8. (SidecarIdentifies /\ OwnPart)'
  BY DEF TypeOK, NoAnswerYet, SidecarIdentifies, OwnPart
<1>9. SidecarDescribesPart'
  BY DEF TypeOK, SidecarDescribesPart, IsSidecar
<1>10. (DigestOfTarget /\ (~ShortRanges => TargetWhole))'
  BY DEF TypeOK, DigestOfTarget, TargetWhole
<1> QED BY <1>1, <1>2, <1>3, <1>4, <1>5, <1>6, <1>7, <1>8, <1>9, <1>10

(* So does being cancelled. *)
LEMMA StopStep ==
  ASSUME DownloadInv, Stop
  PROVE  DownloadInv'
<1> USE DEF Stop
<1>1. TypeOK'
  BY DEF TypeOK
<1>2. (NoAnswerYet /\ ReadTruly)'
  BY DEF TypeOK, NoAnswerYet, ReadTruly
<1>3. AnsweredTruly'
  BY DEF TypeOK, AnsweredTruly
<1>4. BodyInOrder'
  BY DEF TypeOK, BodyInOrder
<1>5. SidecarWritten'
  BY DEF TypeOK, SidecarWritten
<1>6. PromotesWhole'
  BY DEF TypeOK, PromotesWhole
<1>7. (CheckpointCovers /\ TargetSynced)'
  BY DEF TypeOK, CheckpointCovers, TargetSynced
<1>8. (SidecarIdentifies /\ OwnPart)'
  BY DEF TypeOK, NoAnswerYet, SidecarIdentifies, OwnPart
<1>9. SidecarDescribesPart'
  BY DEF TypeOK, SidecarDescribesPart, IsSidecar
<1>10. (DigestOfTarget /\ (~ShortRanges => TargetWhole))'
  BY DEF TypeOK, DigestOfTarget, TargetWhole
<1> QED BY <1>1, <1>2, <1>3, <1>4, <1>5, <1>6, <1>7, <1>8, <1>9, <1>10

(* A power failure shortens what was not synced. *)
LEMMA PowerLossStep ==
  ASSUME DownloadInv, PowerLoss
  PROVE  DownloadInv'
<1> USE DEF PowerLoss
<1>a. ASSUME NEW f \in File, NEW g \in Remnants(f)
      PROVE  /\ g \in File /\ g # NoFile /\ f # NoFile
             /\ g.blind = f.blind /\ g.loose = f.loose /\ g.asked = f.asked
             /\ g.synced = Len(g.data) /\ Len(g.data) \in Nat
             /\ Len(g.data) <= Len(f.data) /\ \A i \in 1..Len(g.data) : g.data[i] = f.data[i]
             /\ f.synced = Len(f.data) => g.data = f.data
  <2>1. f \in File /\ f # NoFile /\ f.data \in Seq(Block) /\ f.synced \in Nat /\ f.synced <= Len(f.data)
    BY FileFacts
  <2>2. PICK n \in f.synced..Len(f.data) : g = [f EXCEPT !.data = SubSeq(f.data, 1, n), !.synced = n]
    BY <1>a, <2>1 DEF Remnants
  <2>3. n \in Nat /\ n \in 0..Len(f.data)
    BY <2>1, <2>2
  <2>4. /\ SubSeq(f.data, 1, n) \in Seq(Block) /\ Len(SubSeq(f.data, 1, n)) = n
        /\ \A i \in 1..n : SubSeq(f.data, 1, n)[i] = f.data[i]
        /\ n = Len(f.data) => SubSeq(f.data, 1, n) = f.data
    BY <2>1, <2>3, PrefixFacts
  <2>5. /\ g \in File /\ g.data = SubSeq(f.data, 1, n) /\ g.synced = n
        /\ g.blind = f.blind /\ g.loose = f.loose /\ g.asked = f.asked
    <3> DEFINE d == SubSeq(f.data, 1, n)
    <3>1. d \in Seq(Block) /\ Len(d) = n
      BY <2>4
    <3>4. g = [data |-> d, synced |-> n, blind |-> f.blind, loose |-> f.loose, asked |-> f.asked]
      BY <2>1, <2>2 DEF File
    <3>5. f.asked \in SUBSET Origin /\ n <= n
      BY <2>3, FileFacts
    <3>2. d = SubSeq(f.data, 1, n)
      OBVIOUS
    <3> HIDE DEF d
    <3>3. /\ g \in File /\ g.data = d /\ g.synced = n
          /\ g.blind = f.blind /\ g.loose = f.loose /\ g.asked = f.asked
      BY <2>3, <3>1, <3>4, <3>5, EditedFacts
    <3> QED BY <3>2, <3>3
  <2>6. g # NoFile
    BY <2>5, FileFacts
  <2> QED BY <2>1, <2>2, <2>3, <2>4, <2>5, <2>6
<1>b. /\ part = NoFile => part' = NoFile
      /\ part # NoFile => part \in File /\ part' \in Remnants(part)
      /\ target = NoFile => target' = NoFile
      /\ target # NoFile => target \in File /\ target' \in Remnants(target)
      /\ side' \in {side, Torn}
  BY DEF TypeOK, Remnants
<1>1. TypeOK'
  BY <1>a, <1>b DEF TypeOK
<1>2. (NoAnswerYet /\ ReadTruly)'
  BY DEF TypeOK, NoAnswerYet, ReadTruly
<1>3. AnsweredTruly'
  BY DEF TypeOK, AnsweredTruly
<1>4. BodyInOrder'
  BY DEF TypeOK, BodyInOrder
<1>5. SidecarWritten'
  BY DEF TypeOK, SidecarWritten
<1>6. PromotesWhole'
  BY DEF TypeOK, PromotesWhole
<1>7. (CheckpointCovers /\ TargetSynced)'
  BY <1>a, <1>b DEF CheckpointCovers, TargetSynced
<1>8. (SidecarIdentifies /\ OwnPart)'
  BY <1>a, <1>b DEF SidecarIdentifies, OwnPart, AbsentAssumption
<1>9. SidecarDescribesPart'
  <2>1. part' # NoFile => /\ part \in File /\ part # NoFile /\ part'.blind = part.blind
                          /\ DOMAIN part'.data \subseteq DOMAIN part.data
                          /\ \A i \in DOMAIN part'.data : part'.data[i] = part.data[i]
    BY <1>a, <1>b, FileFacts
  <2> QED BY <1>b, <2>1 DEF SidecarDescribesPart, IsSidecar
<1>10. (DigestOfTarget /\ (~ShortRanges => TargetWhole))'
  BY <1>a, <1>b DEF TargetSynced, DigestOfTarget, TargetWhole
<1> QED BY <1>1, <1>2, <1>3, <1>4, <1>5, <1>6, <1>7, <1>8, <1>9, <1>10

(* A response is of the version that was served when it was sent. *)
LEMMA RepublishStep ==
  ASSUME DownloadInv, NEW u \in Urls, NEW v \in Versions, Republish(u, v)
  PROVE  DownloadInv'
<1> USE DEF Republish
<1>1. TypeOK'
  BY DEF TypeOK
<1>2. (NoAnswerYet /\ ReadTruly)'
  BY DEF TypeOK, NoAnswerYet, ReadTruly
<1>3. AnsweredTruly'
  BY DEF TypeOK, AnsweredTruly
<1>4. BodyInOrder'
  BY DEF TypeOK, BodyInOrder
<1>5. SidecarWritten'
  BY DEF TypeOK, SidecarWritten
<1>6. PromotesWhole'
  BY DEF TypeOK, PromotesWhole
<1>7. (CheckpointCovers /\ TargetSynced)'
  BY DEF TypeOK, CheckpointCovers, TargetSynced
<1>8. (SidecarIdentifies /\ OwnPart)'
  BY DEF TypeOK, NoAnswerYet, SidecarIdentifies, OwnPart
<1>9. SidecarDescribesPart'
  BY DEF TypeOK, SidecarDescribesPart, IsSidecar
<1>10. (DigestOfTarget /\ (~ShortRanges => TargetWhole))'
  BY DEF TypeOK, DigestOfTarget, TargetWhole
<1> QED BY <1>1, <1>2, <1>3, <1>4, <1>5, <1>6, <1>7, <1>8, <1>9, <1>10

-----------------------------------------------------------------------------
(* Every step keeps the invariant. *)
LEMMA DownloadStep == DownloadInv /\ [Next]_vars => DownloadInv'
<1> SUFFICES ASSUME DownloadInv, [Next]_vars PROVE DownloadInv'
  OBVIOUS
<1>1. CASE UNCHANGED vars
  BY <1>1 DEF vars, TypeOK, NoAnswerYet, ReadTruly, AnsweredTruly, BodyInOrder, SidecarWritten,
       PromotesWhole, CheckpointCovers, TargetSynced, SidecarIdentifies, OwnPart,
       SidecarDescribesPart, IsSidecar, DigestOfTarget, TargetWhole
<1> HIDE DEF DownloadInv
<1>2. CASE Proceed
  BY <1>2, ReconcileStep, DiscardPartStep, DiscardSideStep, AttemptStep, SendStep, AdoptStep,
     TruncateStep, OpenStep, TruncateSideStep, WriteSideStep, ChunkStep, WriteOutStep,
     SyncStep, PromoteSideStep, RenameStep, RetryStep, GiveUpStep DEF Proceed
<1>3. CASE Environment
  BY <1>3, StartStep, CheckpointStep, FailStep, StopStep, PowerLossStep, RepublishStep
     DEF Environment
<1> QED BY <1>1, <1>2, <1>3 DEF Next

(* The invariant of a download: the task, its response, its buffer and its *)
(* hash, and the three files, through failures and power losses.           *)
THEOREM DownloadInvariant == Spec => []DownloadInv
<1> HIDE DEF DownloadInv
<1> QED BY InitDownload, DownloadStep, PTL DEF Spec

(* The sidecar's validator names the version of every block of a partial   *)
(* that was not resumed blindly.                                           *)
THEOREM SidecarTellsTheTruth == Spec => []SidecarDescribesPart
<1>1. DownloadInv => SidecarDescribesPart
  BY DEF DownloadInv
<1> HIDE DEF DownloadInv
<1> QED BY <1>1, DownloadInvariant, PTL

(* No block is appended to, or promoted with, another request's blocks.    *)
THEOREM ResumeIsIdentified == Spec => []ResumeIdentified
<1>1. DownloadInv => ResumeIdentified
  BY DEF OwnPart, ResumeIdentified
<1> HIDE DEF DownloadInv
<1> QED BY <1>1, DownloadInvariant, PTL

(* A published digest is that of the target, over any number of attempts   *)
(* and checkpoints.                                                        *)
THEOREM DigestIsTrue == Spec => []DigestOfTarget
<1>1. DownloadInv => DigestOfTarget
  BY DEF DownloadInv
<1> HIDE DEF DownloadInv
<1> QED BY <1>1, DownloadInvariant, PTL

(* Where the server's ranges are not short, the target is always whole (a  *)
(* blind resume and an unsynced promotion apart).                          *)
THEOREM TargetIsWhole ==
  ASSUME ShortRanges = FALSE
  PROVE  Spec => []TargetWhole
<1>1. DownloadInv => TargetWhole
  OBVIOUS
<1> HIDE DEF DownloadInv
<1> QED BY <1>1, DownloadInvariant, PTL

=============================================================================
