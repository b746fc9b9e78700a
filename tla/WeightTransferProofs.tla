------------------------ MODULE WeightTransferProofs ------------------------
(***************************************************************************)
(* Theorems about WeightTransfer, for both engines, any number of workers, *)
(* any bucket size and any model, whether or not subscriptions are slow.   *)
(***************************************************************************)
EXTENDS WeightTransfer, TLAPS

(***************************************************************************)
(* The inductive invariant                                                 *)
(***************************************************************************)

Range(k) == k.lo .. k.hi

\* A bucket has arrived in recv_buf and the buffers are not swapped yet.
Holds(r) == incoming[r] = "done" /\ ~last[r]

\* The last weight that has reached worker r.
Got(r) == IF Holds(r) THEN meta[r].hi ELSE bucket[r].hi

Chunk(k) == k.lo <= k.hi + 1 /\ k.hi <= Count

\* What a rank offers is a run of weights, the final run when it says so, and
\* only the ranks that it sends to can have it unread.
OfferInv(s) ==
  /\ Chunk(offer[s])
  /\ offer[s].last => offer[s].hi = Count
  /\ readers[s] \subseteq Targets(s)

\* Rank 0 packs the weights after the ones it offered, in the buffer that
\* nobody reads.
SenderInv ==
  /\ Chunk(bucket[0])
  /\ Range(bucket[0]) \subseteq buf[0][cur[0]]
  /\ spc = "fill" /\ offset = 0 => bucket[0].hi + 1 = bucket[0].lo
  /\ spc = "fill" => bucket[0].lo = offer[0].hi + 1
  /\ spc = "fill" /\ readers[0] # {} => offer[0].b # cur[0]

\* From a rank to a worker that reads from it: at most one bucket is unread, it
\* continues what the worker has, and its weights are intact.
LinkInv(r, s) ==
  /\ inbox[r] # <<>> => inbox[r] = <<offer[s]>> /\ r \in readers[s] /\ incoming[r] # "data"
  /\ incoming[r] = "data" => meta[r] = offer[s] /\ r \in readers[s]
  /\ r \in readers[s] =>
       /\ offer[s].lo = Got(r) + 1
       /\ Range(offer[s]) \subseteq buf[s][offer[s].b]
  /\ r \notin readers[s] => offer[s].hi = Got(r)

\* A worker's two buffers hold the bucket it copies from and the one after it;
\* a rank that passes buckets on offers the one it copies from.
BufferInv(r) ==
  /\ Chunk(bucket[r])
  /\ Range(bucket[r]) \subseteq buf[r][cur[r]]
  /\ Holds(r) =>
       /\ Chunk(meta[r])
       /\ meta[r].last => meta[r].hi = Count
       /\ meta[r].lo = bucket[r].hi + 1
       /\ Range(meta[r]) \subseteq buf[r][1 - cur[r]]
  /\ engine = "nixl" => offer[r].hi = bucket[r].hi
  /\ readers[r] # {} => engine = "nixl" /\ offer[r].b = cur[r]

\* The tensors handed out and copied are those of the bucket, in order.
LoadInv(r) ==
  /\ bucket[r].lo <= copied[r] /\ copied[r] <= given[r] /\ given[r] <= bucket[r].hi + 1
  /\ rpc[r] # "yield" => given[r] = bucket[r].hi + 1
  /\ last[r] => incoming[r] = "done" /\ rpc[r] \notin {"first", "wait"} /\ bucket[r].hi = Count
  /\ rpc[r] \in {"drain", "done"} => last[r]
  /\ Len(loaded[r]) = copied[r] - 1
  /\ \A i \in 1 .. Len(loaded[r]) : loaded[r][i] = i

\* With the types, this is inductive.
StateInv ==
  /\ \A s \in Ranks : OfferInv(s)
  /\ SenderInv
  /\ \A r \in Receivers : LinkInv(r, Source(r)) /\ BufferInv(r) /\ LoadInv(r)

----------------------------------------------------------------------------
Extent == [lo : Nat, hi : Nat]
Message == [b : {0, 1}, lo : Nat, hi : Nat, last : BOOLEAN]

LEMMA Topology ==
  ASSUME TypeOK
  PROVE  /\ \A r \in Receivers : Source(r) \in Ranks /\ Source(r) # r
         /\ \A r \in Receivers, s \in Ranks : r \in Targets(s) <=> s = Source(r)
         /\ \A s \in Ranks : Targets(s) \subseteq Receivers
         /\ Receivers \subseteq Ranks /\ 0 \in Ranks /\ 0 \notin Receivers
<1> USE WorkersAssumption DEF Targets, Source, Receivers, Ranks
<1>1. CASE engine = "nccl"
  BY <1>1
<1>2. CASE engine = "nixl"
  BY <1>2
<1> QED BY <1>1, <1>2 DEF TypeOK

\* The types of what Offer changes.
OfferTypes ==
  /\ offer \in [Ranks -> Message]
  /\ readers \in [Ranks -> SUBSET Receivers]
  /\ inbox \in [Receivers -> Seq(Message)]

LEMMA OfferType ==
  ASSUME TypeOK, NEW s \in Ranks, NEW b \in {0, 1}, NEW k \in Extent, NEW l \in BOOLEAN,
         Offer(s, b, k, l)
  PROVE  OfferTypes'
<1> DEFINE o == [b |-> b, lo |-> k.lo, hi |-> k.hi, last |-> l]
<1>1. o \in Message
  BY DEF Extent, Message
<1>2. /\ offer' = [offer EXCEPT ![s] = o]
      /\ readers' = [readers EXCEPT ![s] = Targets(s)]
      /\ inbox' = [r \in Receivers |->
                     IF r \in Reached(s) THEN Append(inbox[r], o) ELSE inbox[r]]
  BY DEF Offer
<1>3. Targets(s) \subseteq Receivers
  BY Topology
<1>4. /\ offer \in [Ranks -> Message]
      /\ readers \in [Ranks -> SUBSET Receivers]
      /\ inbox \in [Receivers -> Seq(Message)]
  BY DEF TypeOK, Message
<1> HIDE DEF o
<1>5. offer' \in [Ranks -> Message]
  BY <1>1, <1>2, <1>4
<1>6. readers' \in [Ranks -> SUBSET Receivers]
  BY <1>2, <1>3, <1>4
<1>7. inbox' \in [Receivers -> Seq(Message)]
  BY <1>1, <1>2, <1>4
<1> QED BY <1>5, <1>6, <1>7 DEF OfferTypes

LEMMA TypeInit == Init => TypeOK
<1> SUFFICES ASSUME Init PROVE TypeOK
  OBVIOUS
<1>1. sizes \in Seq(Nat \ {0})
  BY ModelsAssumption DEF Init
<1>2. subscribed \subseteq Receivers /\ offset \in 0 .. BucketSize
  BY BucketAssumption DEF Init
<1>3. NoOffer \in Message /\ Empty(1) \in Extent
  BY DEF NoOffer, Empty, Message, Extent
<1>4. bucket \in [Ranks -> Extent] /\ offer \in [Ranks -> Message]
  BY <1>3 DEF Init
<1>5. meta \in [Receivers -> Message] /\ inbox \in [Receivers -> Seq(Message)]
  BY <1>3 DEF Init
<1>6. loaded \in [Receivers -> Seq(Nat)] /\ copied \in [Receivers -> Nat]
      /\ given \in [Receivers -> Nat]
  BY DEF Init
<1>7. buf \in [Ranks -> [{0, 1} -> SUBSET Nat]] /\ cur \in [Ranks -> {0, 1}]
  BY DEF Init
<1> QED
  BY <1>1, <1>2, <1>4, <1>5, <1>6, <1>7 DEF Init, TypeOK, Extent, Message

\* The types of what a step of rank 0 changes.
LEMMA SenderTypeStep ==
  ASSUME TypeOK, Fill \/ BucketFull \/ LastBucket \/ SendDone
  PROVE  TypeOK'
<1> USE DEF setup, receiver
<1>0. /\ 0 \in Ranks
      /\ bucket \in [Ranks -> Extent] /\ cur[0] \in {0, 1} /\ cur \in [Ranks -> {0, 1}]
      /\ bucket[0] \in Extent /\ bucket[0].hi \in Nat /\ bucket[0].lo \in Nat
      /\ sizes \in Seq(Nat \ {0})
      /\ offset \in 0 .. BucketSize
      /\ buf \in [Ranks -> [{0, 1} -> SUBSET Nat]]
  BY Topology DEF TypeOK, Extent
<1>1. CASE Fill
  <2> DEFINE w == bucket[0].hi + 1
             held == IF offset = 0 THEN {} ELSE buf[0][cur[0]]
  <2>1. w \in 1 .. Len(sizes) /\ offset + sizes[w] <= BucketSize /\ w \in Nat
    BY <1>0, <1>1 DEF Fill, Count, Fits
  <2>2. offset + sizes[w] \in 0 .. BucketSize
    BY <1>0, <2>1, BucketAssumption
  <2>3. held \cup {w} \in SUBSET Nat
    BY <1>0, <2>1
  <2>4. /\ buf' = [buf EXCEPT ![0][cur[0]] = held \cup {w}]
        /\ bucket' = [bucket EXCEPT ![0].hi = w]
        /\ offset' = offset + sizes[w]
    BY <1>1 DEF Fill
  <2> HIDE DEF w, held
  <2>5. buf' \in [Ranks -> [{0, 1} -> SUBSET Nat]]
    BY <1>0, <2>3, <2>4
  <2>6. bucket' \in [Ranks -> Extent]
    BY <1>0, <2>1, <2>4 DEF Extent
  <2> QED BY <1>1, <2>2, <2>4, <2>5, <2>6 DEF Fill, TypeOK, Extent
<1>2. CASE BucketFull
  <2>1. OfferTypes'
    BY <1>0, <1>2, OfferType DEF BucketFull
  <2>2. cur' \in [Ranks -> {0, 1}]
    BY <1>0, <1>2 DEF BucketFull
  <2>3. bucket' \in [Ranks -> Extent]
    BY <1>0, <1>2 DEF BucketFull, Empty, Extent
  <2>4. offset' \in 0 .. BucketSize /\ spc' \in {"fill", "last", "done", "failed"}
    BY <1>2, BucketAssumption DEF BucketFull
  <2> QED BY <1>2, <2>1, <2>2, <2>3, <2>4
          DEF BucketFull, TypeOK, OfferTypes, Extent, Message
<1>3. CASE LastBucket
  <2>1. OfferTypes'
    BY <1>0, <1>3, OfferType DEF LastBucket, OfferLast
  <2> QED BY <1>3, <2>1 DEF LastBucket, TypeOK, OfferTypes, Message
<1>4. CASE SendDone
  BY <1>4 DEF SendDone, TypeOK
<1> QED BY <1>1, <1>2, <1>3, <1>4

\* The types of what a step of a worker changes.
LEMMA ReceiverTypeStep ==
  ASSUME TypeOK, NEW r \in Receivers, Receive(r)
  PROVE  TypeOK'
<1> USE DEF setup, sender
<1>a. /\ r \in Ranks /\ Source(r) \in Ranks
  BY Topology
<1>b. /\ meta \in [Receivers -> Message] /\ meta[r] \in Message
      /\ cur \in [Ranks -> {0, 1}] /\ cur[r] \in {0, 1}
      /\ bucket \in [Ranks -> Extent]
      /\ buf \in [Ranks -> [{0, 1} -> SUBSET Nat]]
      /\ inbox \in [Receivers -> Seq(Message)]
      /\ readers \in [Ranks -> SUBSET Receivers]
      /\ offer \in [Ranks -> Message]
  BY <1>a DEF TypeOK, Message, Extent
<1>c. /\ meta[r].b \in {0, 1} /\ meta[r].lo \in Nat /\ meta[r].hi \in Nat
      /\ meta[r].last \in BOOLEAN
      /\ 1 - cur[r] \in {0, 1}
  BY <1>b DEF Message
<1>1. CASE Subscribe(r)
  BY <1>1 DEF Subscribe, TypeOK, receiver
<1>2. CASE ReadMeta(r)
  <2>1. Head(inbox[r]) \in Message /\ Tail(inbox[r]) \in Seq(Message)
    BY <1>a, <1>b, <1>c, <1>2 DEF ReadMeta
  <2>2. meta' \in [Receivers -> Message]
    BY <1>a, <1>b, <1>c, <1>2, <2>1 DEF ReadMeta
  <2>3. inbox' \in [Receivers -> Seq(Message)]
    BY <1>a, <1>b, <1>c, <1>2, <2>1 DEF ReadMeta
  <2>4. incoming' \in [Receivers -> {"meta", "data", "done"}]
    BY <1>2 DEF ReadMeta, TypeOK
  <2> QED BY <1>2, <2>2, <2>3, <2>4 DEF ReadMeta, TypeOK, Message
<1>3. CASE ReadData(r)
  <2>1. buf[Source(r)][meta[r].b] \in SUBSET Nat
    BY <1>a, <1>b, <1>c
  <2>2. buf' \in [Ranks -> [{0, 1} -> SUBSET Nat]]
    BY <1>a, <1>b, <1>c, <1>3, <2>1 DEF ReadData
  <2>3. readers' \in [Ranks -> SUBSET Receivers]
    BY <1>a, <1>b, <1>c, <1>3 DEF ReadData
  <2>4. incoming' \in [Receivers -> {"meta", "data", "done"}]
    BY <1>3 DEF ReadData, TypeOK
  <2> QED BY <1>3, <2>2, <2>3, <2>4 DEF ReadData, TypeOK
<1>4. CASE Swap(r)
  <2> DEFINE k == [lo |-> meta[r].lo, hi |-> meta[r].hi]
  <2>1. k \in Extent
    BY <1>a, <1>b, <1>c DEF Extent
  <2>2. OfferTypes'
    <3>1. CASE engine = "nixl"
      <4>1. Offer(r, 1 - cur[r], k, meta[r].last)
        BY <1>4, <3>1 DEF Swap
      <4> HIDE DEF k
      <4> QED BY <1>a, <1>b, <1>c, <2>1, <4>1, OfferType
    <3>2. CASE engine # "nixl"
      BY <1>a, <1>b, <1>c, <1>4, <3>2 DEF Swap, OfferTypes
    <3> QED BY <3>1, <3>2
  <2>3. /\ cur' = [cur EXCEPT ![r] = 1 - @]
        /\ bucket' = [bucket EXCEPT ![r] = k]
        /\ last' = [last EXCEPT ![r] = meta[r].last]
        /\ incoming' = [incoming EXCEPT ![r] = IF meta[r].last THEN "done" ELSE "meta"]
        /\ rpc' = [rpc EXCEPT ![r] = "yield"]
        /\ copied' = [copied EXCEPT ![r] = meta[r].lo]
        /\ given' = [given EXCEPT ![r] = meta[r].lo]
        /\ UNCHANGED <<setup, sender, buf, meta, loaded>>
    BY <1>4 DEF Swap
  <2>4. bucket' \in [Ranks -> Extent]
    BY <1>a, <1>b, <1>c, <2>1, <2>3
  <2>5. cur' \in [Ranks -> {0, 1}]
    BY <1>a, <1>b, <1>c, <2>3
  <2>6. /\ last' \in [Receivers -> BOOLEAN]
        /\ copied' \in [Receivers -> Nat]
        /\ given' \in [Receivers -> Nat]
    BY <1>a, <1>b, <1>c, <2>3 DEF TypeOK
  <2>7. /\ incoming' \in [Receivers -> {"meta", "data", "done"}]
        /\ rpc' \in [Receivers -> {"first", "yield", "wait", "drain", "done"}]
    BY <1>a, <1>b, <1>c, <2>3 DEF TypeOK
  <2> QED BY <2>2, <2>3, <2>4, <2>5, <2>6, <2>7 DEF TypeOK, OfferTypes, Extent, Message
<1>5. CASE Yield(r)
  <2>1. given' \in [Receivers -> Nat]
    BY <1>5 DEF Yield, TypeOK
  <2> QED BY <1>5, <2>1 DEF Yield, TypeOK
<1>6. CASE YieldEnd(r) \/ ReceiveDone(r)
  <2>1. rpc' \in [Receivers -> {"first", "yield", "wait", "drain", "done"}]
    <3>1. rpc \in [Receivers -> {"first", "yield", "wait", "drain", "done"}]
      BY DEF TypeOK
    <3> QED BY <1>6, <3>1 DEF YieldEnd, ReceiveDone
  <2> QED BY <1>6, <2>1 DEF YieldEnd, ReceiveDone, TypeOK
<1>7. CASE Copy(r)
  <2>1. copied' \in [Receivers -> Nat] /\ loaded' \in [Receivers -> Seq(Nat)]
    <3>1. copied[r] \in Nat /\ loaded[r] \in Seq(Nat)
      BY DEF TypeOK
    <3>2. copied[r] + 1 \in Nat /\ \A x \in Nat : Append(loaded[r], x) \in Seq(Nat)
      BY <3>1
    <3>3. (IF copied[r] \in buf[r][cur[r]] THEN copied[r] ELSE Broken) \in Nat
      BY <3>1 DEF Broken
    <3> QED BY <1>7, <3>2, <3>3 DEF Copy, TypeOK
  <2> QED BY <1>7, <2>1 DEF Copy, TypeOK
<1> QED
  BY <1>1, <1>2, <1>3, <1>4, <1>5, <1>6, <1>7 DEF Receive

LEMMA TypeStep ==
  ASSUME TypeOK, [Next]_vars
  PROVE  TypeOK'
<1>1. CASE UNCHANGED vars
  BY <1>1 DEF vars, setup, sender, receiver, TypeOK
<1> QED
  BY <1>1, SenderTypeStep, ReceiverTypeStep DEF Next, Sender

----------------------------------------------------------------------------
(***************************************************************************)
(* The invariant holds at first and is preserved by every step             *)
(***************************************************************************)

\* The types in the form the steps below use them.
LEMMA Types ==
  ASSUME TypeOK
  PROVE  /\ engine \in {"nccl", "nixl"} /\ Count \in Nat
         /\ \A s \in Ranks :
              /\ cur[s] \in {0, 1} /\ 1 - cur[s] \in {0, 1} /\ 1 - cur[s] # cur[s]
              /\ bucket[s].lo \in Nat /\ bucket[s].hi \in Nat
              /\ offer[s].lo \in Nat /\ offer[s].hi \in Nat
              /\ offer[s].b \in {0, 1} /\ offer[s].last \in BOOLEAN
              /\ readers[s] \subseteq Receivers
              /\ DOMAIN buf[s] = {0, 1}
              /\ \A b \in {0, 1} : buf[s][b] \subseteq Nat
         /\ \A r \in Receivers :
              /\ meta[r].lo \in Nat /\ meta[r].hi \in Nat
              /\ meta[r].b \in {0, 1} /\ meta[r].last \in BOOLEAN
              /\ copied[r] \in Nat /\ given[r] \in Nat
              /\ last[r] \in BOOLEAN
              /\ loaded[r] \in Seq(Nat)
              /\ inbox[r] \in Seq(Message)
              /\ incoming[r] \in {"meta", "data", "done"}
              /\ rpc[r] \in {"first", "yield", "wait", "drain", "done"}
<1>1. engine \in {"nccl", "nixl"} /\ Count \in Nat
  BY DEF TypeOK, Count
<1>2. ASSUME NEW s \in Ranks
      PROVE  /\ cur[s] \in {0, 1} /\ 1 - cur[s] \in {0, 1} /\ 1 - cur[s] # cur[s]
             /\ bucket[s].lo \in Nat /\ bucket[s].hi \in Nat
             /\ offer[s].lo \in Nat /\ offer[s].hi \in Nat
             /\ offer[s].b \in {0, 1} /\ offer[s].last \in BOOLEAN
             /\ readers[s] \subseteq Receivers
             /\ DOMAIN buf[s] = {0, 1}
             /\ \A b \in {0, 1} : buf[s][b] \subseteq Nat
  <2>1. cur[s] \in {0, 1}
    BY DEF TypeOK
  <2>2. bucket[s] \in [lo : Nat, hi : Nat] /\ offer[s] \in Message /\ readers[s] \subseteq Receivers
    BY DEF TypeOK, Message
  <2>3. buf[s] \in [{0, 1} -> SUBSET Nat]
    BY DEF TypeOK
  <2>4. offer[s].lo \in Nat /\ offer[s].hi \in Nat /\ offer[s].b \in {0, 1} /\ offer[s].last \in BOOLEAN
    BY <2>2 DEF Message
  <2> QED BY <2>1, <2>2, <2>3, <2>4
<1>3. ASSUME NEW r \in Receivers
      PROVE  /\ meta[r].lo \in Nat /\ meta[r].hi \in Nat
             /\ meta[r].b \in {0, 1} /\ meta[r].last \in BOOLEAN
             /\ copied[r] \in Nat /\ given[r] \in Nat
             /\ last[r] \in BOOLEAN
             /\ loaded[r] \in Seq(Nat)
             /\ inbox[r] \in Seq(Message)
             /\ incoming[r] \in {"meta", "data", "done"}
             /\ rpc[r] \in {"first", "yield", "wait", "drain", "done"}
  <2>1. meta[r] \in Message /\ inbox[r] \in Seq(Message)
    BY DEF TypeOK, Message
  <2>2. meta[r].lo \in Nat /\ meta[r].hi \in Nat /\ meta[r].b \in {0, 1} /\ meta[r].last \in BOOLEAN
    BY <2>1 DEF Message
  <2>3. /\ copied[r] \in Nat /\ given[r] \in Nat
        /\ last[r] \in BOOLEAN
        /\ loaded[r] \in Seq(Nat)
        /\ incoming[r] \in {"meta", "data", "done"}
        /\ rpc[r] \in {"first", "yield", "wait", "drain", "done"}
    BY DEF TypeOK
  <2> QED BY <2>1, <2>2, <2>3
<1> QED BY <1>1, <1>2, <1>3

LEMMA StateInit == Init => StateInv
<1> SUFFICES ASSUME Init PROVE StateInv
  OBVIOUS
<1>0. TypeOK
  BY TypeInit
<1> USE Topology, Types, <1>0
    DEF Init, NoOffer, Empty, Range, Holds, Got, Chunk
<1>1. ASSUME NEW s \in Ranks PROVE OfferInv(s)
  BY DEF OfferInv
<1>2. SenderInv
  BY DEF SenderInv
<1>3. ASSUME NEW r \in Receivers PROVE LinkInv(r, Source(r)) /\ BufferInv(r) /\ LoadInv(r)
  <2>1. LinkInv(r, Source(r))
    BY DEF LinkInv
  <2>2. BufferInv(r)
    BY DEF BufferInv
  <2>3. LoadInv(r)
    BY DEF LoadInv
  <2> QED BY <2>1, <2>2, <2>3
<1> QED BY <1>1, <1>2, <1>3 DEF StateInv

\* What an offer changes, rank by rank.
LEMMA OfferFrame ==
  ASSUME TypeOK, NEW s \in Ranks, NEW b \in {0, 1}, NEW k \in Extent, NEW l \in BOOLEAN,
         Offer(s, b, k, l)
  PROVE  /\ offer'[s] = [b |-> b, lo |-> k.lo, hi |-> k.hi, last |-> l]
         /\ readers'[s] = Targets(s)
         /\ \A q \in Ranks \ {s} : offer'[q] = offer[q] /\ readers'[q] = readers[q]
         /\ \A r \in Receivers : Source(r) # s => inbox'[r] = inbox[r]
         /\ \A r \in Receivers : Source(r) = s /\ inbox[r] = <<>> =>
              inbox'[r] \in {<<>>, <<offer'[s]>>}
<1> DEFINE o == [b |-> b, lo |-> k.lo, hi |-> k.hi, last |-> l]
<1>1. /\ offer' = [offer EXCEPT ![s] = o]
      /\ readers' = [readers EXCEPT ![s] = Targets(s)]
      /\ inbox' = [r \in Receivers |->
                     IF r \in Reached(s) THEN Append(inbox[r], o) ELSE inbox[r]]
  BY DEF Offer
<1>2. offer \in [Ranks -> Message] /\ readers \in [Ranks -> SUBSET Receivers]
  BY DEF TypeOK, Message
<1> HIDE DEF o
<1>3. /\ offer'[s] = o /\ readers'[s] = Targets(s)
      /\ \A q \in Ranks \ {s} : offer'[q] = offer[q] /\ readers'[q] = readers[q]
  BY <1>1, <1>2
<1>4. ASSUME NEW r \in Receivers, Source(r) # s
      PROVE  inbox'[r] = inbox[r]
  <2>1. r \notin Reached(s)
    BY <1>4, Topology DEF Reached
  <2> QED BY <1>1, <2>1
<1>5. ASSUME NEW r \in Receivers, inbox[r] = <<>>
      PROVE  inbox'[r] \in {<<>>, <<offer'[s]>>}
  <2>1. CASE r \in Reached(s)
    <3>1. Append(<<>>, o) = <<o>>
      OBVIOUS
    <3>2. inbox'[r] = Append(inbox[r], o)
      BY <1>1, <2>1
    <3>3. inbox'[r] = <<o>>
      BY <1>5, <3>1, <3>2
    <3> QED BY <1>3, <3>3
  <2>2. CASE r \notin Reached(s)
    BY <1>1, <1>5, <2>2
  <2> QED BY <2>1, <2>2
<1>6. offer'[s] = [b |-> b, lo |-> k.lo, hi |-> k.hi, last |-> l]
  BY <1>3 DEF o
<1> QED BY <1>3, <1>4, <1>5, <1>6

\* A rank that offers the next bucket after the last one was taken continues
\* what its readers have.
LEMMA OfferLink ==
  ASSUME TypeOK, StateInv, engine' = engine,
         NEW s \in Ranks, NEW b \in {0, 1}, NEW k \in Extent, NEW l \in BOOLEAN,
         Offer(s, b, k, l), OfferTaken(s),
         k.lo = offer[s].hi + 1, Range(k) \subseteq buf'[s][b],
         NEW r \in Receivers, Source(r) = s,
         incoming'[r] = incoming[r], meta'[r] = meta[r], Got(r)' = Got(r)
  PROVE  LinkInv(r, Source(r))'
<1>1. LinkInv(r, s) /\ r \notin readers[s] /\ inbox[r] = <<>>
  BY DEF StateInv, OfferTaken, LinkInv
<1>2. Source(r)' = s
  BY DEF Source
<1>3. r \in readers'[s] /\ offer'[s].lo = k.lo /\ offer'[s].hi = k.hi /\ offer'[s].b = b
  <2>1. offer'[s] = [b |-> b, lo |-> k.lo, hi |-> k.hi, last |-> l] /\ readers'[s] = Targets(s)
    BY OfferFrame
  <2>2. r \in Targets(s)
    BY Topology
  <2> QED BY <2>1, <2>2
<1>4. inbox'[r] \in {<<>>, <<offer'[s]>>}
  BY <1>1, OfferFrame
<1>5. LinkInv(r, s)'
  BY <1>1, <1>3, <1>4 DEF LinkInv, Range
<1> QED BY <1>2, <1>5

\* A link that no offer and no read is about stays as it is.
LEMMA SameLink ==
  ASSUME StateInv, engine' = engine, NEW r \in Receivers, NEW s, s = Source(r),
         inbox'[r] = inbox[r], offer'[s] = offer[s], readers'[s] = readers[s],
         incoming'[r] = incoming[r], meta'[r] = meta[r], Got(r)' = Got(r),
         r \in readers[s] => buf'[s][offer[s].b] = buf[s][offer[s].b]
  PROVE  LinkInv(r, Source(r))'
<1>1. Source(r)' = s /\ LinkInv(r, s)
  BY DEF Source, StateInv
<1>2. LinkInv(r, s)'
  BY <1>1 DEF LinkInv, Range
<1> QED BY <1>1, <1>2

\* Rank 0 writes only the buffer that nobody reads.
LEMMA FillStep ==
  ASSUME TypeOK, StateInv, Fill
  PROVE  StateInv'
<1> DEFINE w == bucket[0].hi + 1
           held == IF offset = 0 THEN {} ELSE buf[0][cur[0]]
<1>1. /\ spc = "fill" /\ w <= Count /\ sizes[w] > 0
      /\ bucket'[0].lo = bucket[0].lo /\ bucket'[0].hi = w
      /\ \A s \in Ranks \ {0} : bucket'[s] = bucket[s] /\ buf'[s] = buf[s]
      /\ buf'[0][cur[0]] = held \cup {w}
      /\ \A b \in {0, 1} \ {cur[0]} : buf'[0][b] = buf[0][b]
      /\ offset' = offset + sizes[w] /\ offset' # 0
  <2>0. 0 \in Ranks /\ cur[0] \in {0, 1} /\ bucket[0].hi \in Nat
    BY Topology, Types
  <2>1. /\ bucket \in [Ranks -> [lo : Nat, hi : Nat]]
        /\ buf \in [Ranks -> [{0, 1} -> SUBSET Nat]]
        /\ offset \in Nat
    BY BucketAssumption DEF TypeOK
  <2>2. w \in 1 .. Len(sizes)
    BY <2>0, <2>1 DEF Fill, Count, TypeOK
  <2>3. sizes[w] \in Nat \ {0}
    BY <2>2 DEF TypeOK
  <2> HIDE DEF held
  <2>4. /\ bucket'[0].lo = bucket[0].lo /\ bucket'[0].hi = w
        /\ \A s \in Ranks \ {0} : bucket'[s] = bucket[s]
    BY <2>0, <2>1 DEF Fill
  <2>5. buf' = [buf EXCEPT ![0][cur[0]] = held \cup {w}]
    BY DEF Fill, held
  <2>6. /\ \A s \in Ranks \ {0} : buf'[s] = buf[s]
        /\ buf'[0][cur[0]] = held \cup {w}
        /\ \A b \in {0, 1} \ {cur[0]} : buf'[0][b] = buf[0][b]
    BY <2>0, <2>1, <2>5
  <2> QED BY <2>0, <2>1, <2>3, <2>4, <2>6 DEF Fill
<1>2. UNCHANGED <<setup, sizes, spc, cur, offer, readers, inbox, receiver>>
  BY DEF Fill
<1>3. ASSUME NEW s \in Ranks PROVE OfferInv(s)'
  BY <1>2, SMTT(60) DEF StateInv, OfferInv, Chunk, Count, Targets, setup
<1>4. SenderInv'
  BY <1>1, <1>2, Topology, Types, SMTT(60) DEF StateInv, SenderInv, Chunk, Range, Count
<1>5. ASSUME NEW r \in Receivers PROVE LinkInv(r, Source(r))' /\ BufferInv(r)' /\ LoadInv(r)'
  <2>1. Source(r)' = Source(r) /\ Source(r) \in Ranks /\ r \in Ranks \ {0}
    BY <1>2, Topology DEF Source, setup
  <2>2. LinkInv(r, Source(r))
    BY DEF StateInv
  <2>3. Got(r)' = Got(r)
    BY <1>1, <1>2, <2>1 DEF Got, Holds, receiver
  <2>4. r \in readers[Source(r)] =>
          buf'[Source(r)][offer[Source(r)].b] = buf[Source(r)][offer[Source(r)].b]
    <3>1. TypeOK /\ SenderInv
      BY DEF StateInv
    <3>2. offer[Source(r)].b \in {0, 1}
      BY <2>1, <3>1, Types
    <3> QED BY <1>1, <2>1, <3>1, <3>2 DEF SenderInv
  <2>5. LinkInv(r, Source(r))'
    BY <1>2, <2>1, <2>2, <2>3, <2>4 DEF LinkInv, Range, receiver
  <2>6. BufferInv(r)'
    BY <1>1, <1>2, <2>1 DEF StateInv, BufferInv, Chunk, Count, Range, Holds, receiver, setup
  <2>7. LoadInv(r)'
    BY <1>1, <1>2, <2>1 DEF StateInv, LoadInv, Count, receiver
  <2> QED BY <2>5, <2>6, <2>7
<1> QED BY <1>3, <1>4, <1>5, Topology DEF StateInv

\* What rank 0 offers is the bucket it has packed.
LEMMA BucketFullStep ==
  ASSUME TypeOK, StateInv, BucketFull
  PROVE  StateInv'
<1>1. /\ 0 \in Ranks /\ bucket[0] \in Extent /\ cur[0] \in {0, 1}
      /\ bucket \in [Ranks -> Extent] /\ cur \in [Ranks -> {0, 1}]
  BY Topology DEF TypeOK, Extent
<1>2. /\ spc = "fill" /\ bucket[0].hi + 1 <= Count /\ OfferTaken(0)
      /\ Offer(0, cur[0], bucket[0], FALSE)
      /\ offset' = 0
      /\ UNCHANGED <<engine, sizes, buf, receiver>>
  BY DEF BucketFull, setup
<1>3. /\ cur'[0] = 1 - cur[0]
      /\ bucket'[0] = [lo |-> bucket[0].hi + 1, hi |-> bucket[0].hi]
      /\ \A s \in Ranks \ {0} : cur'[s] = cur[s] /\ bucket'[s] = bucket[s]
  <2>1. /\ bucket' = [bucket EXCEPT ![0] = Empty(bucket[0].hi + 1)]
        /\ cur' = [cur EXCEPT ![0] = 1 - cur[0]]
    BY DEF BucketFull
  <2>2. Empty(bucket[0].hi + 1) = [lo |-> bucket[0].hi + 1, hi |-> bucket[0].hi]
    BY <1>1 DEF Extent, Empty
  <2> QED BY <1>1, <2>1, <2>2
<1>4. /\ offer'[0] = [b |-> cur[0], lo |-> bucket[0].lo, hi |-> bucket[0].hi, last |-> FALSE]
      /\ readers'[0] = Targets(0)
      /\ \A s \in Ranks \ {0} : offer'[s] = offer[s] /\ readers'[s] = readers[s]
      /\ \A r \in Receivers : Source(r) # 0 => inbox'[r] = inbox[r]
  BY <1>1, <1>2, OfferFrame
<1>5. ASSUME NEW s \in Ranks PROVE OfferInv(s)'
  <2>1. OfferInv(s) /\ SenderInv /\ Targets(s)' = Targets(s)
    BY <1>2 DEF StateInv, Targets
  <2> QED BY <1>2, <1>4, <2>1 DEF OfferInv, SenderInv, Chunk, Count
<1>6. SenderInv'
  BY <1>1, <1>2, <1>3, <1>4, Types DEF StateInv, SenderInv, Chunk, Range, Count, Extent
<1>7. ASSUME NEW r \in Receivers PROVE LinkInv(r, Source(r))' /\ BufferInv(r)' /\ LoadInv(r)'
  <2>1. Source(r) \in Ranks /\ r \in Ranks \ {0}
    BY Topology
  <2>2. /\ Got(r)' = Got(r) /\ incoming'[r] = incoming[r] /\ meta'[r] = meta[r]
    BY <1>2, <1>3, <2>1 DEF Got, Holds, receiver
  <2>3. LinkInv(r, Source(r))'
    <3>1. CASE Source(r) = 0
      <4>1. bucket[0].lo = offer[0].hi + 1 /\ Range(bucket[0]) \subseteq buf'[0][cur[0]]
        BY <1>2 DEF StateInv, SenderInv
      <4> QED BY <1>1, <1>2, <2>2, <3>1, <4>1, OfferLink
    <3>2. CASE Source(r) # 0
      BY <1>2, <1>4, <2>1, <2>2, <3>2, SameLink
    <3> QED BY <3>1, <3>2
  <2>4. BufferInv(r)'
    BY <1>2, <1>3, <1>4, <2>1 DEF StateInv, BufferInv, Chunk, Count, Range, Holds, receiver
  <2>5. LoadInv(r)'
    BY <1>2, <1>3, <2>1 DEF StateInv, LoadInv, Count, receiver
  <2> QED BY <2>3, <2>4, <2>5
<1> QED BY <1>5, <1>6, <1>7, Topology DEF StateInv

LEMMA LastBucketStep ==
  ASSUME TypeOK, StateInv, LastBucket
  PROVE  StateInv'
<1>1. 0 \in Ranks /\ bucket[0] \in Extent /\ cur[0] \in {0, 1}
  BY Topology DEF TypeOK, Extent
<1>2. /\ spc = "fill" /\ bucket[0].hi = Count /\ OfferTaken(0) /\ spc' = "last"
      /\ Offer(0, cur[0], bucket[0], TRUE)
      /\ UNCHANGED <<engine, sizes, buf, cur, bucket, receiver>>
  BY DEF LastBucket, OfferLast, setup
<1>3. /\ offer'[0] = [b |-> cur[0], lo |-> bucket[0].lo, hi |-> bucket[0].hi, last |-> TRUE]
      /\ readers'[0] = Targets(0)
      /\ \A s \in Ranks \ {0} : offer'[s] = offer[s] /\ readers'[s] = readers[s]
      /\ \A r \in Receivers : Source(r) # 0 => inbox'[r] = inbox[r]
  BY <1>1, <1>2, OfferFrame
<1>4. ASSUME NEW s \in Ranks PROVE OfferInv(s)'
  <2>1. OfferInv(s) /\ SenderInv /\ Targets(s)' = Targets(s)
    BY <1>2 DEF StateInv, Targets
  <2> QED BY <1>2, <1>3, <2>1 DEF OfferInv, SenderInv, Chunk, Count
<1>5. SenderInv'
  BY <1>2 DEF StateInv, SenderInv, Chunk, Range, Count
<1>6. ASSUME NEW r \in Receivers PROVE LinkInv(r, Source(r))' /\ BufferInv(r)' /\ LoadInv(r)'
  <2>1. Source(r) \in Ranks /\ r \in Ranks \ {0}
    BY Topology
  <2>2. /\ Got(r)' = Got(r) /\ incoming'[r] = incoming[r] /\ meta'[r] = meta[r]
    BY <1>2 DEF Got, Holds, receiver
  <2>3. LinkInv(r, Source(r))'
    <3>1. CASE Source(r) = 0
      <4>1. bucket[0].lo = offer[0].hi + 1 /\ Range(bucket[0]) \subseteq buf'[0][cur[0]]
        BY <1>2 DEF StateInv, SenderInv
      <4> QED BY <1>1, <1>2, <2>2, <3>1, <4>1, OfferLink
    <3>2. CASE Source(r) # 0
      BY <1>2, <1>3, <2>1, <2>2, <3>2, SameLink
    <3> QED BY <3>1, <3>2
  <2>4. BufferInv(r)'
    BY <1>2, <1>3, <2>1 DEF StateInv, BufferInv, Chunk, Count, Range, Holds, receiver
  <2>5. LoadInv(r)'
    BY <1>2, <2>1 DEF StateInv, LoadInv, Count, receiver
  <2> QED BY <2>3, <2>4, <2>5
<1> QED BY <1>4, <1>5, <1>6, Topology DEF StateInv

\* Steps that change neither a buffer, nor an offer, nor what a worker has.
LEMMA QuietStep ==
  ASSUME TypeOK, StateInv, UNCHANGED <<engine, sizes, buf, cur, bucket, offer, readers, inbox,
                               incoming, meta, last>>,
         spc' # "fill" \/ UNCHANGED <<spc, offset>>,
         \A r \in Receivers : LoadInv(r)'
  PROVE  StateInv'
<1>1. ASSUME NEW s \in Ranks PROVE OfferInv(s)'
  BY DEF StateInv, OfferInv, Chunk, Count, Targets
<1>2. SenderInv'
  BY DEF StateInv, SenderInv, Chunk, Range, Count
<1>3. ASSUME NEW r \in Receivers PROVE LinkInv(r, Source(r))' /\ BufferInv(r)'
  <2>1. LinkInv(r, Source(r))'
    BY SameLink DEF Got, Holds
  <2>2. BufferInv(r)'
    BY DEF StateInv, BufferInv, Chunk, Count, Range, Holds
  <2> QED BY <2>1, <2>2
<1> QED BY <1>1, <1>2, <1>3, Topology DEF StateInv

LEMMA SendDoneStep ==
  ASSUME TypeOK, StateInv, SendDone
  PROVE  StateInv'
<1>1. ASSUME NEW r \in Receivers PROVE LoadInv(r)'
  BY DEF SendDone, StateInv, LoadInv, receiver, setup, Count
<1> QED BY <1>1, QuietStep DEF SendDone, receiver, setup

LEMMA SubscribeStep ==
  ASSUME TypeOK, StateInv, NEW w \in Receivers, Subscribe(w)
  PROVE  StateInv'
<1>1. ASSUME NEW r \in Receivers PROVE LoadInv(r)'
  BY DEF Subscribe, StateInv, LoadInv, receiver, sender, Count
<1> QED BY <1>1, QuietStep DEF Subscribe, receiver, sender

\* Tensors are handed out, and copied, in the order of the bucket.
LEMMA YieldStep ==
  ASSUME TypeOK, StateInv, NEW w \in Receivers, Yield(w) \/ YieldEnd(w) \/ ReceiveDone(w)
  PROVE  StateInv'
<1>1. /\ given \in [Receivers -> Nat]
      /\ rpc \in [Receivers -> {"first", "yield", "wait", "drain", "done"}]
      /\ \A r \in Receivers : bucket[r].hi \in Nat /\ copied[r] \in Nat /\ given[r] \in Nat
  BY Topology, Types DEF TypeOK
<1>2. ASSUME NEW r \in Receivers PROVE LoadInv(r)'
  <2>1. LoadInv(r)
    BY DEF StateInv
  <2>2. CASE Yield(w)
    BY <1>1, <2>1, <2>2 DEF Yield, LoadInv, Exhausted, sender, Count
  <2>3. CASE YieldEnd(w)
    <3>1. /\ UNCHANGED <<sizes, bucket, copied, given, loaded, last, incoming>>
          /\ rpc[w] = "yield" /\ given[w] > bucket[w].hi
          /\ rpc'[w] = IF last[w] THEN "drain" ELSE "wait"
          /\ \A q \in Receivers \ {w} : rpc'[q] = rpc[q]
      BY <1>1, <2>3 DEF YieldEnd, Exhausted, sender
    <3>2. CASE r = w
      <4>1. given[w] = bucket[w].hi + 1
        BY <1>1, <2>1, <3>1, <3>2 DEF LoadInv
      <4> QED BY <2>1, <3>1, <3>2, <4>1 DEF LoadInv, Count
    <3>3. CASE r # w
      BY <2>1, <3>1, <3>3 DEF LoadInv, Count
    <3> QED BY <3>2, <3>3
  <2>4. CASE ReceiveDone(w)
    BY <1>1, <2>1, <2>4 DEF ReceiveDone, LoadInv, sender, Count
  <2> QED BY <2>2, <2>3, <2>4
<1>3. UNCHANGED <<engine, sizes, buf, cur, bucket, offer, readers, inbox, incoming, meta,
                  last, spc, offset>>
  BY DEF Yield, YieldEnd, ReceiveDone, setup, sender
<1> QED BY <1>2, <1>3, QuietStep

LEMMA CopyStep ==
  ASSUME TypeOK, StateInv, NEW w \in Receivers, Copy(w)
  PROVE  StateInv'
<1>1. /\ copied \in [Receivers -> Nat] /\ loaded \in [Receivers -> Seq(Nat)]
      /\ bucket[w].hi \in Nat /\ bucket[w].lo \in Nat
      /\ copied[w] \in Nat /\ given[w] \in Nat /\ loaded[w] \in Seq(Nat)
  BY Topology, Types DEF TypeOK
<1>2. LoadInv(w) /\ BufferInv(w)
  BY DEF StateInv
<1>3. copied[w] \in buf[w][cur[w]]
  <2>1. /\ bucket[w].lo <= copied[w] /\ given[w] <= bucket[w].hi + 1
        /\ Range(bucket[w]) \subseteq buf[w][cur[w]] /\ copied[w] < given[w]
    BY <1>2 DEF Copy, LoadInv, BufferInv
  <2>2. copied[w] \in Range(bucket[w])
    BY <1>1, <2>1 DEF Range
  <2> QED BY <2>1, <2>2
<1>4. /\ loaded'[w] = Append(loaded[w], copied[w])
      /\ copied'[w] = copied[w] + 1
      /\ copied[w] < given[w]
  BY <1>1, <1>3 DEF Copy
<1>5. /\ \A r \in Receivers \ {w} : loaded'[r] = loaded[r] /\ copied'[r] = copied[r]
      /\ UNCHANGED <<engine, sizes, buf, cur, bucket, offer, readers, inbox, incoming, meta,
                     last, spc, offset, given, rpc>>
  BY <1>1 DEF Copy, setup, sender
<1>6. LoadInv(w)'
  <2>1. Len(loaded[w]) = copied[w] - 1 /\ \A i \in 1 .. Len(loaded[w]) : loaded[w][i] = i
    BY <1>2 DEF LoadInv
  <2>2. Len(loaded'[w]) = copied[w] /\ \A i \in 1 .. copied[w] : loaded'[w][i] = i
    BY <1>1, <1>4, <2>1
  <2>3. /\ bucket'[w].lo <= copied'[w] /\ copied'[w] <= given'[w]
        /\ given'[w] <= bucket'[w].hi + 1
        /\ Len(loaded'[w]) = copied'[w] - 1
        /\ \A i \in 1 .. Len(loaded'[w]) : loaded'[w][i] = i
    <3>1. bucket[w].lo <= copied[w] /\ given[w] <= bucket[w].hi + 1
      BY <1>2 DEF LoadInv
    <3>2. bucket'[w] = bucket[w] /\ given'[w] = given[w]
      BY <1>5
    <3>3. Len(loaded'[w]) = copied'[w] - 1
      BY <1>1, <1>4, <2>2
    <3>4. \A i \in 1 .. Len(loaded'[w]) : loaded'[w][i] = i
      BY <2>2
    <3>5. bucket[w].lo <= copied[w] + 1 /\ copied[w] + 1 <= given[w]
      BY <1>1, <1>4, <3>1
    <3> QED BY <1>4, <3>1, <3>2, <3>3, <3>4, <3>5
  <2>4. UNCHANGED <<rpc, given, bucket, last, incoming, sizes>>
    BY <1>5
  <2> QED BY <1>2, <2>3, <2>4 DEF LoadInv, Count
<1>7. ASSUME NEW r \in Receivers \ {w} PROVE LoadInv(r)'
  BY <1>5 DEF StateInv, LoadInv, Count
<1> QED BY <1>5, <1>6, <1>7, QuietStep

LEMMA ReadMetaStep ==
  ASSUME TypeOK, StateInv, NEW w \in Receivers, ReadMeta(w)
  PROVE  StateInv'
<1>1. LinkInv(w, Source(w)) /\ LoadInv(w) /\ Source(w) \in Ranks
  BY Topology DEF StateInv
<1>2. incoming[w] = "meta" /\ inbox[w] = <<offer[Source(w)]>> /\ w \in readers[Source(w)]
  BY <1>1 DEF ReadMeta, LinkInv
<1>3. Head(inbox[w]) = offer[Source(w)] /\ Tail(inbox[w]) = <<>>
  BY <1>2
<1>4. /\ meta'[w] = offer[Source(w)] /\ inbox'[w] = <<>> /\ incoming'[w] = "data"
      /\ \A r \in Receivers \ {w} :
           meta'[r] = meta[r] /\ inbox'[r] = inbox[r] /\ incoming'[r] = incoming[r]
      /\ UNCHANGED <<engine, sizes, offset, spc, buf, cur, bucket, offer, readers, last, rpc,
                     copied, given, loaded>>
  <2>1. /\ meta \in [Receivers -> Message] /\ inbox \in [Receivers -> Seq(Message)]
        /\ incoming \in [Receivers -> {"meta", "data", "done"}]
    BY DEF TypeOK, Message
  <2> QED BY <1>3, <2>1 DEF ReadMeta, setup, sender
<1>5. ASSUME NEW s \in Ranks PROVE OfferInv(s)'
  BY <1>4 DEF StateInv, OfferInv, Chunk, Count, Targets
<1>6. SenderInv'
  BY <1>4 DEF StateInv, SenderInv, Chunk, Range, Count
<1>7. ~last[w]
  BY <1>1, <1>2 DEF LoadInv
<1>8. ASSUME NEW r \in Receivers PROVE LinkInv(r, Source(r))' /\ BufferInv(r)' /\ LoadInv(r)'
  <2>1. Source(r)' = Source(r)
    BY <1>4 DEF Source
  <2>2. Got(r)' = Got(r) /\ Holds(r)' = Holds(r)
    BY <1>2, <1>4 DEF Got, Holds
  <2>3. LinkInv(r, Source(r))
    BY DEF StateInv
  <2>4. LinkInv(r, Source(r))'
    BY <1>2, <1>4, <2>1, <2>2, <2>3 DEF LinkInv, Range
  <2>5. BufferInv(r)'
    BY <1>2, <1>4 DEF StateInv, BufferInv, Chunk, Count, Range, Holds
  <2>6. LoadInv(r)'
    BY <1>4, <1>7 DEF StateInv, LoadInv, Count
  <2> QED BY <2>4, <2>5, <2>6
<1> QED BY <1>5, <1>6, <1>8, Topology DEF StateInv

\* What is read is the offer, intact; recv_buf is offered to nobody.
LEMMA ReadDataStep ==
  ASSUME TypeOK, StateInv, NEW w \in Receivers, ReadData(w)
  PROVE  StateInv'
<1> DEFINE p == Source(w)
<1>1. p \in Ranks /\ p # w /\ w \in Ranks /\ w # 0 /\ cur[w] \in {0, 1} /\ 1 - cur[w] \in {0, 1}
  BY Topology, Types
<1>2. LinkInv(w, p) /\ LoadInv(w) /\ BufferInv(w) /\ OfferInv(p)
  BY <1>1 DEF StateInv
<1>3. /\ incoming[w] = "data" /\ meta[w] = offer[p] /\ w \in readers[p] /\ inbox[w] = <<>>
      /\ ~last[w]
  BY <1>2 DEF ReadData, LinkInv, LoadInv
<1>4. /\ incoming'[w] = "done"
      /\ \A r \in Receivers \ {w} : incoming'[r] = incoming[r]
      /\ readers'[p] = readers[p] \ {w}
      /\ \A s \in Ranks \ {p} : readers'[s] = readers[s]
      /\ buf'[w][1 - cur[w]] = buf[p][meta[w].b]
      /\ buf'[w][cur[w]] = buf[w][cur[w]]
      /\ \A s \in Ranks \ {w} : buf'[s] = buf[s]
  <2>1. /\ buf \in [Ranks -> [{0, 1} -> SUBSET Nat]]
        /\ readers \in [Ranks -> SUBSET Receivers]
        /\ incoming \in [Receivers -> {"meta", "data", "done"}]
    BY DEF TypeOK
  <2>2. 1 - cur[w] # cur[w]
    BY <1>1, Types
  <2> HIDE DEF p
  <2>3. /\ buf' = [buf EXCEPT ![w][1 - cur[w]] = buf[p][meta[w].b]]
        /\ readers' = [readers EXCEPT ![p] = @ \ {w}]
        /\ incoming' = [incoming EXCEPT ![w] = "done"]
    BY DEF ReadData, p
  <2> QED BY <1>1, <2>1, <2>2, <2>3
<1>5. UNCHANGED <<engine, sizes, offset, spc, cur, bucket, offer, inbox, meta, last, rpc,
                  copied, given, loaded>>
  BY DEF ReadData, setup, sender
<1>6. ASSUME NEW s \in Ranks PROVE OfferInv(s)'
  <2>1. OfferInv(s) /\ readers'[s] \subseteq readers[s] /\ Targets(s)' = Targets(s)
    BY <1>4, <1>5 DEF StateInv, Targets
  <2> QED BY <1>5, <2>1 DEF OfferInv, Chunk, Count
<1>7. SenderInv'
  <2>1. 0 \in Ranks /\ readers'[0] \subseteq readers[0] /\ buf'[0] = buf[0]
    BY <1>1, <1>4, Topology
  <2> QED BY <1>5, <2>1 DEF StateInv, SenderInv, Chunk, Range, Count
<1>8. Got(w) = bucket[w].hi /\ Holds(w)' /\ Got(w)' = meta[w].hi
  BY <1>3, <1>4, <1>5 DEF Got, Holds
<1>9. ASSUME NEW r \in Receivers PROVE LinkInv(r, Source(r))'
  <2>1. Source(r)' = Source(r) /\ Source(r) \in Ranks
    BY <1>5, Topology DEF Source
  <2>2. CASE r = w
    <3>1. w \notin readers'[p] /\ offer'[p].hi = Got(w)' /\ inbox'[w] = <<>>
      BY <1>3, <1>4, <1>5, <1>8
    <3> QED BY <1>4, <2>1, <2>2, <3>1 DEF LinkInv
  <2>3. CASE r # w
    <3>1. /\ r \in readers'[Source(r)] <=> r \in readers[Source(r)]
          /\ Got(r)' = Got(r) /\ incoming'[r] = incoming[r]
      BY <1>4, <1>5, <2>1, <2>3 DEF Got, Holds
    <3>2. r \in readers[Source(r)] =>
            buf'[Source(r)][offer[Source(r)].b] = buf[Source(r)][offer[Source(r)].b]
      <4>1. CASE Source(r) # w
        BY <1>4, <2>1, <4>1
      <4>2. CASE Source(r) = w /\ r \in readers[w]
        <5>1. offer[w].b = cur[w]
          BY <1>2, <4>2 DEF BufferInv
        <5> QED BY <1>4, <4>2, <5>1
      <4> QED BY <4>1, <4>2
    <3>3. LinkInv(r, Source(r))
      BY DEF StateInv
    <3> QED BY <1>5, <2>1, <3>1, <3>2, <3>3 DEF LinkInv, Range
  <2> QED BY <2>2, <2>3
<1>10. ASSUME NEW r \in Receivers PROVE BufferInv(r)'
  <2>1. BufferInv(r) /\ r \in Ranks
    BY Topology DEF StateInv
  <2>2. readers'[r] \subseteq readers[r]
    BY <1>4, <2>1
  <2>3. CASE r = w
    <3>1. /\ Range(meta[w]) \subseteq buf'[w][1 - cur[w]]
          /\ meta[w].lo = bucket[w].hi + 1
      BY <1>2, <1>3, <1>4, <1>8 DEF LinkInv, Range
    <3>2. Chunk(meta[w]) /\ (meta[w].last => meta[w].hi = Count)
      BY <1>2, <1>3 DEF OfferInv
    <3>3. Range(bucket[w]) \subseteq buf'[w][cur[w]]
      BY <1>2, <1>4 DEF BufferInv
    <3> QED BY <1>2, <1>5, <2>2, <2>3, <3>1, <3>2, <3>3 DEF BufferInv, Chunk, Count, Range
  <2>4. CASE r # w
    <3>1. buf'[r] = buf[r] /\ Holds(r)' = Holds(r)
      BY <1>4, <1>5, <2>1, <2>4 DEF Holds
    <3> QED BY <1>5, <2>1, <2>2, <3>1 DEF BufferInv, Chunk, Count, Range
  <2> QED BY <2>3, <2>4
<1>11. ASSUME NEW r \in Receivers PROVE LoadInv(r)'
  BY <1>3, <1>4, <1>5 DEF StateInv, LoadInv, Count
<1> QED BY <1>6, <1>7, <1>9, <1>10, <1>11, Topology DEF StateInv

\* The buffers change roles once the copies out of send_buf are over and the
\* next rank has read it.
LEMMA SwapStep ==
  ASSUME TypeOK, StateInv, NEW w \in Receivers, Swap(w)
  PROVE  StateInv'
<1> DEFINE k == [lo |-> meta[w].lo, hi |-> meta[w].hi]
<1>1. /\ w \in Ranks /\ w # 0 /\ cur[w] \in {0, 1} /\ 1 - cur[w] \in {0, 1}
      /\ 1 - (1 - cur[w]) = cur[w]
      /\ meta[w].lo \in Nat /\ meta[w].hi \in Nat /\ meta[w].last \in BOOLEAN
      /\ bucket[w].hi \in Nat /\ copied[w] \in Nat
      /\ k \in Extent /\ k.lo = meta[w].lo /\ k.hi = meta[w].hi
  BY Topology, Types DEF Extent
<1>2. LinkInv(w, Source(w)) /\ LoadInv(w) /\ BufferInv(w) /\ OfferInv(w)
  BY <1>1 DEF StateInv
<1>3. /\ rpc[w] \in {"first", "wait"} /\ incoming[w] = "done" /\ OfferTaken(w)
      /\ copied[w] = given[w] /\ ~last[w] /\ Holds(w)
      /\ copied[w] = bucket[w].hi + 1
  BY <1>2 DEF Swap, Arrived, Synchronized, LoadInv, Holds
<1>4. /\ Chunk(meta[w]) /\ (meta[w].last => meta[w].hi = Count)
      /\ meta[w].lo = bucket[w].hi + 1
      /\ Range(meta[w]) \subseteq buf[w][1 - cur[w]]
  BY <1>2, <1>3 DEF BufferInv
<1> HIDE DEF k
<1>5. /\ cur'[w] = 1 - cur[w] /\ bucket'[w] = k /\ last'[w] = meta[w].last
      /\ incoming'[w] = IF meta[w].last THEN "done" ELSE "meta"
      /\ rpc'[w] = "yield" /\ copied'[w] = meta[w].lo /\ given'[w] = meta[w].lo
      /\ \A s \in Ranks \ {w} : cur'[s] = cur[s] /\ bucket'[s] = bucket[s]
      /\ \A r \in Receivers \ {w} :
           /\ last'[r] = last[r] /\ incoming'[r] = incoming[r] /\ rpc'[r] = rpc[r]
           /\ copied'[r] = copied[r] /\ given'[r] = given[r]
      /\ UNCHANGED <<engine, sizes, offset, spc, buf, meta, loaded>>
  <2>1. /\ cur \in [Ranks -> {0, 1}] /\ bucket \in [Ranks -> Extent]
        /\ last \in [Receivers -> BOOLEAN]
        /\ incoming \in [Receivers -> {"meta", "data", "done"}]
        /\ rpc \in [Receivers -> {"first", "yield", "wait", "drain", "done"}]
        /\ copied \in [Receivers -> Nat] /\ given \in [Receivers -> Nat]
    BY DEF TypeOK, Extent
  <2>2. /\ cur' = [cur EXCEPT ![w] = 1 - @]
        /\ bucket' = [bucket EXCEPT ![w] = k]
        /\ last' = [last EXCEPT ![w] = meta[w].last]
        /\ incoming' = [incoming EXCEPT ![w] = IF meta[w].last THEN "done" ELSE "meta"]
        /\ rpc' = [rpc EXCEPT ![w] = "yield"]
        /\ copied' = [copied EXCEPT ![w] = meta[w].lo]
        /\ given' = [given EXCEPT ![w] = meta[w].lo]
        /\ UNCHANGED <<engine, sizes, offset, spc, buf, meta, loaded>>
    BY DEF Swap, k, setup, sender
  <2> QED BY <1>1, <2>1, <2>2
<1>6. engine = "nixl" => Offer(w, 1 - cur[w], k, meta[w].last)
  BY DEF Swap, k
<1>7. engine # "nixl" => UNCHANGED <<offer, readers, inbox>>
  BY DEF Swap
<1>8. /\ \A s \in Ranks \ {w} : offer'[s] = offer[s] /\ readers'[s] = readers[s]
      /\ \A r \in Receivers : Source(r) # w => inbox'[r] = inbox[r]
  BY <1>1, <1>6, <1>7, OfferFrame
<1>9. engine = "nixl" =>
        /\ offer'[w].b = 1 - cur[w] /\ offer'[w].lo = meta[w].lo /\ offer'[w].hi = meta[w].hi
        /\ offer'[w].last = meta[w].last
        /\ readers'[w] = Targets(w)
  <2>1. engine = "nixl" =>
          /\ offer'[w] = [b |-> 1 - cur[w], lo |-> k.lo, hi |-> k.hi, last |-> meta[w].last]
          /\ readers'[w] = Targets(w)
    BY <1>1, <1>6, OfferFrame
  <2> QED BY <1>1, <2>1
<1>10. Got(w)' = Got(w) /\ ~Holds(w)'
  BY <1>1, <1>3, <1>5 DEF Got, Holds
<1>11. ASSUME NEW s \in Ranks PROVE OfferInv(s)'
  <2>1. OfferInv(s) /\ Targets(s)' = Targets(s) /\ Count' = Count
    BY <1>5 DEF StateInv, Targets, Count
  <2>2. CASE s # w
    BY <1>8, <2>1, <2>2 DEF OfferInv, Chunk
  <2>3. CASE s = w /\ engine = "nixl"
    BY <1>4, <1>9, <2>1, <2>3 DEF OfferInv, Chunk
  <2>4. CASE engine # "nixl"
    BY <1>7, <2>1, <2>4 DEF OfferInv, Chunk
  <2> QED BY <2>2, <2>3, <2>4
<1>12. SenderInv'
  <2>1. 0 \in Ranks \ {w}
    BY <1>1, Topology
  <2>2. /\ offer'[0] = offer[0] /\ readers'[0] = readers[0]
        /\ cur'[0] = cur[0] /\ bucket'[0] = bucket[0]
    BY <1>5, <1>8, <2>1
  <2> QED BY <1>5, <2>2 DEF StateInv, SenderInv, Chunk, Range, Count
<1>13. ASSUME NEW r \in Receivers PROVE LinkInv(r, Source(r))'
  <2>1. Source(r)' = Source(r) /\ Source(r) \in Ranks
    BY <1>5, Topology DEF Source
  <2>2. CASE r = w
    <3>1. Source(w) # w
      BY Topology
    <3>2. inbox'[w] = inbox[w] /\ offer'[Source(w)] = offer[Source(w)]
          /\ readers'[Source(w)] = readers[Source(w)]
      BY <1>8, <2>1, <2>2, <3>1
    <3>3. incoming'[w] # "data"
      BY <1>5
    <3> QED BY <1>2, <1>3, <1>5, <1>10, <2>1, <2>2, <3>2, <3>3 DEF LinkInv, Range
  <2>3. CASE r # w
    <3>1. incoming'[r] = incoming[r] /\ meta'[r] = meta[r] /\ Got(r)' = Got(r)
      BY <1>5, <2>3, Topology DEF Got, Holds
    <3>2. CASE Source(r) # w
      BY <1>5, <1>8, <2>1, <3>1, <3>2, SameLink
    <3>3. CASE Source(r) = w /\ engine = "nixl"
      <4>1. offer[w].hi = bucket[w].hi
        BY <1>2, <3>3 DEF BufferInv
      <4>2. k.lo = offer[w].hi + 1 /\ Range(k) \subseteq buf'[w][1 - cur[w]]
        BY <1>1, <1>4, <1>5, <4>1 DEF Range
      <4> QED BY <1>1, <1>3, <1>5, <1>6, <3>1, <3>3, <4>2, OfferLink
    <3>4. CASE Source(r) = w /\ engine # "nixl"
      BY <1>5, <1>7, <3>1, <3>4, SameLink
    <3> QED BY <3>2, <3>3, <3>4
  <2> QED BY <2>2, <2>3
<1>14. ASSUME NEW r \in Receivers PROVE BufferInv(r)'
  <2>1. BufferInv(r) /\ r \in Ranks
    BY Topology DEF StateInv
  <2>2. CASE r = w
    <3>1. Chunk(bucket[w])' /\ Range(bucket[w])' \subseteq buf'[w][cur'[w]]
      BY <1>1, <1>4, <1>5 DEF Chunk, Range, Count
    <3>2. engine = "nixl" => offer'[w].hi = bucket'[w].hi /\ offer'[w].b = cur'[w]
      BY <1>1, <1>5, <1>9
    <3>3. engine # "nixl" => readers'[w] = {}
      BY <1>3, <1>7 DEF OfferTaken
    <3> QED BY <1>5, <1>10, <2>2, <3>1, <3>2, <3>3 DEF BufferInv
  <2>3. CASE r # w
    <3>1. Holds(r)' = Holds(r) /\ offer'[r] = offer[r] /\ readers'[r] = readers[r]
          /\ cur'[r] = cur[r] /\ bucket'[r] = bucket[r]
      BY <1>5, <1>8, <2>1, <2>3 DEF Holds
    <3> QED BY <1>5, <2>1, <3>1 DEF BufferInv, Chunk, Range, Count
  <2> QED BY <2>2, <2>3
<1>15. ASSUME NEW r \in Receivers PROVE LoadInv(r)'
  <2>1. LoadInv(r) /\ Count' = Count
    BY <1>5 DEF StateInv, Count
  <2>2. CASE r = w
    <3>1. /\ bucket'[w].lo = meta[w].lo /\ bucket'[w].hi = meta[w].hi
          /\ meta[w].lo <= meta[w].hi + 1 /\ meta[w].lo = copied[w]
      BY <1>1, <1>3, <1>4, <1>5 DEF Chunk
    <3>2. Len(loaded[w]) = copied[w] - 1 /\ \A i \in 1 .. Len(loaded[w]) : loaded[w][i] = i
      BY <1>2 DEF LoadInv
    <3> QED BY <1>1, <1>4, <1>5, <2>1, <2>2, <3>1, <3>2 DEF LoadInv
  <2>3. CASE r # w
    BY <1>5, <2>1, <2>3, Topology DEF LoadInv
  <2> QED BY <2>2, <2>3
<1> QED BY <1>11, <1>12, <1>13, <1>14, <1>15, Topology DEF StateInv

LEMMA StateStep ==
  ASSUME TypeOK, StateInv, [Next]_vars
  PROVE  StateInv'
<1>1. CASE Sender
  BY <1>1, FillStep, BucketFullStep, LastBucketStep, SendDoneStep DEF Sender
<1>2. ASSUME NEW r \in Receivers, Receive(r) PROVE StateInv'
  BY <1>2, SubscribeStep, ReadMetaStep, ReadDataStep, SwapStep, YieldStep, CopyStep
  DEF Receive
<1>3. CASE UNCHANGED vars
  <2>1. UNCHANGED <<engine, sizes, buf, cur, bucket, offer, readers, inbox, incoming, meta,
                    last, rpc, copied, given, loaded, spc, offset>>
    BY <1>3 DEF vars, setup, sender, receiver
  <2>2. ASSUME NEW r \in Receivers PROVE LoadInv(r)'
    BY <2>1 DEF StateInv, LoadInv, Count
  <2> QED BY <2>1, <2>2, QuietStep
<1> QED BY <1>1, <1>2, <1>3 DEF Next

\* Sender, links, buffers and workers of both engines agree as StateInv says:
\* a buffer holds the bucket its readers expect until the last has read it.
THEOREM TransferTheorem == Spec => [](TypeOK /\ StateInv)
<1>1. Init => TypeOK /\ StateInv
  BY TypeInit, StateInit
<1>2. TypeOK /\ StateInv /\ [Next]_vars => (TypeOK /\ StateInv)'
  BY TypeStep, StateStep
<1> QED BY <1>1, <1>2, PTL DEF Spec

----------------------------------------------------------------------------
\* With any number of workers and whatever the sizes of the weights, no worker
\* ever copies a tensor from a buffer that was refilled under it, and none
\* misses, repeats or reorders a weight.
THEOREM LoadedInOrderTheorem == Spec => []LoadedInOrder
<1>1. StateInv => LoadedInOrder
  BY DEF StateInv, LoadInv, LoadedInOrder
<1> QED BY <1>1, TransferTheorem, PTL

\* The engines implement the abstract stream of weights: each step of theirs
\* hands one worker its next weight, is a worker's copy of the next one it was
\* handed, ends a generator that has handed out all, or changes nothing that
\* the callers see. In particular the buffers of a worker that has ended stay
\* intact until the last copy.
THEOREM WeightStreamTheorem == Spec => ImplementsWeightStream
<1> DEFINE Finished == {r \in Receivers : rpc[r] = "done"}
           Handed == [r \in Receivers |-> given[r] - 1]
<1> USE DEF Stream!vars, Stream!Next, Stream!Hand, Stream!Load, Stream!Finish
<1>1. Init => Stream!Init
  <2> SUFFICES ASSUME Init PROVE Stream!Init
    OBVIOUS
  <2>1. Count \in Nat
    BY TypeInit, Types
  <2>2. Handed = [r \in Receivers |-> 0]
    BY DEF Init
  <2> QED BY <2>1, <2>2 DEF Init, Stream!Init
<1>2. TypeOK /\ StateInv /\ [Next]_vars => [Stream!Next]_(Stream!vars)
  <2> SUFFICES ASSUME TypeOK, StateInv, [Next]_vars PROVE [Stream!Next]_(Stream!vars)
    OBVIOUS
  <2>1. CASE UNCHANGED <<sizes, loaded, rpc, given>>
    BY <2>1 DEF Count
  <2>2. CASE Sender \/ UNCHANGED vars
    <3>1. UNCHANGED <<sizes, loaded, rpc, given>>
      BY <2>2 DEF Sender, Fill, BucketFull, LastBucket, SendDone, receiver, vars, sender
    <3> QED BY <2>1, <3>1
  <2>3. ASSUME NEW w \in Receivers, Receive(w) PROVE [Stream!Next]_(Stream!vars)
    <3>1. /\ rpc \in [Receivers -> {"first", "yield", "wait", "drain", "done"}]
          /\ loaded \in [Receivers -> Seq(Nat)]
          /\ given \in [Receivers -> Nat]
          /\ copied[w] \in Nat /\ given[w] \in Nat /\ bucket[w].hi \in Nat /\ Count \in Nat
          /\ loaded[w] \in Seq(Nat)
      BY Topology, Types DEF TypeOK
    <3>2. LoadInv(w) /\ BufferInv(w)
      BY DEF StateInv
    <3>3. CASE Subscribe(w) \/ ReadMeta(w) \/ ReadData(w)
      BY <2>1, <3>3 DEF Subscribe, ReadMeta, ReadData, sender, receiver
    <3>4. CASE Swap(w) \/ YieldEnd(w)
      <4>1. rpc[w] # "done" /\ rpc'[w] # "done"
        BY <3>1, <3>4 DEF Swap, Arrived, YieldEnd
      <4>2. \A r \in Receivers \ {w} : rpc'[r] = rpc[r]
        BY <3>1, <3>4 DEF Swap, YieldEnd
      <4>3. UNCHANGED <<sizes, loaded>>
        BY <3>4 DEF Swap, YieldEnd, sender
      <4>4. Finished' = Finished
        BY <4>1, <4>2
      <4>5. given' = given
        <5>1. CASE Swap(w)
          <6>1. given[w] = bucket[w].hi + 1 /\ Holds(w)
            BY <3>2, <5>1 DEF Swap, Arrived, LoadInv, Holds
          <6>2. meta[w].lo = given[w]
            BY <3>2, <6>1 DEF BufferInv
          <6>3. given' = [given EXCEPT ![w] = meta[w].lo]
            BY <5>1 DEF Swap
          <6> QED BY <3>1, <6>2, <6>3
        <5>2. CASE YieldEnd(w)
          BY <5>2 DEF YieldEnd
        <5> QED BY <3>4, <5>1, <5>2
      <4> QED BY <4>3, <4>4, <4>5 DEF Count
    <3>5. CASE Yield(w)
      <4>1. /\ given[w] <= bucket[w].hi /\ given' = [given EXCEPT ![w] = given[w] + 1]
            /\ UNCHANGED <<sizes, loaded, rpc>>
        BY <3>1, <3>5 DEF Yield, Exhausted, sender
      <4>2. Handed[w] < Count
        BY <3>1, <3>2, <4>1 DEF BufferInv, Chunk
      <4>3. Handed' = [Handed EXCEPT ![w] = @ + 1]
        <5>1. /\ given'[w] - 1 = Handed[w] + 1
              /\ \A r \in Receivers \ {w} : given'[r] - 1 = Handed[r]
          BY <3>1, <4>1
        <5>2. /\ DOMAIN Handed = Receivers
              /\ Handed' = [r \in Receivers |-> given'[r] - 1]
          OBVIOUS
        <5> HIDE DEF Handed
        <5> QED BY <5>1, <5>2
      <4>4. Stream!Hand(w)
        BY <4>1, <4>2, <4>3 DEF Count
      <4> QED BY <4>4
    <3>6. CASE Copy(w)
      <4>1. copied[w] < given[w] /\ UNCHANGED <<sizes, rpc, given>>
        BY <3>6 DEF Copy, sender
      <4>2. Len(loaded[w]) = copied[w] - 1 /\ Len(loaded[w]) < Handed[w]
        BY <3>1, <3>2, <4>1 DEF LoadInv
      <4>3. copied[w] \in buf[w][cur[w]]
        <5>1. /\ bucket[w].lo <= copied[w] /\ given[w] <= bucket[w].hi + 1
              /\ Range(bucket[w]) \subseteq buf[w][cur[w]] /\ bucket[w].lo \in Nat
          BY <3>2, Topology, Types DEF LoadInv, BufferInv
        <5>2. copied[w] \in Range(bucket[w])
          BY <3>1, <4>1, <5>1 DEF Range
        <5> QED BY <5>1, <5>2
      <4>4. loaded' = [loaded EXCEPT ![w] = Append(@, Len(@) + 1)]
        <5>1. loaded' = [loaded EXCEPT ![w] = Append(loaded[w], copied[w])]
          BY <3>6, <4>3 DEF Copy
        <5>2. copied[w] = Len(loaded[w]) + 1
          BY <3>1, <4>2
        <5> QED BY <5>1, <5>2
      <4>5. Stream!Load(w)
        BY <4>1, <4>2, <4>4 DEF Count
      <4> QED BY <4>5
    <3>7. CASE ReceiveDone(w)
      <4>1. /\ rpc[w] = "drain" /\ rpc' = [rpc EXCEPT ![w] = "done"]
            /\ UNCHANGED <<sizes, loaded, given>>
        BY <3>7 DEF ReceiveDone, sender
      <4>2. Handed[w] = Count
        BY <3>1, <3>2, <4>1 DEF LoadInv
      <4>3. Finished' = Finished \cup {w}
        BY <3>1, <4>1
      <4>4. Stream!Finish(w)
        BY <4>1, <4>2, <4>3 DEF Count
      <4> QED BY <4>4
    <3> QED BY <2>3, <3>3, <3>4, <3>5, <3>6, <3>7 DEF Receive
  <2> QED BY <2>2, <2>3 DEF Next
<1> QED BY <1>1, <1>2, TransferTheorem, PTL DEF Spec, Stream!Spec, ImplementsWeightStream

=============================================================================
