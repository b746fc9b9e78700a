---------------------------- MODULE WeightTransfer ----------------------------
(***************************************************************************)
(* The checkpoint engines that move the weights of the trainer (rank 0) to *)
(* the rollout workers (ranks 1..N): nccl_checkpoint_engine.py broadcasts  *)
(* each bucket from rank 0 to all; in nixl_checkpoint_engine.py each rank  *)
(* reads from the rank before it and offers what it read to the next one.  *)
(*                                                                         *)
(* A rank has two buffers. While one is being read by others the other is  *)
(* filled, and they change roles. Tensors are handed out as views of a     *)
(* buffer and copied from it later, so a buffer that is reused too early   *)
(* corrupts weights without an error.                                      *)
(*                                                                         *)
(* A weight is its number. A buffer is the set of the weights whose bytes  *)
(* are intact in it; the first write of a new bucket goes to offset 0 and  *)
(* is taken to destroy all that the buffer held.                           *)
(***************************************************************************)
EXTENDS Integers, Sequences

CONSTANTS
  N,            \* rollout workers, their ranks are 1..N
  BucketSize,
  Models,       \* sequences of weight sizes the trainer may have
  SlowJoin      \* BOOLEAN: sending may begin before every subscription is known

ASSUME WorkersAssumption == N \in Nat \ {0}
ASSUME BucketAssumption == BucketSize \in Nat
ASSUME ModelsAssumption == Models \subseteq Seq(Nat \ {0})
ASSUME SlowJoinAssumption == SlowJoin \in BOOLEAN

Receivers == 1 .. N
Ranks == 0 .. N
Broken == 0     \* a tensor copied from a buffer that no longer holds it

VARIABLES
  engine,      \* "nccl" or "nixl", the registered backend
  sizes,       \* bytes of each weight
  subscribed,  \* workers whose zmq subscription the publisher knows
  buf,         \* per rank, the contents of its two buffers
  cur,         \* per rank, which of them is its send_buf
  bucket,      \* per rank, the weights lo..hi of the bucket in send_buf
  offset,      \* rank 0: bytes written to send_buf
  spc,         \* rank 0: "fill", "last" (waits for the last bucket), "done", "failed"
  offer,       \* per rank, the bucket others may read from it: [b, lo, hi, last]
  readers,     \* per rank, the ranks that have still to read its offer
  inbox,       \* per worker, metadata sent to it and not read yet
  incoming,    \* per worker, "meta", "data", "done" of its read or broadcast
  meta,        \* per worker, the metadata it read last
  last,        \* per worker, the bucket in send_buf is the last one
  rpc,         \* per worker, "first", "yield", "wait", "drain", "done"; copies may follow
  copied,      \* per worker, the next tensor of the bucket to be copied
  given,       \* per worker, the next tensor of the bucket to be yielded
  loaded       \* per worker, what was copied out of its buffers

sender == <<sizes, offset, spc>>
setup == <<engine, subscribed>>
receiver == <<incoming, meta, last, rpc, copied, given, loaded>>
vars == <<setup, sender, buf, cur, bucket, offer, readers, inbox, receiver>>

Count == Len(sizes)
Fits(w) == offset + sizes[w] <= BucketSize

\* Who reads from rank s, and from whom worker r reads.
Targets(s) ==
  IF engine = "nccl" THEN IF s = 0 THEN Receivers ELSE {}
  ELSE {r \in Receivers : r = s + 1}
Source(r) == IF engine = "nccl" THEN 0 ELSE r - 1

\* Published metadata is dropped for a worker that is not subscribed yet; a
\* message from agent to agent is queued.
Reached(s) == IF engine = "nccl" THEN Targets(s) \cap subscribed ELSE Targets(s)

Empty(lo) == [lo |-> lo, hi |-> lo - 1]
NoOffer == [b |-> 0, lo |-> 1, hi |-> 0, last |-> FALSE]

Init ==
  /\ engine \in {"nccl", "nixl"}
  /\ sizes \in Models
  /\ subscribed = IF engine = "nixl" THEN Receivers ELSE {}
  /\ buf = [s \in Ranks |-> [b \in {0, 1} |-> {}]]
  /\ cur = [s \in Ranks |-> 0]
  /\ bucket = [s \in Ranks |-> Empty(1)]
  /\ offset = 0
  /\ spc = "fill"
  /\ offer = [s \in Ranks |-> NoOffer]
  /\ readers = [s \in Ranks |-> {}]
  /\ inbox = [r \in Receivers |-> <<>>]
  /\ incoming = [r \in Receivers |-> "meta"]
  /\ meta = [r \in Receivers |-> NoOffer]
  /\ last = [r \in Receivers |-> FALSE]
  /\ rpc = [r \in Receivers |-> "first"]
  /\ copied = [r \in Receivers |-> 1]
  /\ given = [r \in Receivers |-> 1]
  /\ loaded = [r \in Receivers |-> <<>>]

Subscribe(r) ==
  /\ subscribed' = subscribed \cup {r}
  /\ subscribed' # subscribed
  /\ UNCHANGED <<engine, sender, buf, cur, bucket, offer, readers, inbox, receiver>>

\* BroadcastOperation of rank 0, or ReadableOperation: rank s offers the
\* weights of bucket k in its buffer b.
Offer(s, b, k, isLast) ==
  LET o == [b |-> b, lo |-> k.lo, hi |-> k.hi, last |-> isLast] IN
    /\ offer' = [offer EXCEPT ![s] = o]
    /\ readers' = [readers EXCEPT ![s] = Targets(s)]
    /\ inbox' = [r \in Receivers |->
                   IF r \in Reached(s) THEN Append(inbox[r], o) ELSE inbox[r]]

\* wait_for_complete of the operation of rank s.
OfferTaken(s) == readers[s] = {}

(***************************************************************************)
(* send_weights                                                            *)
(***************************************************************************)

Fill ==
  LET w == bucket[0].hi + 1
      held == IF offset = 0 THEN {} ELSE buf[0][cur[0]]
  IN /\ spc = "fill"
     /\ w <= Count
     /\ Fits(w)
     /\ buf' = [buf EXCEPT ![0][cur[0]] = held \cup {w}]
     /\ bucket' = [bucket EXCEPT ![0].hi = w]
     /\ offset' = offset + sizes[w]
     /\ UNCHANGED <<setup, sizes, spc, cur, offer, readers, inbox, receiver>>

\* The next weight does not fit. A weight larger than a whole bucket fails the
\* assertion after the bucket before it has been sent.
BucketFull ==
  LET w == bucket[0].hi + 1 IN
    /\ spc = "fill"
    /\ w <= Count
    /\ ~Fits(w)
    /\ OfferTaken(0)
    /\ Offer(0, cur[0], bucket[0], FALSE)
    /\ cur' = [cur EXCEPT ![0] = 1 - @]
    /\ bucket' = [bucket EXCEPT ![0] = Empty(w)]
    /\ offset' = 0
    /\ spc' = IF sizes[w] > BucketSize THEN "failed" ELSE "fill"
    /\ UNCHANGED <<setup, sizes, buf, receiver>>

MutUnmarked == Offer(0, cur[0], bucket[0], FALSE)
OfferLast == Offer(0, cur[0], bucket[0], TRUE)

LastBucket ==
  /\ spc = "fill"
  /\ bucket[0].hi = Count
  /\ OfferTaken(0)
  /\ OfferLast
  /\ spc' = "last"
  /\ UNCHANGED <<setup, sizes, offset, buf, cur, bucket, receiver>>

SendDone ==
  /\ spc = "last"
  /\ OfferTaken(0)
  /\ spc' = "done"
  /\ UNCHANGED <<setup, sizes, offset, buf, cur, bucket, offer, readers, inbox, receiver>>

(***************************************************************************)
(* receive_weights                                                         *)
(***************************************************************************)

\* _run of the operation receives the metadata; read_metadata.
ReadMeta(r) ==
  /\ incoming[r] = "meta"
  /\ inbox[r] # <<>>
  /\ meta' = [meta EXCEPT ![r] = Head(inbox[r])]
  /\ inbox' = [inbox EXCEPT ![r] = Tail(@)]
  /\ incoming' = [incoming EXCEPT ![r] = "data"]
  /\ UNCHANGED <<setup, sender, buf, cur, bucket, offer, readers, last, rpc, copied, given,
                 loaded>>

\* The broadcast or the transfer: recv_buf becomes what the source's buffer
\* holds at that moment, and the source is notified.
ReadData(r) ==
  LET s == Source(r) IN
    /\ incoming[r] = "data"
    /\ buf' = [buf EXCEPT ![r][1 - cur[r]] = buf[s][meta[r].b]]
    /\ readers' = [readers EXCEPT ![s] = @ \ {r}]
    /\ incoming' = [incoming EXCEPT ![r] = "done"]
    /\ UNCHANGED <<setup, sender, cur, bucket, offer, inbox, meta, last, rpc, copied, given,
                   loaded>>

\* torch.cuda.synchronize(): the copies out of send_buf are over.
MutNoSynchronize(r) == TRUE
Synchronized(r) == copied[r] = given[r]

\* The bucket has arrived: swap the buffers, begin to receive the next one.
\* The nixl engine waits for its own reader before and offers the new bucket.
Arrived(r) ==
  /\ rpc[r] \in {"first", "wait"}
  /\ incoming[r] = "done"
  /\ OfferTaken(r)

Swap(r) ==
  LET k == [lo |-> meta[r].lo, hi |-> meta[r].hi] IN
    /\ Arrived(r)
    /\ Synchronized(r)
    /\ cur' = [cur EXCEPT ![r] = 1 - @]
    /\ bucket' = [bucket EXCEPT ![r] = k]
    /\ last' = [last EXCEPT ![r] = meta[r].last]
    /\ incoming' = [incoming EXCEPT ![r] = IF meta[r].last THEN "done" ELSE "meta"]
    /\ rpc' = [rpc EXCEPT ![r] = "yield"]
    /\ copied' = [copied EXCEPT ![r] = k.lo]
    /\ given' = [given EXCEPT ![r] = k.lo]
    /\ IF engine = "nixl" THEN Offer(r, 1 - cur[r], k, meta[r].last)
                          ELSE UNCHANGED <<offer, readers, inbox>>
    /\ UNCHANGED <<setup, sender, buf, meta, loaded>>

MutOneShort(r) == given[r] >= bucket[r].hi
Exhausted(r) == given[r] > bucket[r].hi

\* The nixl engine reads the next metadata before it hands out tensors.
Yield(r) ==
  /\ rpc[r] = "yield"
  /\ engine = "nixl" => incoming[r] # "meta"
  /\ ~Exhausted(r)
  /\ given' = [given EXCEPT ![r] = @ + 1]
  /\ UNCHANGED <<setup, sender, buf, cur, bucket, offer, readers, inbox, incoming, meta,
                 last, rpc, copied, loaded>>

YieldEnd(r) ==
  /\ rpc[r] = "yield"
  /\ engine = "nixl" => incoming[r] # "meta"
  /\ Exhausted(r)
  /\ rpc' = [rpc EXCEPT ![r] = IF last[r] THEN "drain" ELSE "wait"]
  /\ UNCHANGED <<setup, sender, buf, cur, bucket, offer, readers, inbox, incoming, meta,
                 last, copied, given, loaded>>

\* The rollout's copy of a tensor, which nothing waits for at the yield, nor at
\* the end of the generator.
Copy(r) ==
  LET w == copied[r] IN
    /\ w < given[r]
    /\ loaded' = [loaded EXCEPT ![r] = Append(@, IF w \in buf[r][cur[r]] THEN w ELSE Broken)]
    /\ copied' = [copied EXCEPT ![r] = w + 1]
    /\ UNCHANGED <<setup, sender, buf, cur, bucket, offer, readers, inbox, incoming, meta,
                   last, rpc, given>>

\* The generator ends: only the next rank is waited for, not the copies out of
\* the last bucket.
ReceiveDone(r) ==
  /\ rpc[r] = "drain"
  /\ OfferTaken(r)
  /\ rpc' = [rpc EXCEPT ![r] = "done"]
  /\ UNCHANGED <<setup, sender, buf, cur, bucket, offer, readers, inbox, incoming, meta,
                 last, copied, given, loaded>>

\* init_process_group connects before its barrier, but the barrier does not
\* wait until a subscription is known to the publisher.
Joined == SlowJoin \/ subscribed = Receivers

Sender == Joined /\ (Fill \/ BucketFull \/ LastBucket \/ SendDone)
Receive(r) ==
  \/ Subscribe(r) \/ ReadMeta(r) \/ ReadData(r) \/ Swap(r)
  \/ Yield(r) \/ YieldEnd(r) \/ Copy(r) \/ ReceiveDone(r)

Next == Sender \/ \E r \in Receivers : Receive(r)

Spec == Init /\ [][Next]_vars
FairSpec == Spec /\ WF_vars(Sender) /\ \A r \in Receivers : WF_vars(Receive(r))

-----------------------------------------------------------------------------
TypeOK ==
  /\ engine \in {"nccl", "nixl"}
  /\ sizes \in Seq(Nat \ {0})
  /\ subscribed \subseteq Receivers
  /\ buf \in [Ranks -> [{0, 1} -> SUBSET Nat]]
  /\ cur \in [Ranks -> {0, 1}]
  /\ bucket \in [Ranks -> [lo : Nat, hi : Nat]]
  /\ offset \in 0 .. BucketSize
  /\ spc \in {"fill", "last", "done", "failed"}
  /\ offer \in [Ranks -> [b : {0, 1}, lo : Nat, hi : Nat, last : BOOLEAN]]
  /\ readers \in [Ranks -> SUBSET Receivers]
  /\ inbox \in [Receivers -> Seq([b : {0, 1}, lo : Nat, hi : Nat, last : BOOLEAN])]
  /\ incoming \in [Receivers -> {"meta", "data", "done"}]
  /\ meta \in [Receivers -> [b : {0, 1}, lo : Nat, hi : Nat, last : BOOLEAN]]
  /\ last \in [Receivers -> BOOLEAN]
  /\ rpc \in [Receivers -> {"first", "yield", "wait", "drain", "done"}]
  /\ copied \in [Receivers -> Nat]
  /\ given \in [Receivers -> Nat]
  /\ loaded \in [Receivers -> Seq(Nat)]

\* No worker ever copies a tensor out of a buffer that was already refilled,
\* and none misses, repeats or reorders a weight: while the sender packs one
\* bucket, the next hop reads another and the rollout copies a third.
LoadedInOrder ==
  \A r \in Receivers : \A i \in 1 .. Len(loaded[r]) : loaded[r][i] = i

\* Every worker is handed all weights one by one in the order of the trainer and
\* only then ends (base.py), and what it copies, even after the end, is what it
\* was handed.
Stream == INSTANCE WeightStream WITH
            Workers <- Receivers, count <- Count,
            handed <- [r \in Receivers |-> given[r] - 1],
            finished <- {r \in Receivers : rpc[r] = "done"}
ImplementsWeightStream == Stream!Spec

\* No wait of one rank for another lasts forever when every weight fits a
\* bucket: all workers end, and have loaded all weights.
TransferEnds ==
  (\A i \in 1 .. Count : sizes[i] <= BucketSize) ~>
    /\ spc = "done"
    /\ \A r \in Receivers : rpc[r] = "done" /\ Len(loaded[r]) = Count

=============================================================================
