------------------------------ MODULE ECTransfer -------------------------------
(***************************************************************************)
(* The encoder-cache connector (rbln_ec_nixl_connector.py) between one      *)
(* encoder instance and one LLM instance, with the parts of the optimum     *)
(* scheduler and runner that drive it.                                      *)
(*                                                                          *)
(* The client sends every request to both.  The encoder encodes its image,  *)
(* registers the output with NIXL and pushes metadata; a receiver thread of *)
(* the LLM queues it and signals an event; the LLM's main thread drains the *)
(* queue, pulls the tensor and acknowledges, and the encoder then           *)
(* deregisters it.  The three threads and the two channels interleave.      *)
(*                                                                          *)
(* A registration is <<h, g>>: the g-th buffer of hash h.  A tensor is its  *)
(* registration, an agent's memory map the set of registrations it held     *)
(* when it was exported.  Timeouts and the TTL are open choices.            *)
(*                                                                          *)
(* The worker's request_finished is not part of the system: the scheduler   *)
(* calls it on the scheduler-side connector, which does not define it.      *)
(* Pings and liveness records only write log lines and are left out.        *)
(***************************************************************************)
EXTENDS Integers, FiniteSets, SequencesExt, Subsequences

CONSTANTS
    Hash,            \* mm_hashes
    HashOf,          \* HashOf[r]: the one item of the r-th request
    QueueMax,        \* metadata_queue_max
    AckMax,          \* ack_queue_max
    MaxPulls,        \* max_concurrent_pulls
    Capacity,        \* producer_cache_capacity
    Expires          \* whether an entry may reach producer_cache_ttl_s

ASSUME ECAssumption ==
    /\ HashOf \in Seq(Hash)
    /\ {QueueMax, AckMax, MaxPulls, Capacity} \subseteq Nat \ {0}
    /\ Expires \in BOOLEAN

(* Requests are numbered in the order in which the client sends them.        *)
Req == DOMAIN HashOf

VARIABLES
    encoded,     \* encoder: the number of requests it has run
    gen,         \* encoder: registrations of each hash so far
    live,        \* encoder: _registered_caches, oldest first
    inAcks,      \* encoder: _incoming_acks
    metaNet, ackNet,     \* the two PUSH/PULL channels
    recv,        \* receiver thread: what it does and the metadata it holds
    inMeta,      \* LLM: _incoming_metadata
    events, evtSet,      \* LLM: hashes with a _cache_events entry; the set ones
    registry,    \* LLM: _tensor_registry, the generation or 0
    view,        \* LLM: the encoder's memory map NIXL knows (_remote_agents)
    acked,       \* LLM: _ack_sent
    deferred,    \* LLM: _deferred_loads
    pending,     \* LLM: _pending_loads
    xfer,        \* LLM: state of the transfer of a pending hash
    handles,     \* LLM: NIXL handles and destination buffers held per hash
    cache,       \* LLM: encoder_cache
    status, waiting, toFree,     \* LLM scheduler: requests, queue, _pending_free_mm_hashes
    pc, todo, step,      \* LLM main thread: where it is, its list, its step
    asked, lost  \* history: hashes this step asked for, and those it gave up

encVars == <<encoded, gen, live, inAcks>>
recvVars == <<recv, inMeta, evtSet>>
schedVars == <<status, waiting, toFree>>
loadVars == <<deferred, pending, xfer, handles, cache>>
vars == <<encoded, gen, live, inAcks, metaNet, ackNet, recv, inMeta, events, evtSet,
          registry, view, acked, deferred, pending, xfer, handles, cache,
          status, waiting, toFree, pc, todo, step, asked, lost>>

Meta == [h : Hash, g : Nat, map : SUBSET (Hash \X Nat)]
Idle == [prefill |-> FALSE, r |-> 0]
NoMeta == [pc |-> "poll", m |-> 0]

Init ==
    /\ encoded = 0 /\ gen = [h \in Hash |-> 0] /\ live = <<>> /\ inAcks = <<>>
    /\ metaNet = <<>> /\ ackNet = <<>> /\ recv = NoMeta /\ inMeta = <<>>
    /\ events = {} /\ evtSet = {} /\ registry = [h \in Hash |-> 0] /\ view = {}
    /\ acked = {} /\ deferred = {} /\ pending = {} /\ cache = {}
    /\ xfer = [h \in Hash |-> "none"] /\ handles = [h \in Hash |-> 0]
    /\ status = [r \in Req |-> "new"] /\ waiting = <<>> /\ toFree = {}
    /\ pc = "idle" /\ todo = <<>> /\ step = Idle /\ asked = {} /\ lost = {}

-----------------------------------------------------------------------------
(* The encoder.                                                              *)

(* _drain_acks: an ACK names a hash, not a registration.                     *)
AfterAcks == Kept(live, {e \in ToSet(live) : e[1] \notin ToSet(inAcks)})

(* _admit_producer_entry: the TTL drops the k oldest, then the LRU rule keeps *)
(* room for one more.                                                        *)
Admitted(s, k) ==
    LET t == SubSeq(s, k + 1, Len(s))
    IN  IF Len(t) < Capacity THEN t ELSE SubSeq(t, Len(t) - Capacity + 2, Len(t))

PushMeta(h, s) == Append(metaNet, [h |-> h, g |-> gen[h] + 1, map |-> ToSet(s)])

(* One execute_model of the encoder: encode the new request's item and       *)
(* save_caches.  Its encoder_cache is emptied before every request, since a  *)
(* request is over as soon as it is encoded.                                 *)
Encode(r) ==
    /\ r = encoded + 1
    /\ encoded' = r /\ inAcks' = <<>>
    /\ LET h == HashOf[r] IN
         IF \E e \in ToSet(AfterAcks) : e[1] = h
         THEN live' = AfterAcks /\ UNCHANGED <<gen, metaNet>>
         ELSE \E k \in IF Expires THEN 0..Len(AfterAcks) ELSE {0} :
                /\ live' = Append(Admitted(AfterAcks, k), <<h, gen[h] + 1>>)
                /\ gen' = [gen EXCEPT ![h] = @ + 1]
                /\ metaNet' = PushMeta(h, live')
    /\ UNCHANGED <<ackNet, recvVars, events, registry, view, acked, loadVars, schedVars,
                   pc, todo, step, asked, lost>>

(* _ack_receiver_loop: a full queue holds the thread, never drops an ACK.    *)
ReceiveAck ==
    /\ ackNet # <<>> /\ Len(inAcks) < AckMax
    /\ inAcks' = Append(inAcks, Head(ackNet)) /\ ackNet' = Tail(ackNet)
    /\ UNCHANGED <<encoded, gen, live, metaNet, recvVars, events, registry, view, acked,
                   loadVars, schedVars, pc, todo, step, asked, lost>>

-----------------------------------------------------------------------------
(* The receiver thread of the LLM (_receiver_loop): receive, queue, signal.  *)

ReceiveMeta ==
    /\ recv = NoMeta /\ metaNet # <<>>
    /\ recv' = [pc |-> "put", m |-> Head(metaNet)] /\ metaNet' = Tail(metaNet)
    /\ UNCHANGED <<encVars, ackNet, inMeta, evtSet, events, registry, view, acked,
                   loadVars, schedVars, pc, todo, step, asked, lost>>

(* Fault: metadata is dropped when the queue is full.                        *)
PutMetaDropping ==
    /\ recv.pc = "put"
    /\ inMeta' = IF Len(inMeta) < QueueMax THEN Append(inMeta, recv.m) ELSE inMeta
    /\ recv' = [recv EXCEPT !.pc = "signal"]
    /\ UNCHANGED <<encVars, metaNet, ackNet, evtSet, events, registry, view, acked,
                   loadVars, schedVars, pc, todo, step, asked, lost>>
PutMeta ==
    /\ recv.pc = "put" /\ Len(inMeta) < QueueMax
    /\ inMeta' = Append(inMeta, recv.m) /\ recv' = [recv EXCEPT !.pc = "signal"]
    /\ UNCHANGED <<encVars, metaNet, ackNet, evtSet, events, registry, view, acked,
                   loadVars, schedVars, pc, todo, step, asked, lost>>

Signal ==
    /\ recv.pc = "signal"
    /\ evtSet' = evtSet \cup ({recv.m.h} \cap events) /\ recv' = NoMeta
    /\ UNCHANGED <<encVars, metaNet, ackNet, inMeta, events, registry, view, acked,
                   loadVars, schedVars, pc, todo, step, asked, lost>>

-----------------------------------------------------------------------------
(* The LLM's scheduler.                                                      *)

Arrive(r) ==
    /\ status[r] = "new" /\ \A q \in 1..(r - 1) : status[q] # "new"
    /\ status' = [status EXCEPT ![r] = "waiting"] /\ waiting' = Append(waiting, r)
    /\ UNCHANGED <<encVars, metaNet, ackNet, recvVars, events, registry, view, acked,
                   loadVars, toFree, pc, todo, step, asked, lost>>

(* A running request finishes, or a request is aborted: _free_request.       *)
Finish(r) ==
    /\ pc = "idle" /\ status[r] \in {"waiting", "running"}
    /\ status' = [status EXCEPT ![r] = "done"]
    /\ waiting' = Kept(waiting, Req \ {r})
    /\ toFree' = toFree \cup {HashOf[r]}
    /\ UNCHANGED <<encVars, metaNet, ackNet, recvVars, events, registry, view, acked,
                   loadVars, pc, todo, step, asked, lost>>

-----------------------------------------------------------------------------
(* The LLM's main thread.                                                    *)

(* _process_pending_metadata: drain the queue in order.  Every metadata      *)
(* replaces the map NIXL has of the encoder.                                 *)
Newest(h) == inMeta[Max({i \in DOMAIN inMeta : inMeta[i].h = h})].g
InQueue(h) == \E m \in ToSet(inMeta) : m.h = h
Drained == [h \in Hash |-> IF InQueue(h) THEN Newest(h) ELSE registry[h]]

(* Fault: the encoder's map is only taken once.                              *)
DrainedViewOnce == IF inMeta = <<>> \/ view # {} THEN view ELSE inMeta[1].map

DrainedView == IF inMeta = <<>> THEN view ELSE Last(inMeta).map
Drain == /\ registry' = Drained /\ view' = DrainedView /\ inMeta' = <<>>

(* The hashes a step asks for: its prefill's, then those of the requests     *)
(* still waiting (update_state_after_alloc, build_connector_meta).           *)
Fresh(p, w) == LET Hashes(s) == [i \in DOMAIN s |-> HashOf[s[i]]]
               IN  Hashes(IF p THEN <<Head(w)>> \o Tail(w) ELSE w)

(* start_load_caches puts what was deferred before what is asked for now.    *)
Todo(fresh, old) ==
    LET first == {i \in DOMAIN fresh : /\ fresh[i] \notin ToSet(old)
                                       /\ \A j \in 1..(i - 1) : fresh[j] # fresh[i]}
        at == Kept([i \in DOMAIN fresh |-> i], first)
    IN  old \o [k \in DOMAIN at |-> fresh[at[k]]]

(* schedule() and the beginning of execute_model: p says whether the step is *)
(* the prefill of the first waiting request or a decode.  _update_states     *)
(* drops the encoder outputs of finished requests.                           *)
Schedule(p) ==
    /\ pc = "idle"
    /\ IF p THEN waiting # <<>> ELSE \E r \in Req : status[r] = "running"
    /\ step' = [prefill |-> p, r |-> IF p THEN Head(waiting) ELSE 0]
    /\ status' = IF p THEN [status EXCEPT ![Head(waiting)] = "running"] ELSE status
    /\ waiting' = IF p THEN Tail(waiting) ELSE waiting
    /\ cache' = cache \ toFree /\ toFree' = {}
    /\ \E old \in SetToSeqs(deferred) : todo' = Todo(Fresh(p, waiting), old)
    /\ asked' = ToSet(Fresh(p, waiting)) /\ lost' = {}
    /\ deferred' = {} /\ pc' = "load" /\ Drain
    /\ UNCHANGED <<encVars, metaNet, ackNet, recv, evtSet, events, acked, pending, xfer, handles>>

Skip(h) == h \in cache \cup pending
AtCap == Cardinality(pending) >= MaxPulls
NextItem == /\ todo' = Tail(todo) /\ pc' = "load"

SkipLoad ==
    /\ pc = "load" /\ todo # <<>> /\ Skip(Head(todo)) /\ NextItem
    /\ UNCHANGED <<encVars, metaNet, ackNet, recvVars, events, registry, view, acked,
                   loadVars, schedVars, step, asked, lost>>

(* Fault: what does not fit under the cap is not remembered.                 *)
DeferDropped(h) == deferred

Defer(h) == deferred \cup {h}
DeferLoad ==
    /\ pc = "load" /\ todo # <<>> /\ ~Skip(Head(todo)) /\ AtCap /\ NextItem
    /\ deferred' = Defer(Head(todo))
    /\ UNCHANGED <<encVars, metaNet, ackNet, recvVars, events, registry, view, acked,
                   pending, xfer, handles, cache, schedVars, step, asked, lost>>

Wanted == pc = "load" /\ todo # <<>> /\ ~Skip(Head(todo)) /\ ~AtCap

(* _initiate_pull: the destination buffer is registered first.  NIXL raises  *)
(* when the encoder's map lacks the address, and a transfer that does not    *)
(* start is an error too; nothing above start_load_caches catches either,    *)
(* and nobody deregisters the buffer then.                                   *)
InitiatePull ==
    LET h == Head(todo) IN
    /\ Wanted /\ registry[h] # 0
    /\ handles' = [handles EXCEPT ![h] = @ + 1]
    /\ \/ /\ <<h, registry[h]>> \in view
          /\ pending' = pending \cup {h} /\ xfer' = [xfer EXCEPT ![h] = "proc"] /\ NextItem
       \/ pc' = "dead" /\ UNCHANGED <<pending, xfer, todo>>
    /\ UNCHANGED <<encVars, metaNet, ackNet, recvVars, events, registry, view, acked,
                   deferred, cache, schedVars, step, asked, lost>>

(* _wait_for_cache: drain; create the event; drain again; then clear and     *)
(* sleep, for at most a second, and drain, until the deadline.               *)
WaitFirst ==
    LET h == Head(todo) IN
    /\ Wanted /\ registry[h] = 0 /\ Drain
    /\ events' = IF Drained[h] = 0 THEN events \cup {h} ELSE events
    /\ pc' = IF Drained[h] = 0 THEN "armed" ELSE "load"
    /\ UNCHANGED <<encVars, metaNet, ackNet, recv, evtSet, acked, loadVars, schedVars,
                   todo, step, asked, lost>>

WaitAgain ==
    /\ pc = "armed" /\ Drain
    /\ pc' = IF Drained[Head(todo)] = 0 THEN "clear" ELSE "load"
    /\ UNCHANGED <<encVars, metaNet, ackNet, recv, evtSet, events, acked, loadVars, schedVars,
                   todo, step, asked, lost>>

Clear ==
    /\ pc \in {"clear", "again"} /\ evtSet' = evtSet \ {Head(todo)} /\ pc' = "asleep"
    /\ UNCHANGED <<encVars, metaNet, ackNet, recv, inMeta, events, registry, view, acked,
                   loadVars, schedVars, todo, step, asked, lost>>

(* Fault: the sleep has no timeout.                                          *)
WakeSignalled ==
    /\ pc = "asleep" /\ Head(todo) \in evtSet /\ Drain
    /\ pc' = IF Drained[Head(todo)] = 0 THEN "again" ELSE "load"
    /\ UNCHANGED <<encVars, metaNet, ackNet, recv, evtSet, events, acked, loadVars, schedVars,
                   todo, step, asked, lost>>

(* The sleep ends with the event or after a second.                          *)
Wake ==
    /\ pc = "asleep" /\ Drain
    /\ pc' = IF Drained[Head(todo)] = 0 THEN "again" ELSE "load"
    /\ UNCHANGED <<encVars, metaNet, ackNet, recv, evtSet, events, acked, loadVars, schedVars,
                   todo, step, asked, lost>>

WaitTimedOut ==
    /\ pc = "again" /\ NextItem /\ lost' = lost \cup {Head(todo)}
    /\ UNCHANGED <<encVars, metaNet, ackNet, recvVars, events, registry, view, acked,
                   loadVars, schedVars, step, asked>>

LoadsStarted ==
    /\ pc = "load" /\ todo = <<>>
    /\ pc' = IF pending # {} /\ step.prefill THEN "pulls" ELSE "run"
    /\ UNCHANGED <<encVars, metaNet, ackNet, recvVars, events, registry, view, acked,
                   loadVars, schedVars, todo, step, asked, lost>>

(* NIXL: a transfer succeeds while the source is registered, else it fails.  *)
Transfer(h) ==
    /\ h \in pending /\ xfer[h] = "proc"
    /\ xfer' = [xfer EXCEPT ![h] = IF <<h, registry[h]>> \in ToSet(live) THEN "done" ELSE "err"]
    /\ UNCHANGED <<encVars, metaNet, ackNet, recvVars, events, registry, view, acked,
                   deferred, pending, handles, cache, schedVars, pc, todo, step, asked, lost>>

(* Fault: only a pull that arrived is released.                              *)
ReleaseLeaks(h) ==
    /\ pending' = pending \ {h} /\ xfer' = [xfer EXCEPT ![h] = "none"]
    /\ handles' = IF xfer[h] = "done" THEN [handles EXCEPT ![h] = @ - 1] ELSE handles

(* _release_pull and _send_ack_if_unsent: the ACK is lost when the channel   *)
(* is full.                                                                  *)
Release(h) ==
    /\ pending' = pending \ {h} /\ xfer' = [xfer EXCEPT ![h] = "none"]
    /\ handles' = [handles EXCEPT ![h] = @ - 1]
Unsent(h) == h \notin acked /\ registry[h] # 0 /\ Len(ackNet) < AckMax
SendAck(h) ==
    /\ acked' = IF Unsent(h) THEN acked \cup {h} ELSE acked
    /\ ackNet' = IF Unsent(h) THEN Append(ackNet, h) ELSE ackNet

(* A poll of _wait_for_pulls or get_finished sees that a transfer is over.   *)
PullOver(h) ==
    /\ pc \in {"pulls", "finish"} /\ h \in pending /\ xfer[h] # "proc"
    /\ Release(h) /\ SendAck(h)
    /\ cache' = IF xfer[h] = "done" THEN cache \cup {h} ELSE cache
    /\ lost' = IF xfer[h] = "done" THEN lost ELSE lost \cup {h}
    /\ UNCHANGED <<encVars, metaNet, recvVars, events, registry, view, deferred,
                   schedVars, pc, todo, step, asked>>

PullsTimedOut(h) ==
    /\ pc \in {"pulls", "drop"} /\ h \in pending
    /\ Release(h) /\ SendAck(h) /\ lost' = lost \cup {h} /\ pc' = "drop"
    /\ UNCHANGED <<encVars, metaNet, recvVars, events, registry, view, deferred, cache,
                   schedVars, todo, step, asked>>

PullsOver ==
    /\ pc \in {"pulls", "drop"} /\ pending = {} /\ pc' = "run"
    /\ UNCHANGED <<encVars, metaNet, ackNet, recvVars, events, registry, view, acked,
                   loadVars, schedVars, todo, step, asked, lost>>

(* The forward pass.  The LLM's visual encoder is not loaded, so a prefill   *)
(* without its encoder output raises.                                        *)
Run ==
    /\ pc = "run"
    /\ pc' = IF step.prefill /\ HashOf[step.r] \notin cache THEN "dead" ELSE "finish"
    /\ IF pending # {} THEN Drain ELSE UNCHANGED <<registry, view, inMeta>>
    /\ UNCHANGED <<encVars, metaNet, ackNet, recv, evtSet, events, acked, loadVars, schedVars,
                   todo, step, asked, lost>>

(* get_finished has looked at every pending pull once.                       *)
StepOver ==
    /\ pc = "finish" /\ pc' = "idle" /\ step' = Idle
    /\ UNCHANGED <<encVars, metaNet, ackNet, recvVars, events, registry, view, acked,
                   loadVars, schedVars, todo, asked, lost>>

-----------------------------------------------------------------------------
Loading == SkipLoad \/ DeferLoad \/ InitiatePull \/ WaitFirst \/ WaitAgain \/ Clear \/ Wake
           \/ LoadsStarted \/ PullsOver \/ Run \/ StepOver \/ \E h \in Hash : PullsTimedOut(h)
Next ==
    \/ \E r \in Req : Encode(r) \/ Arrive(r) \/ Finish(r)
    \/ ReceiveAck \/ ReceiveMeta \/ PutMeta \/ Signal
    \/ \E p \in BOOLEAN : Schedule(p)
    \/ Loading \/ WaitTimedOut
    \/ \E h \in Hash : Transfer(h) \/ PullOver(h)

Spec == Init /\ [][Next]_vars

(* The main thread runs, every timed wait ends, and the engine schedules as  *)
(* long as it has requests.  Nothing is assumed of the encoder, the network  *)
(* or the receiver thread.                                                   *)
FairSpec ==
    /\ Spec /\ WF_vars(Loading) /\ SF_vars(WaitTimedOut)
    /\ WF_vars(\E p \in BOOLEAN : Schedule(p)) /\ WF_vars(\E r \in Req : Arrive(r))
    /\ SF_vars(\E r \in Req : status[r] = "running" /\ Finish(r))

-----------------------------------------------------------------------------
EncoderTypes ==
    /\ encoded \in 0..Len(HashOf) /\ gen \in [Hash -> Nat]
    /\ live \in Seq(Hash \X Nat) /\ Len(live) <= Capacity
    /\ inAcks \in Seq(Hash) /\ Len(inAcks) <= AckMax
ChannelTypes ==
    /\ metaNet \in Seq(Meta) /\ inMeta \in Seq(Meta) /\ Len(inMeta) <= QueueMax
    /\ recv \in [pc : {"put", "signal"}, m : Meta] \cup {NoMeta}
    /\ ackNet \in Seq(Hash) /\ Len(ackNet) <= AckMax
KnownTypes ==
    /\ registry \in [Hash -> Nat] /\ view \in SUBSET (Hash \X Nat)
    /\ events \cup evtSet \cup acked \subseteq Hash
PullTypes ==
    /\ cache \cup deferred \cup pending \subseteq Hash
    /\ Cardinality(pending) <= MaxPulls /\ handles \in [Hash -> Int]
    /\ xfer \in [Hash -> {"none", "proc", "done", "err"}]
ThreadTypes ==
    /\ status \in [Req -> {"new", "waiting", "running", "done"}] /\ waiting \in Seq(Req)
    /\ toFree \subseteq Hash /\ todo \in Seq(Hash)
    /\ pc \in {"idle", "load", "armed", "clear", "asleep", "again", "pulls", "drop", "run", "finish", "dead"}

(* Types of the state, with the bounds of the queues and of the pulls.       *)
TypeOK == EncoderTypes /\ ChannelTypes /\ KnownTypes /\ PullTypes /\ ThreadTypes

(* No metadata is lost on its way to the main thread: the newest             *)
(* registration of a hash is known to the LLM or on its way (the receiver    *)
(* thread waits for room in the bounded queue).                              *)
MetadataIsNotLost ==
    \A h \in Hash : gen[h] # 0 =>
        \/ registry[h] = gen[h]
        \/ \E m \in ToSet(metaNet) \cup ToSet(inMeta)
                      \cup (IF recv = NoMeta THEN {} ELSE {recv.m}) :
              m.h = h /\ m.g = gen[h]

(* Replacing the encoder's memory map with every metadata never hides a      *)
(* buffer that the LLM knows and the encoder still holds (the reason for     *)
(* removing and adding the remote agent each time).                          *)
ViewCoversLive ==
    \A h \in Hash : <<h, registry[h]>> \in ToSet(live) => <<h, registry[h]>> \in view

(* Between two steps a hash that was asked for is in the encoder cache, being *)
(* pulled, or deferred to the next step, unless its wait or its pull failed. *)
AskedIsTracked ==
    pc = "idle" => asked \subseteq cache \cup pending \cup deferred \cup lost \cup toFree

(* Every transfer handle and destination buffer is released exactly once, on *)
(* every way a pull that was started can end.  A pull that could not be      *)
(* started leaves its buffer behind, and the engine with it.                 *)
HandlesExact ==
    pc # "dead" => \A h \in Hash : handles[h] = IF h \in pending THEN 1 ELSE 0

(* Pulls are accounted for from start_load_caches to get_finished: no ask is *)
(* forgotten when one is deferred, and no handle leaks on any way out.       *)
PullsAccounted == AskedIsTracked /\ HandlesExact

(* Every request is served or the engine has failed; it never blocks forever *)
(* on an encoder that sends nothing, a lost signal or a pull that hangs.     *)
EveryoneServed == <>(pc = "dead" \/ \A r \in Req : status[r] = "done")

(* Where no entry is dropped by the TTL or the capacity rule, a pull is of a *)
(* buffer the encoder still holds: the LLM does not use what it learnt of a  *)
(* buffer it has acknowledged, and the encoder deregistered, for the next    *)
(* request with the same image.                                              *)
PullIsOfLive == \A h \in pending : <<h, registry[h]>> \in ToSet(live)
=============================================================================
