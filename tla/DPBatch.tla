------------------------------ MODULE DPBatch ------------------------------
(***************************************************************************)
(* One padded batch for the data-parallel ranks of a mixture-of-experts    *)
(* model (v1/worker/dp_utils.py, with the model runner's and the drafter's *)
(* callers of it).                                                         *)
(*                                                                         *)
(* The ranks run their own engine loops.  In each round a rank prefills a  *)
(* chunk, decodes a batch or, with nothing to do, runs a dummy; the rounds *)
(* meet in collectives: an all-reduce of what every rank brings, the       *)
(* all-gather inside the forward pass, and one more inside each pass of a  *)
(* draft model that has experts too.  A collective ends when every rank is *)
(* in it, and the all-gathers need the same token dimension on every rank. *)
(* A rank's graphs are compiled at warm-up, for fixed shapes.              *)
(*                                                                         *)
(* A batch shape is [reqs, q, tokens]: rows, query length and the token    *)
(* dimension of the graph, 0 where the code has None.  Phases of the batch *)
(* and their padding are the code's; token values are left out.            *)
(***************************************************************************)
EXTENDS Integers, FiniteSets, FiniteSetsExt

CONSTANTS
    Configs,   \* deployments: see ConfigsAssumption
    Chunks     \* the lengths that the last chunk of a prompt may have

VARIABLES
    config,
    pc,        \* where each rank's engine loop is
    work,      \* the batch that the rank brings to this round
    status,    \* dp_status of the rank: what the ranks reported
    desc,      \* the shape of the pass that the rank is in
    pass       \* the number of that pass: 0 is the target model's

vars == <<config, pc, work, status, desc, pass>>

AllRanks == 0 .. Max({c.dp : c \in Configs}) - 1
Ranks == 0 .. config.dp - 1

-----------------------------------------------------------------------------
(***************************************************************************)
(* Decode batch buckets (v1/worker/bucketing).                             *)
(***************************************************************************)
\* Each candidate is the one before it divided by the step.
Candidates(c) ==
    LET f[k \in 0 .. c.limit - 1] == IF k = 0 THEN c.max ELSE f[k - 1] \div c.step
    IN  f

ExponentialBuckets(c) ==
    {c.max} \cup {b \in {Candidates(c)[k] : k \in 0 .. c.limit - 1} : b >= c.min}

LinearBuckets(c) ==
    {c.max} \cup {b \in {c.max - c.step * k : k \in 0 .. c.limit - 1} : b >= c.min}

decode_batch_buckets(c) ==
    CASE c.strategy = "exponential" -> ExponentialBuckets(c)
      [] c.strategy = "linear" -> LinearBuckets(c)
      [] c.strategy = "manual" -> c.manual

Top(c) == Max(decode_batch_buckets(c))

\* Fault: the largest bucket that the batch fills.
find_bucketBelow(c, n) ==
    Max({b \in decode_batch_buckets(c) : b <= n} \cup {Min(decode_batch_buckets(c))})

find_bucket(c, n) == Min({b \in decode_batch_buckets(c) : b >= n})

\* Drafts of the eagle family make every decode num_spec_tokens + 1 long.
uses_fixed_decode_window(c) == c.spec > 0 /\ c.eagle

\* The fields of the all-reduce are 16 and 13 bits wide.
MostTokens == 65535
MostReqs == 8191

ASSUME ConfigsAssumption ==
    /\ Chunks \subseteq Nat \ {0}
    /\ \A c \in Configs :
          /\ c.dp \in Nat \ {0} /\ c.spec \in Nat /\ c.step \in Nat
          /\ c.strategy \in {"exponential", "linear", "manual"}
          /\ c.min \in 1 .. c.max /\ c.limit \in Nat \ {0}
          /\ c.strategy = "exponential" => c.step > 1
          /\ c.strategy = "linear" => c.step > 0
          /\ c.strategy = "manual" => c.max \in c.manual /\ c.manual \subseteq 1 .. c.max
          /\ c.tokens \in 1 .. MostTokens /\ c.max \in 1 .. MostReqs
          \* Warm-up stages the widest decode at the prefill's dimension.
          /\ c.max * (c.spec + 1) <= c.tokens

-----------------------------------------------------------------------------
(***************************************************************************)
(* The all-reduce: one int32 per rank, tokens in bits 0-15, requests in    *)
(* bits 16-28, the prefill flag in bit 29 and the idle flag in bit 30.     *)
(***************************************************************************)
Flag(b) == IF b THEN 1 ELSE 0

Encode(w) ==
    w.tokens + w.reqs * 2^16 + Flag(w.prefill) * 2^29 + Flag(w.idle) * 2^30

Decode(v) ==
    [tokens |-> v % 2^16, reqs |-> (v \div 2^16) % 2^13,
     prefill |-> (v \div 2^29) % 2 = 1, idle |-> (v \div 2^30) % 2 = 1]

\* Each rank adds its value to its own slot and zero to the others'.
_run_ar(values) == [i \in DOMAIN values |->
        MapThenSumSet(LAMBDA r : IF r = i THEN values[r] ELSE 0, DOMAIN values)]

_synchronize_dp_ranks(values) == [i \in DOMAIN values |-> Decode(_run_ar(values)[i])]

-----------------------------------------------------------------------------
(***************************************************************************)
(* The target model's shape.  s is the status, empty on a single rank; pin *)
(* is the dimension that warm-up asks for, 0 if it asks for none.          *)
(***************************************************************************)
Shape(n, q, t) == [reqs |-> n, q |-> q, tokens |-> t]
NoShape == Shape(0, 0, 0)
QueryLen(w) == w.tokens \div w.reqs
LocalReqs(c, w) == IF w.prefill THEN w.reqs ELSE find_bucket(c, w.reqs)
Busy(s) == {i \in DOMAIN s : ~s[i].idle}
BusyLens(s) == {QueryLen(s[i]) : i \in Busy(s)}

AnyPrefill(c, w) ==
    Shape(IF w.prefill THEN w.reqs ELSE Top(c), QueryLen(w), c.tokens)

QlenAsym(c, w, s) == Shape(Top(c), QueryLen(w), Top(c) * Max(BusyLens(s)))

Agreed(c, s) ==
    LET b == find_bucket(c, Max({s[i].reqs : i \in Busy(s)}))
        q == Max(BusyLens(s))
    IN  Shape(b, q, b * q)

determine_batch_execution_and_padding(c, w, s, pin) ==
    CASE pin # 0 -> Shape(LocalReqs(c, w), QueryLen(w), pin)
      [] pin = 0 /\ DOMAIN s = {} -> Shape(LocalReqs(c, w), QueryLen(w), 0)
      [] pin = 0 /\ DOMAIN s # {} ->
           CASE Busy(s) = {} -> NoShape
             [] Busy(s) # {} /\ ~c.specialized ->
                  Shape(LocalReqs(c, w), QueryLen(w), c.tokens)
             [] Busy(s) # {} /\ c.specialized /\ (\E i \in DOMAIN s : s[i].prefill) ->
                  AnyPrefill(c, w)
             [] OTHER -> IF Cardinality(BusyLens(s)) > 1 THEN QlenAsym(c, w, s)
                         ELSE Agreed(c, s)

(***************************************************************************)
(* The draft's shape, from the status the round published.  first tells    *)
(* the pass over the staged tokens from the one-token passes after it.     *)
(***************************************************************************)
\* Fault: the bucket of this rank's own requests.
DraftReqsOwn(c, w, s) == find_bucket(c, w.reqs)

DraftReqs(c, w, s) == find_bucket(c, Max({s[i].reqs : i \in DOMAIN s}))

DraftLens(w, s, first) ==
    {IF first THEN QueryLen(s[i]) ELSE QueryLen(w) : i \in DOMAIN s}

determine_draft_batch_execution_and_padding(c, w, s, first, pin) ==
    LET q == QueryLen(w)
        dim(t) == IF pin = 0 THEN t ELSE pin
        anyPrefill == first /\ \E i \in DOMAIN s : s[i].prefill
    IN  CASE DOMAIN s = {} -> Shape(LocalReqs(c, w), q, pin)
          [] DOMAIN s # {} /\ ~c.moe ->
               Shape(LocalReqs(c, w), q, dim(LocalReqs(c, w) * q))
          [] DOMAIN s # {} /\ c.moe /\ (w.prefill \/ ~c.specialized) ->
               Shape(LocalReqs(c, w), q, dim(c.tokens))
          [] OTHER ->
               IF anyPrefill THEN Shape(Top(c), q, dim(c.tokens))
               ELSE Shape(DraftReqs(c, w, s), q,
                          dim(DraftReqs(c, w, s) * Max(DraftLens(w, s, first))))

-----------------------------------------------------------------------------
(***************************************************************************)
(* Warm-up and the graphs it leaves.  A graph is keyed by the shapes of    *)
(* its inputs, its phase and, where experts read it, the token dimension;  *)
(* a prompt is staged at the full length.                                  *)
(***************************************************************************)
\* fits: whether the drafts still fit behind the longest request of the batch.
BatchOf(n, t, prefill, idle, fits) ==
    [reqs |-> n, tokens |-> t, prefill |-> prefill, idle |-> idle, fits |-> fits]
Batch(n, q, prefill) == BatchOf(n, n * q, prefill, FALSE, TRUE)

\* A decode stages the whole window whatever was decided.
Staged(c, w, d) ==
    IF ~w.prefill /\ uses_fixed_decode_window(c) THEN Max({d.q, c.spec + 1}) ELSE d.q

TargetKey(c, w, d) ==
    [model |-> "target", reqs |-> d.reqs, prefill |-> w.prefill,
     q |-> IF w.prefill THEN c.tokens ELSE Staged(c, w, d),
     tokens |-> d.tokens, indices |-> w.prefill]

DraftKey(c, w, d, first) ==
    [model |-> "draft", reqs |-> d.reqs, prefill |-> w.prefill /\ first,
     q |-> IF w.prefill /\ first THEN c.tokens ELSE d.q,
     tokens |-> IF c.moe THEN d.tokens ELSE 0, indices |-> first]

\* The later passes: one token a request, decoded.
OneToken(w) == [w EXCEPT !.tokens = w.reqs, !.prefill = FALSE]

WarmLens(c) ==
    CASE c.spec = 0 -> {1}
      [] uses_fixed_decode_window(c) -> {c.spec + 1}
      [] OTHER -> {1, c.spec + 1}

\* The dummy runs of warm-up: <<batch, pinned dimension>>.
DecodeRun(n, q, pin) == <<Batch(n, q, FALSE), pin>>

SymmetricRuns(c) ==
    {<<Batch(1, c.tokens, TRUE), 0>>}
        \cup {DecodeRun(b, q, 0) : b \in decode_batch_buckets(c), q \in WarmLens(c)}

\* Fault: the decode beside a speculating peer is not compiled.
AsymmetricRunsNone(c) ==
    IF c.dp = 1 \/ ~c.specialized THEN {}
    ELSE {DecodeRun(Top(c), q, c.tokens) : q \in WarmLens(c)}

AsymmetricRuns(c) ==
    IF c.dp = 1 \/ ~c.specialized THEN {}
    ELSE {DecodeRun(Top(c), q, c.tokens) : q \in WarmLens(c)}
            \cup IF c.spec > 0 /\ ~uses_fixed_decode_window(c)
                 THEN {DecodeRun(Top(c), 1, Top(c) * (c.spec + 1))} ELSE {}

\* All ranks warm up together, each with the same batch.
WarmStatus(c, w) == IF c.dp = 1 THEN <<>> ELSE [i \in 0 .. c.dp - 1 |-> w]

TargetGraphs(c, w, pin) ==
    {TargetKey(c, w, determine_batch_execution_and_padding(c, w, WarmStatus(c, w), pin))}

DraftGraphs(c, w, pin) ==
    IF ~uses_fixed_decode_window(c) THEN {}
    ELSE LET s == WarmStatus(c, w)
             later == OneToken(w)
             d(v, first) == determine_draft_batch_execution_and_padding(c, v, s, first, pin)
         IN  {DraftKey(c, w, d(w, TRUE), TRUE)}
                 \cup IF c.spec > 1 THEN {DraftKey(c, later, d(later, FALSE), FALSE)} ELSE {}

warmup_model(c) ==
    UNION {TargetGraphs(c, x[1], x[2]) \cup DraftGraphs(c, x[1], x[2]) :
             x \in SymmetricRuns(c) \cup AsymmetricRuns(c)}

Graphs == [c \in Configs |-> warmup_model(c)]

-----------------------------------------------------------------------------
NoWork == BatchOf(0, 0, FALSE, TRUE, TRUE)

Init ==
    /\ config \in Configs
    /\ pc = [r \in Ranks |-> "loop"]
    /\ work = [r \in Ranks |-> NoWork]
    /\ status = [r \in Ranks |-> <<>>]
    /\ desc = [r \in Ranks |-> NoShape]
    /\ pass = [r \in Ranks |-> 0]

\* The ranks in R are done with the round.  Nothing reads what they keep of it
\* (dp_status, the buffers) before the next decision replaces it.
Leave(R) ==
    /\ pc' = [r \in Ranks |-> IF r \in R THEN "loop" ELSE pc[r]]
    /\ work' = [r \in Ranks |-> IF r \in R THEN NoWork ELSE work[r]]
    /\ status' = [r \in Ranks |-> IF r \in R THEN <<>> ELSE status[r]]
    /\ desc' = [r \in Ranks |-> IF r \in R THEN NoShape ELSE desc[r]]
    /\ pass' = [r \in Ranks |-> IF r \in R THEN 0 ELSE pass[r]]

\* The rank brings the batch to the all-reduce.
Bring(r, w) ==
    /\ pc[r] = "loop"
    /\ work' = [work EXCEPT ![r] = w]
    /\ pc' = [pc EXCEPT ![r] = "reduce"]
    /\ UNCHANGED <<config, status, desc, pass>>

\* What may be true of that.
Fits == IF config.long THEN BOOLEAN ELSE {TRUE}

\* execute_model on a prompt's chunk: the runner prefills one request.
Prefill(r) ==
    \E n \in Chunks \cup {config.tokens}, f \in Fits :
        /\ n <= config.tokens
        /\ Bring(r, BatchOf(1, n, TRUE, FALSE, f))

\* execute_model on decodes, whose window is full when any of them has drafts.
DecodeBatch(r) ==
    \E n \in 1 .. config.max, q \in {1, config.spec + 1}, f \in Fits :
        /\ uses_fixed_decode_window(config) => q = config.spec + 1
        /\ Bring(r, BatchOf(n, n * q, FALSE, FALSE, f))

\* The engine loop of an idle rank, while any rank has work.
execute_dummy_batch(r) ==
    /\ config.dp > 1
    /\ Bring(r, BatchOf(1, 1, FALSE, TRUE, TRUE))

AllReduce ==
    /\ \A r \in Ranks : pc[r] = "reduce"
    /\ status' = IF config.dp = 1 THEN status
                 ELSE [r \in Ranks |-> _synchronize_dp_ranks([i \in Ranks |-> Encode(work[i])])]
    /\ pc' = [r \in Ranks |-> "decide"]
    /\ UNCHANGED <<config, work, desc, pass>>

\* A drained group stops here, the others enter the forward pass.
Decide(r) ==
    LET d == determine_batch_execution_and_padding(config, work[r], status[r], 0)
    IN  /\ pc[r] = "decide"
        /\ IF d = NoShape
           THEN Leave({r}) /\ UNCHANGED config
           ELSE /\ desc' = [desc EXCEPT ![r] = d]
                /\ pc' = [pc EXCEPT ![r] = "forward"]
                /\ UNCHANGED <<config, work, status, pass>>

\* The all-gathers of the target model's expert layers.
Forward ==
    /\ \A r \in Ranks : pc[r] = "forward"
    /\ pc' = [r \in Ranks |-> "drafting"]
    /\ UNCHANGED <<config, work, status, desc, pass>>

\* What the rank stages for its first draft pass: a dummy takes the length
\* that was decided, or its window when there is no later pass.
DraftWork(r) ==
    IF ~work[r].idle THEN work[r]
    ELSE [work[r] EXCEPT !.tokens =
            work[r].reqs * IF config.spec = 1 THEN Staged(config, work[r], desc[r])
                           ELSE desc[r].q]

\* Fault: an idle rank never drafts.
DraftsBusy(r) ==
    uses_fixed_decode_window(config) /\ ~work[r].idle /\ work[r].fits

Drafts(r) ==
    /\ uses_fixed_decode_window(config)
    /\ IF work[r].idle THEN config.moe ELSE work[r].fits

\* propose, or the drafter's dummy_run: the first pass.
StartDraft(r) ==
    /\ pc[r] = "drafting"
    /\ IF Drafts(r)
       THEN /\ pc' = [pc EXCEPT ![r] = "draft"]
            /\ pass' = [pass EXCEPT ![r] = 1]
            /\ work' = [work EXCEPT ![r] = DraftWork(r)]
            /\ desc' = [desc EXCEPT ![r] = determine_draft_batch_execution_and_padding(
                                               config, DraftWork(r), status[r], TRUE, 0)]
            /\ UNCHANGED status
       ELSE Leave({r})
    /\ UNCHANGED config

\* The pass ends for the ranks in R, which go on to the next or are done.
EndPass(R) ==
    /\ IF \A r \in R : pass[r] = config.spec
       THEN Leave(R)
       ELSE /\ pass' = [r \in Ranks |-> IF r \in R THEN pass[r] + 1 ELSE pass[r]]
            /\ work' = [r \in Ranks |-> IF r \in R THEN OneToken(work[r]) ELSE work[r]]
            /\ desc' = [r \in Ranks |-> IF r \in R
                          THEN determine_draft_batch_execution_and_padding(
                                   config, OneToken(work[r]), status[r], FALSE, 0)
                          ELSE desc[r]]
            /\ UNCHANGED <<pc, status>>
    /\ UNCHANGED config

\* The all-gathers of the draft's expert layers hold the ranks together.
DraftTogether ==
    /\ config.moe /\ config.dp > 1
    /\ \A r \in Ranks : pc[r] = "draft"
    /\ EndPass(Ranks)

DraftAlone(r) ==
    /\ ~config.moe \/ config.dp = 1
    /\ pc[r] = "draft"
    /\ EndPass({r})

RankStep(r) ==
    \/ Prefill(r) \/ DecodeBatch(r) \/ execute_dummy_batch(r)
    \/ Decide(r) \/ StartDraft(r) \/ DraftAlone(r)

Next ==
    \/ \E r \in Ranks : RankStep(r)
    \/ AllReduce \/ Forward \/ DraftTogether

Spec == Init /\ [][Next]_vars

\* Every rank's loop keeps running, and a collective that all have joined ends.
FairSpec ==
    /\ Spec
    /\ \A r \in AllRanks : WF_vars(r \in Ranks /\ RankStep(r))
    /\ WF_vars(AllReduce \/ Forward \/ DraftTogether)

-----------------------------------------------------------------------------
InPass(r) == pc[r] \in {"forward", "draft"}

\* The token dimension of a forward or draft pass is the same on every rank that
\* is in it ("num_tokens_padded is the same on every rank, because that is what
\* the fused-MoE all-gather sizes off", dp_utils.py), whatever the ranks brought.
SameDimension ==
    \A r, t \in Ranks :
        (InPass(r) /\ pc[t] = pc[r] /\ pass[t] = pass[r]
            /\ (pc[r] = "draft" => config.moe))
        => desc[t].tokens = desc[r].tokens

\* What a rank stages fits the shape that it was given: its requests fit the
\* rows, and the rows times the staged length fit the token dimension, so that the
\* expert dispatch drops none (BatchDescriptor.__post_init__ and the window
\* assertion of _dummy_run never fail).
RowsFit ==
    \A r \in Ranks : InPass(r) =>
        /\ work[r].reqs <= desc[r].reqs
        /\ desc[r].tokens # 0 =>
              desc[r].reqs * (IF pc[r] = "forward" THEN Staged(config, work[r], desc[r])
                              ELSE desc[r].q) <= desc[r].tokens
        /\ ~work[r].idle => QueryLen(work[r]) <= desc[r].q

\* Every forward pass of the target, an idle rank's too, and every draft pass of
\* a rank with work runs a shape that warmup_model has compiled.  The draft passes
\* of an idle rank are left out: they can meet a query length it has not.
Warmed ==
    \A r \in Ranks :
        /\ pc[r] = "forward" => TargetKey(config, work[r], desc[r]) \in Graphs[config]
        /\ pc[r] = "draft" /\ ~work[r].idle =>
              DraftKey(config, work[r], desc[r], pass[r] = 1) \in Graphs[config]

\* No rank is left in a collective that a peer does not join: every round ends.
RoundsEnd == \A r \in AllRanks : []<>(r \in Ranks => pc[r] = "loop")
=============================================================================
