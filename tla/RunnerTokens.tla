----------------------------- MODULE RunnerTokens -----------------------------
(***************************************************************************)
(* The way of a token: sampled by the last pipeline rank, returned to the   *)
(* scheduler and fed back to the first rank.  RBLNModelRunner keeps its own  *)
(* copy of every request's tokens, in two places (CachedRequestState and     *)
(* the rows of the persistent batch), and three mechanisms keep it true:     *)
(*   - synchronous, one rank: the runner remembers what it sampled;          *)
(*   - pipeline parallel: the scheduler sends the tokens back, and a rank    *)
(*     that is not the last writes them by absolute position;                *)
(*   - asynchronous: the runner writes a placeholder, feeds the next step    *)
(*     from a ring of two device buffers, and repairs its copy when the      *)
(*     output thread has read the token.                                     *)
(* The model is deterministic: the token that belongs at position p + 1 is   *)
(* sampled if and only if the KV cache holds the right tokens up to p.       *)
(* Blocks and admission are RBLNSchedule's subject; here, which requests a   *)
(* step can get room for is left open.                                       *)
(***************************************************************************)
EXTENDS Integers, Sequences, SequencesExt, FiniteSets, Functions

CONSTANTS
    Req,
    Prompt,       \* Prompt[r]: num_prompt_tokens
    End,          \* End[r]: num_prompt_tokens + max_tokens
    MaxModelLen,
    Chunk,        \* long_prefill_token_threshold
    Seqs,         \* max_num_seqs
    Buckets,      \* compiled decode batch sizes
    MaxUpsets,    \* bound on preemptions and aborts
    Configs       \* records [async, spec, pp, sort, fixed, processors, load]

(* The platform refuses async scheduling with speculation or with pp > 1.    *)
ASSUME ConfigsAssumption ==
    /\ \A c \in Configs : /\ c.pp \in 1 .. Seqs /\ c.load \subseteq Req
                          /\ c.async => c.spec = 0 /\ c.pp = 1
    /\ \A r \in Req : 1 < Prompt[r] /\ Prompt[r] < End[r] /\ End[r] <= MaxModelLen

VARIABLES
    config,
    text,         \* all_token_ids of the request, in the scheduler
    status,       \* "waiting" | "preempted" | "running" | "done"
    running, waiting,
    comp,         \* num_computed_tokens
    hold,         \* num_output_placeholders
    drafts,       \* spec_token_ids
    chunk,        \* requests with is_prefill_chunk set
    upsets,       \* preemptions and aborts so far
    gone,         \* finished_req_ids, for the next step
    queue,        \* the engine's batch queue, oldest first
    phase,        \* the engine: "top" | "sent" | "empty" | "drafts"
    inbox,        \* inbox[k]: steps sent to rank k and not executed
    cache,        \* cache[k][r]: tokens of CachedRequestState, <<>> if none
    rows,         \* rows[k]: the persistent batch
    kv,           \* kv[r][p]: the token fed at position p
    pipe,         \* outputs of rank 1 on their way to the last rank
    forward,      \* execute_model_state of the last rank
    proposed,     \* _draft_token_ids, by request
    ring,         \* the two slots of _sampled_token_ring
    prev,         \* prev_sampled_token_ids and prev_req_id_to_index
    outs,         \* outputs handed to the output thread
    writeback,    \* _pending_token_writeback
    results       \* what the engine can read, oldest first

schedVars == <<text, status, running, waiting, comp, hold, drafts, chunk, upsets,
               gone>>
rowVars == <<cache, rows, kv>>
asyncVars == <<ring, prev, outs>>
vars == <<config, schedVars, queue, phase, inbox, rowVars, pipe, forward, proposed,
          asyncVars, writeback, results>>

(* Tokens, as in Generation; a placeholder (-1) and a wrong token.           *)
Right(r, p) == <<r, p>>
Hole == <<>>
Bad == <<0>>
Token == {Hole, Bad} \cup {Right(r, p) : r \in Req, p \in 0 .. MaxModelLen}
RightText(r, n) == [i \in 1 .. n |-> Right(r, i - 1)]
FirstOf(seq, n) == SubSeq(seq, 1, n)
MinOf(a, b) == IF a < b THEN a ELSE b
MaxOf(a, b) == IF a > b THEN a ELSE b
Empty == <<>>

Last1 == config.pp            \* the last rank
Ranks == {1, config.pp}
Depth == IF config.async THEN 2 ELSE config.pp

Init ==
    /\ config \in Configs
    /\ text = [r \in Req |-> RightText(r, Prompt[r])]
    /\ status = [r \in Req |-> IF r \in config.load THEN "waiting" ELSE "done"]
    /\ running = <<>>
    /\ waiting = SetToSeq(config.load)
    /\ comp = [r \in Req |-> 0]
    /\ hold = [r \in Req |-> 0]
    /\ drafts = [r \in Req |-> <<>>]
    /\ chunk = {}
    /\ upsets = 0
    /\ gone = {}
    /\ queue = <<>>
    /\ phase = "top"
    /\ inbox = [k \in Ranks |-> <<>>]
    /\ cache = [k \in Ranks |-> [r \in Req |-> <<>>]]
    /\ rows = [k \in Ranks |-> <<>>]
    /\ kv = [r \in Req |-> [p \in 0 .. MaxModelLen - 1 |-> Hole]]
    /\ pipe = <<>>
    /\ forward = <<>>
    /\ proposed = Empty
    /\ ring = [shape |-> 0, next |-> 1, val |-> <<Empty, Empty>>]
    /\ prev = <<>>
    /\ outs = <<>>
    /\ writeback = <<>>
    /\ results = <<>>

-----------------------------------------------------------------------------
(* The scheduler.                                                            *)

is_prefill(r) == comp[r] < Len(text[r]) - 1
Raw(r) == Len(text[r]) + Len(drafts[r]) + hold[r] - comp[r]

NumNew(r) == MinOf(MinOf(Raw(r), Chunk), MaxModelLen - 1 - comp[r])

should_defer_spec_step(r) ==
    /\ config.spec > 0
    /\ IF drafts[r] # <<>> THEN Raw(r) - Len(drafts[r]) <= 0 ELSE Raw(r) < 0

ReachesMax(r) == hold[r] > 0 /\ comp[r] + 2 - hold[r] >= End[r]
Schedulable(r) == ~ReachesMax(r) /\ ~should_defer_spec_step(r) /\ NumNew(r) # 0

HardCap == Seqs \div config.pp
Cap(q) ==
    LET demand == Cardinality({r \in Range(q) : ~is_prefill(r)})
        soft == (demand + config.pp - 1) \div config.pp
    IN  MinOf(HardCap, MaxOf(1, soft))
TrailingPrefill == running # <<>> /\ is_prefill(Last(running))

(* The running loop over the requests of q.                                  *)
Decodes(q) ==
    LET able == SelectSeq(q, Schedulable) IN FirstOf(able, MinOf(Len(able), Cap(q)))

SpecOf(r, n) ==
    LET k == n + comp[r] - Len(text[r]) - hold[r]
    IN  IF drafts[r] # <<>> /\ k > 0 THEN FirstOf(drafts[r], k) ELSE <<>>

(* Fault: the payload is not extended backwards.                             *)
NewTokenIdsBare(r, base) == SubSeq(text[r], comp[r] + 1, comp[r] + base)

(* _make_cached_request_data: the payload for the ranks that do not sample.  *)
NewTokenIds(r, base) ==
    SubSeq(text[r], MaxOf(0, comp[r] - config.spec) + 1, comp[r] + base)

(* The scheduler's output: the requests in order, what each is to compute,   *)
(* and the fields that the runner reads.                                     *)
StepOf(order, num, resumed) ==
    LET R == Range(order)
        spec == [r \in R |-> SpecOf(r, num[r])]
    IN  [order |-> order, num |-> num, spec |-> spec, gone |-> gone,
         at |-> [r \in R |-> comp[r]],
         fresh |-> {r \in R : status[r] = "waiting"},
         resumed |-> resumed,
         pay |-> [r \in R |-> IF config.pp > 1
                              THEN NewTokenIds(r, num[r] - Len(spec[r])) ELSE <<>>],
         total |-> [r \in R |-> Len(text[r]) + hold[r]]]
NoStep == StepOf(<<>>, Empty, {})

(* AsyncScheduler._update_after_schedule: the step computes r's last token.  *)
Samples(r, n) == comp[r] + n >= Len(text[r]) + hold[r]

(* The step leaves for the workers.  evicted: decodes that gave way.         *)
Send(step, evicted) ==
    LET R == Range(step.order) IN
    /\ inbox' = [k \in Ranks |-> Append(inbox[k], step)]
    /\ queue' = Append(queue, step)
    /\ comp' = [r \in Req |-> IF r \in R THEN comp[r] + step.num[r]
                              ELSE IF status'[r] = "preempted" THEN 0 ELSE comp[r]]
    /\ hold' = [r \in Req |->
                  IF config.async /\ r \in R /\ Samples(r, step.num[r])
                  THEN hold[r] + 1 ELSE hold[r]]
    /\ drafts' = [r \in Req |->
                    IF r \in evicted THEN SpecOf(r, NumNew(r))
                    ELSE IF (r \in R /\ status[r] = "running") \/ status'[r] = "preempted"
                    THEN <<>> ELSE drafts[r]]
    /\ chunk' = (chunk \ R) \cup {r \in R : comp'[r] < Len(text[r]) + hold[r]}
    /\ gone' = {}
    /\ phase' = IF step.order = <<>> THEN "empty" ELSE "sent"
    /\ UNCHANGED <<config, text, rowVars, pipe, forward, proposed, asyncVars,
                   writeback, results>>

HasRequests == gone # {} \/ \E r \in Req : status[r] # "done"
AtTop == phase = "top" /\ HasRequests

(* A trailing prefill is scheduled alone, else the decodes.  Nothing but the *)
(* blocks of running requests can keep a waiting request out.                *)
ScheduleRunning ==
    /\ AtTop
    /\ running = <<>> => waiting = <<>>
    /\ LET order == IF TrailingPrefill THEN <<Last(running)>> ELSE Decodes(running)
           num == [r \in Range(order) |-> NumNew(r)]
       IN  /\ UNCHANGED <<status, running, waiting, upsets>>
           /\ Send(StepOf(order, num, {}), {})

(* No room for the decodes: the last running request is preempted, and no    *)
(* request is admitted in this step.                                         *)
SchedulePreempting ==
    /\ AtTop /\ running # <<>>
    /\ LET v == Last(running)
           order == IF TrailingPrefill THEN <<>>
                    ELSE SelectSeq(Decodes(running), LAMBDA r : r # v)
           num == [r \in Range(order) |-> NumNew(r)]
       IN  /\ TrailingPrefill \/ Decodes(running) # <<>>
           /\ upsets < MaxUpsets
           /\ upsets' = upsets + 1
           /\ status' = [status EXCEPT ![v] = "preempted"]
           /\ running' = Front(running)
           /\ waiting' = <<v>> \o waiting
           /\ Send(StepOf(order, num, {}), {})

(* A waiting request is admitted as a prefill; the decodes give way.         *)
ScheduleWaiting ==
    /\ AtTop /\ waiting # <<>> /\ ~TrailingPrefill
    /\ Len(running) < Seqs
    /\ Len(Decodes(running)) < HardCap
    /\ LET r == Head(waiting)
           n == MinOf(Len(text[r]) - comp[r], Chunk)
       IN  /\ status' = [status EXCEPT ![r] = "running"]
           /\ running' = Append(running, r)
           /\ waiting' = Tail(waiting)
           /\ UNCHANGED upsets
           /\ Send(StepOf(<<r>>, r :> n, IF status[r] = "preempted" THEN {r} ELSE {}),
                   Range(Decodes(running)))

-----------------------------------------------------------------------------
(* EngineCore.step_with_batch_queue around it.                               *)

NextPhase == IF config.spec > 0 /\ phase = "sent" THEN "drafts" ELSE "top"

(* The queue has room and its oldest step is still computed.                 *)
CanReturn == phase = "sent" /\ Len(queue) < Depth /\ results = <<>>
EarlyReturn ==
    /\ CanReturn
    /\ phase' = NextPhase
    /\ UNCHANGED <<config, schedVars, queue, inbox, rowVars, pipe, forward, proposed,
                   asyncVars, writeback, results>>

Without(q, R) == SelectSeq(q, LAMBDA r : r \notin R)
Retire(R) ==
    /\ status' = [r \in Req |-> IF r \in R THEN "done" ELSE status[r]]
    /\ running' = Without(running, R)
    /\ waiting' = Without(waiting, R)
    /\ gone' = gone \cup R

(* Drafts of the step that were not accepted.                                *)
Rejected(step, res, r) ==
    IF res[r] # <<>> /\ comp[r] > 0 THEN Len(step.spec[r]) + 1 - Len(res[r]) ELSE 0

(* update_from_output on the oldest step; res[r] are the tokens of r.        *)
UpdateWith(step, res) ==
    LET live == {r \in DOMAIN res : status[r] # "done"}
        more(r) == FirstOf(res[r], MinOf(Len(res[r]), End[r] - Len(text[r])))
    IN  /\ text' = [r \in Req |-> IF r \in live THEN text[r] \o more(r) ELSE text[r]]
        /\ comp' = [r \in Req |-> IF r \in live THEN comp[r] - Rejected(step, res, r)
                                  ELSE comp[r]]
        /\ hold' = [r \in Req |-> IF config.async /\ r \in live
                                  THEN hold[r] - Len(more(r)) ELSE hold[r]]
        /\ Retire({r \in live : Len(text'[r]) = End[r]})

CanUpdate ==
    /\ queue # <<>>
    /\ phase \in {"sent", "empty"} \/ (phase = "top" /\ ~HasRequests)
    /\ Head(queue).order = <<>> \/ results # <<>>

Update ==
    /\ CanUpdate
    /\ IF Head(queue).order = <<>>
       THEN UNCHANGED <<text, status, running, waiting, comp, hold, gone, results>>
       ELSE /\ UpdateWith(Head(queue), Head(results))
            /\ results' = Tail(results)
    /\ queue' = Tail(queue)
    /\ phase' = NextPhase
    /\ UNCHANGED <<config, drafts, chunk, upsets, inbox, rowVars, pipe, forward, proposed,
                   asyncVars, writeback>>

(* post_step: take_draft_token_ids runs on the last rank after every step    *)
(* sent to it; the drafts of a prefill chunk are dropped.                    *)
CanTake == phase = "drafts" /\ inbox[Last1] = <<>> /\ forward = <<>>
TakeDrafts ==
    /\ CanTake
    /\ drafts' = [r \in Req |-> IF r \in DOMAIN proposed /\ status[r] # "done"
                                THEN IF r \in chunk THEN <<>> ELSE proposed[r]
                                ELSE drafts[r]]
    /\ phase' = "top"
    /\ UNCHANGED <<config, text, status, running, waiting, comp, hold, chunk, upsets, gone,
                   queue, inbox, rowVars, pipe, forward, proposed, asyncVars,
                   writeback, results>>

Abort(r) ==
    /\ phase = "top" /\ status[r] # "done"
    /\ upsets < MaxUpsets
    /\ upsets' = upsets + 1
    /\ Retire({r})
    /\ UNCHANGED <<config, text, comp, hold, drafts, chunk, queue, phase, inbox,
                   rowVars, pipe, forward, proposed, asyncVars, writeback, results>>

-----------------------------------------------------------------------------
(* The runner: _update_states.                                               *)

Base(step, r) == step.num[r] - Len(step.spec[r])
step_is_prefill(step) == \E r \in Range(step.order) : Base(step, r) > 1
TokenAt(seq, p) == IF p < Len(seq) THEN seq[p + 1] ELSE Hole
(* seq with the tokens of new written from position p on.                    *)
Written(seq, p, new) ==
    [i \in 1 .. Len(seq) |-> IF p < i /\ i <= p + Len(new) THEN new[i - p] ELSE seq[i]]

(* _apply_pending_token_writeback: the tokens the output thread has read are *)
(* written where their placeholders landed, unless the request was rolled    *)
(* back past the step.  seq is a copy of r's tokens.                         *)
Mended(seq, r) ==
    LET applies(e) == r \in DOMAIN e /\ e[r].at + Len(e[r].new) <= Len(cache[Last1][r])
    IN  FoldLeft(LAMBDA acc, e : IF applies(e) THEN Written(acc, e[r].at, e[r].new)
                                 ELSE acc, seq, writeback)

MendedState(k, r) == Mended(cache[k][r], r)
MendedRow(row) == [row EXCEPT !.toks = Mended(@, row.id)]

(* A rank that does not sample learns the tokens from the scheduler.         *)
Learned(step, r, seq) ==
    LET new == step.at[r] + Base(step, r) - Len(seq)
        pay == step.pay[r]
    IN  IF new > 0 THEN seq \o SubSeq(pay, MaxOf(0, Len(pay) - new) + 1, Len(pay)) ELSE seq

(* Output tokens discarded by the scheduler are dropped.                     *)
Aligned(step, r, seq) ==
    FirstOf(seq, MinOf(Len(seq), step.total[r]))

CacheAfter(k, step, known) ==
    [r \in Req |->
        IF r \in step.gone THEN <<>>
        ELSE IF r \notin Range(step.order) THEN known[r]
        ELSE IF r \in step.fresh THEN RightText(r, Prompt[r])
        ELSE IF k # Last1 THEN Learned(step, r, known[r])
        ELSE Aligned(step, r, known[r])]

(* The cursor of a row is its length: the payload ends at committed_tip.     *)
resolve_propagated_token_write(seq, tip, pay) ==
    IF tip <= Len(seq) THEN seq
    ELSE LET lo == Len(seq) - (tip - Len(pay)) IN seq \o SubSeq(pay, lo + 1, Len(pay))

RowAfter(k, step, row) ==
    LET r == row.id IN
    [id |-> r, spec |-> step.spec[r],
     toks |-> IF k = Last1 THEN Aligned(step, r, row.toks)
              ELSE resolve_propagated_token_write(row.toks,
                       step.at[r] + Base(step, r), step.pay[r])]

IndexIn(q, x) == CHOOSE i \in 1 .. Len(q) : q[i] = x

(* remove_request, add_request (smallest hole first) and condense (the last  *)
(* rows move into the holes that are left); ids: the requests that stay.     *)
Placed(old, ids, add) ==
    LET keeps(row) == row.id \in ids
        places == [i \in 1 .. Len(old) |-> i]
        holes == SelectSeq(places, LAMBDA i : ~keeps(old[i]))
        live == SelectSeq(places, LAMBDA i : keeps(old[i]))
        n == Len(live) + Len(add)
        spare == SelectSeq(SubSeq(holes, Len(add) + 1, Len(holes)), LAMBDA i : i <= n)
        moved == Reverse(SelectSeq(live, LAMBDA i : i > n))
        adds(i) == IF i > Len(old) THEN Len(holes) + i - Len(old) ELSE IndexIn(holes, i)
        row(i) == IF i <= Len(old) /\ keeps(old[i]) THEN old[i]
                  ELSE IF i \in Range(spare) THEN old[moved[IndexIn(spare, i)]]
                  ELSE add[adds(i)]
    IN  [i \in 1 .. n |-> row(i)]

(* _may_reorder_batch: stable, by descending num_tokens_no_spec.             *)
_may_reorder_batch(q) ==
    LET before(i, j) == \/ Len(q[i].toks) > Len(q[j].toks)
                        \/ Len(q[i].toks) = Len(q[j].toks) /\ i < j
        place(j) == 1 + Cardinality({i \in 1 .. Len(q) : before(i, j)})
    IN  IF config.sort
        THEN [n \in 1 .. Len(q) |-> q[CHOOSE j \in 1 .. Len(q) : place(j) = n]]
        ELSE q

-----------------------------------------------------------------------------
(* The runner: _prepare_inputs and the forward pass.                         *)

(* A step with drafts, or every decode step of an EAGLE-like drafter, stages *)
(* num_spec_tokens + 1 queries: the slack is behind the scheduled tokens,    *)
(* or before them where it would run past max_model_len.                     *)
WindowFixed(step) ==
    /\ ~step_is_prefill(step)
    /\ config.fixed \/ \E r \in Range(step.order) : step.spec[r] # <<>>
QueryLen(step, r) == IF WindowFixed(step) THEN config.spec + 1 ELSE step.num[r]

(* Fault: the window never shifts.                                           *)
FrontPadNone(step, r) == 0

FrontPad(step, r) ==
    IF WindowFixed(step) THEN MaxOf(0, step.at[r] + QueryLen(step, r) - MaxModelLen) ELSE 0
BackPad(step, r) == QueryLen(step, r) - step.num[r] - FrontPad(step, r)

(* The window of a row: the position of each query and the token fed there.  *)
Window(step, row) ==
    LET r == row.id
        pos(j) == step.at[r] - FrontPad(step, r) + j - 1
        end == step.at[r] + step.num[r] - 1
    IN  [j \in 1 .. QueryLen(step, r) |->
            [pos |-> pos(j), tok |-> TokenAt(row.toks \o row.spec, MinOf(pos(j), end))]]
Windows(step, q) == [i \in 1 .. Len(q) |-> Window(step, q[i])]

(* Tensors: a slot of the ring, or (0) memory of its own.  val is what was   *)
(* sampled into it.                                                          *)
Value(t) == IF t.slot = 0 THEN t.val ELSE ring.val[t.slot]

(* Fault: equal rows are taken to be the same request.                       *)
_repair_staged_input_idsByRow(step, q, wins) ==
    IF step_is_prefill(step) \/ prev = <<>> THEN wins
    ELSE [i \in 1 .. Len(wins) |->
            IF i \in Range(prev[1].idx)
            THEN [wins[i] EXCEPT ![1].tok = Value(prev[1].t)[i]] ELSE wins[i]]

(* The first query of a decode row is fed from the previous step's output.   *)
_repair_staged_input_ids(step, q, wins) ==
    IF step_is_prefill(step) \/ prev = <<>> THEN wins
    ELSE [i \in 1 .. Len(wins) |->
            IF q[i].id \in DOMAIN prev[1].idx
            THEN [wins[i] EXCEPT ![1].tok = Value(prev[1].t)[prev[1].idx[q[i].id]]]
            ELSE wins[i]]

(* The forward pass of row i: the KV entries of its window are written, and  *)
(* each query yields the token that follows.                                 *)
FedKV(step, q, wins) ==
    [r \in Req |->
        IF r \notin Range(step.order) THEN kv[r]
        ELSE LET win == wins[CHOOSE i \in 1 .. Len(q) : q[i].id = r]
                 first == win[1].pos
                 known == r \notin step.fresh \cup step.resumed
             IN  [p \in DOMAIN kv[r] |->
                     IF first <= p /\ p < first + Len(win) THEN win[p - first + 1].tok
                     ELSE IF known THEN kv[r][p] ELSE Hole]]
Following(cells, r, p) ==
    IF \A x \in 0 .. p : cells[r][x] = Right(r, x) THEN Right(r, p + 1) ELSE Bad
Logits(q, wins, cells) ==
    [i \in 1 .. Len(q) |-> [j \in DOMAIN wins[i] |-> Following(cells, q[i].id, wins[i][j].pos)]]

CanExecute(k) ==
    /\ k \in Ranks /\ inbox[k] # <<>>
    /\ k = Last1 => forward = <<>>
    /\ (k > 1 /\ Head(inbox[k]).order # <<>>) => pipe # <<>>

(* Worker.execute_model on rank k: write-back, _update_states, inputs,       *)
(* forward.  A rank behind the first takes the row i of what it receives.    *)
Execute(k) ==
    /\ CanExecute(k)
    /\ LET step == Head(inbox[k])
           after == CacheAfter(k, step, [r \in Req |-> MendedState(k, r)])
           ids == Range(step.order) \ step.resumed
           keeps(row) == row.id \in ids
           old == [i \in 1 .. Len(rows[k]) |->
                     IF keeps(rows[k][i]) THEN RowAfter(k, step, MendedRow(rows[k][i]))
                     ELSE rows[k][i]]
           add == SelectSeq(step.order, LAMBDA r : \A i \in 1 .. Len(old) :
                                ~(keeps(old[i]) /\ old[i].id = r))
           new == [i \in 1 .. Len(add) |->
                     [id |-> add[i], spec |-> step.spec[add[i]], toks |-> after[add[i]]]]
           q == _may_reorder_batch(Placed(old, ids, new))
           wins == IF config.async
                   THEN _repair_staged_input_ids(step, q, Windows(step, q))
                   ELSE Windows(step, q)
           fed == IF k = 1 THEN FedKV(step, q, wins) ELSE kv
           logits == IF k = 1 THEN Logits(q, wins, fed) ELSE Head(pipe).logits
           out == [step |-> step, logits |-> logits]
       IN  /\ inbox' = [inbox EXCEPT ![k] = Tail(@)]
           /\ cache' = [cache EXCEPT ![k] = after]
           /\ rows' = [rows EXCEPT ![k] = q]
           /\ writeback' = <<>>
           /\ kv' = IF step.order = <<>> THEN kv ELSE fed
           /\ IF step.order = <<>> THEN UNCHANGED <<pipe, forward>>
              ELSE IF k = Last1
              THEN /\ forward' = <<out @@ [wins |-> wins]>>
                   /\ pipe' = IF k = 1 THEN pipe ELSE Tail(pipe)
              ELSE /\ pipe' = Append(pipe, out)
                   /\ UNCHANGED forward
    /\ UNCHANGED <<config, schedVars, queue, phase, proposed, asyncVars, results>>

-----------------------------------------------------------------------------
(* sample_tokens on the last rank, and the output thread.                    *)

(* Fault: a chunk that ends where the known tokens end counts as one too.    *)
DiscardedAtEnd(step, r) == step.at[r] + step.num[r] <= Len(cache[Last1][r])

(* The row is a prefill chunk: its tokens are known beyond the step.         *)
Discarded(step, r) == step.at[r] + step.num[r] < Len(cache[Last1][r])

(* logits_indices: the queries of the anchor and of the drafts.              *)
SampleOffset(step, r) ==
    QueryLen(step, r) - BackPad(step, r) - (Len(step.spec[r]) + 1)

(* The rejection sampler, greedy: the drafts that agree with the model, and  *)
(* one more token.                                                           *)
Sampled(f, i) ==
    LET r == rows[Last1][i].id
        o == SampleOffset(f.step, r)
        agree(j) == f.wins[i][o + j + 1].tok = f.logits[i][o + j]
        acc == CHOOSE a \in 0 .. Len(f.step.spec[r]) :
                 /\ \A j \in 1 .. a : agree(j)
                 /\ a < Len(f.step.spec[r]) => ~agree(a + 1)
    IN  [j \in 1 .. acc + 1 |-> f.logits[i][o + j]]

(* What a drafter may propose behind n tokens of r: right tokens, then wrong *)
(* ones; an n-gram drafter may find fewer than asked for, or none.  Where    *)
(* the longest row leaves no room the drafts are zeros.                      *)
Proposals(step, r, n) ==
    LET fits == \A q \in Range(step.order) :
                  step.at[q] + step.num[q] + config.spec <= MaxModelLen
        found == IF fits /\ ~config.fixed THEN 0 .. config.spec ELSE {config.spec}
        draft(k, good) == [j \in 1 .. k |-> IF j <= good THEN Right(r, n + j - 1) ELSE Bad]
    IN  UNION {{draft(k, good) : good \in IF fits THEN 0 .. k ELSE {0}} : k \in found}

(* _bookkeeping_sync without async scheduling, then the drafts.              *)
SampleSync ==
    /\ forward # <<>> /\ ~config.async
    /\ LET f == forward[1]
           q == rows[Last1]
           ids == {q[i].id : i \in 1 .. Len(q)}
           row(r) == CHOOSE i \in 1 .. Len(q) : q[i].id = r
           new == [r \in ids |-> IF Discarded(f.step, r) THEN <<>> ELSE Sampled(f, row(r))]
       IN  /\ rows' = [rows EXCEPT ![Last1] =
                         [i \in 1 .. Len(q) |-> [q[i] EXCEPT !.toks = @ \o new[q[i].id]]]]
           /\ cache' = [cache EXCEPT ![Last1] =
                          [r \in Req |-> IF r \in ids THEN @[r] \o new[r] ELSE @[r]]]
           /\ results' = Append(results, new)
           /\ LET may(r) == Proposals(f.step, r, Len(cache'[Last1][r]))
              IN  IF config.spec = 0 THEN UNCHANGED proposed
                  ELSE \E d \in [ids -> UNION {may(r) : r \in ids}] :
                         (\A r \in ids : d[r] \in may(r)) /\ proposed' = d
    /\ forward' = <<>>
    /\ UNCHANGED <<config, schedVars, queue, phase, inbox, kv, pipe, asyncVars, writeback>>

(* Fault: one buffer instead of two.                                         *)
NextSlotSame(slot) == slot

NextSlot(slot) == 3 - slot
Bucket(n) == CHOOSE b \in Buckets : b >= n /\ \A c \in Buckets : c >= n => b <= c

(* _stage_into: the ring is allocated anew when the batch size changes; the  *)
(* tensors handed out before keep their memory.                              *)
_stage_into(val, size) ==
    LET fresh == ring.shape # size
        slot == IF fresh THEN 1 ELSE ring.next
        cells == IF fresh THEN <<Empty, Empty>> ELSE ring.val
    IN  [shape |-> size, next |-> NextSlot(slot), val |-> [cells EXCEPT ![slot] = val]]
Detached(t, size) == IF ring.shape # size THEN [slot |-> 0, val |-> Value(t)] ELSE t

(* Fault: the logits processors are given the placeholder.                   *)
_repair_async_output_token_idsNot(seq, r) == seq

(* A placeholder at the end is replaced before logits processors read it.    *)
_repair_async_output_token_ids(seq, r) ==
    IF /\ config.processors /\ prev # <<>> /\ Len(seq) > Prompt[r]
       /\ r \in DOMAIN prev[1].idx /\ Last(seq) = Hole
    THEN Append(Front(seq), Value(prev[1].t)[prev[1].idx[r]])
    ELSE seq

(* The same with async scheduling: placeholders, and an output whose tokens  *)
(* the output thread will read.                                              *)
SampleAsync ==
    /\ forward # <<>> /\ config.async
    /\ LET f == forward[1]
           q == rows[1]
           rowsOf == 1 .. Len(q)
           ids == {q[i].id : i \in rowsOf}
           valid == {r \in ids : ~Discarded(f.step, r)}
           prefill == step_is_prefill(f.step)
           size == IF prefill THEN 1 ELSE Bucket(Len(q))
           val == [i \in rowsOf |-> Sampled(f, i)[1]]
           staged == _stage_into(val, size)
           chunked == prefill /\ valid = {}
           t == IF chunked THEN [slot |-> 0, val |-> <<Hole>>]
                ELSE [slot |-> NextSlot(staged.next), val |-> val]
           kept(u) == IF chunked THEN u ELSE Detached(u, size)
           row == [r \in ids |-> CHOOSE i \in rowsOf : q[i].id = r]
           idx == [r \in valid |-> row[r]]
           seen(r) == IF chunked \/ r \notin ids THEN cache[1][r]
                      ELSE _repair_async_output_token_ids(cache[1][r], r)
       IN  /\ ring' = IF chunked THEN ring ELSE staged
           /\ prev' = <<[t |-> t, idx |-> idx]>>
           /\ outs' = Append([i \in 1 .. Len(outs) |-> [outs[i] EXCEPT !.t = kept(@)]],
                             [t |-> t, row |-> row, valid |-> valid,
                              at |-> [r \in valid |-> Len(q[row[r]].toks)]])
           /\ rows' = [rows EXCEPT ![1] =
                [i \in rowsOf |-> IF q[i].id \in valid
                                  THEN [q[i] EXCEPT !.toks = Append(@, Hole)] ELSE q[i]]]
           /\ cache' = [cache EXCEPT ![1] =
                [r \in Req |-> IF r \in valid THEN Append(seen(r), Hole) ELSE seen(r)]]
    /\ forward' = <<>>
    /\ UNCHANGED <<config, schedVars, queue, phase, inbox, kv, pipe, proposed, writeback,
                   results>>

(* AsyncRBLNModelRunnerOutput.get_output, on the output thread.              *)
GetOutput ==
    /\ outs # <<>>
    /\ LET o == Head(outs)
           token(r) == IF r \in o.valid THEN <<Value(o.t)[o.row[r]]>> ELSE <<>>
       IN  /\ results' = Append(results, [r \in DOMAIN o.row |-> token(r)])
           /\ writeback' = Append(writeback,
                             [r \in o.valid |-> [at |-> o.at[r], new |-> token(r)]])
    /\ outs' = Tail(outs)
    /\ UNCHANGED <<config, schedVars, queue, phase, inbox, rowVars, pipe, forward,
                   proposed, ring, prev>>

-----------------------------------------------------------------------------
Schedule == ScheduleRunning \/ SchedulePreempting \/ ScheduleWaiting
Sample == SampleSync \/ SampleAsync
EngineStep == Schedule \/ EarlyReturn \/ Update \/ TakeDrafts

Next ==
    \/ EngineStep
    \/ \E k \in 1 .. 2 : Execute(k)
    \/ Sample \/ GetOutput
    \/ \E r \in Req : Abort(r)

Spec == Init /\ [][Next]_vars

(* The engine, the workers and the output thread keep running: weak fairness, *)
(* with the guard of each written out.                                        *)
EngineReady == AtTop \/ CanReturn \/ CanUpdate \/ CanTake

Fairness ==
    /\ []<>~EngineReady \/ []<><<EngineStep>>_vars
    /\ \A k \in 1 .. 2 : []<>~CanExecute(k) \/ []<><<Execute(k)>>_vars
    /\ []<>(forward = <<>>) \/ []<><<Sample>>_vars
    /\ []<>(outs = <<>>) \/ []<><<GetOutput>>_vars

FairSpec == Spec /\ Fairness

-----------------------------------------------------------------------------
(* Properties.                                                               *)

(* Every variable has its type; text and copies of it fit max_model_len.     *)
TypeOK ==
    /\ config \in Configs
    /\ phase \in {"top", "sent", "empty", "drafts"}
    /\ Range(running) \cup Range(waiting) = {r \in Req : status[r] # "done"}
    /\ \A r \in Req :
         /\ Range(text[r]) \cup Range(drafts[r]) \subseteq Token
         /\ comp[r] \in 0 .. MaxModelLen /\ hold[r] \in 0 .. 2
         /\ DOMAIN kv[r] = 0 .. MaxModelLen - 1 /\ Range(kv[r]) \subseteq Token
         /\ \A k \in Ranks : Range(cache[k][r]) \subseteq Token
    /\ Len(queue) <= Depth
    /\ Len(pipe) + Len(forward) + Len(outs) + Len(results) <= 2 * Depth

(* Whatever is batched, drafted, preempted, pipelined or still in flight,    *)
(* the client sees the text that decoding each request alone would give, and *)
(* never a placeholder or a token of another request: update_from_output     *)
(* appends only right tokens, in order.                                      *)
G == INSTANCE Generation WITH over <- {r \in config.load : status[r] = "done"}
Generates == G!Spec

(* _stage_into: two slots are enough.  What the output thread and the next   *)
(* step will read is still what was sampled into the buffer.                 *)
RingIntact ==
    /\ \A i \in 1 .. Len(outs) : Value(outs[i].t) = outs[i].t.val
    /\ prev # <<>> => Value(prev[1].t) = prev[1].t.val

(* The assertion of resolve_propagated_token_write: the payload reaches back *)
(* to the cursor of a rank that does not sample, for the row it holds and    *)
(* for the state a row is rebuilt from.                                      *)
PayloadCovers ==
    (config.pp > 1 /\ inbox[1] # <<>>) =>
        LET step == Head(inbox[1])
            reach(r) == step.at[r] + Base(step, r) - Len(step.pay[r])
        IN  /\ \A r \in Range(step.order) \ step.fresh : Len(cache[1][r]) >= reach(r)
            /\ \A i \in 1 .. Len(rows[1]) :
                 rows[1][i].id \in Range(step.order) =>
                     Len(rows[1][i].toks) >= reach(rows[1][i].id)

(* The assertion of _bookkeeping_sync, and the promise of _prepare_inputs:   *)
(* whatever a verification accepts no row grows past max_model_len, and no   *)
(* padded query window runs past it.                                         *)
FitsModelLen ==
    /\ \A k \in Ranks : \A i \in 1 .. Len(rows[k]) : Len(rows[k][i].toks) <= MaxModelLen
    /\ forward # <<>> => \A i \in 1 .. Len(rows[Last1]) :
                            Last(forward[1].wins[i]).pos < MaxModelLen

(* The bounds that the runner's buffers and shapes rest on, in _stage_into,  *)
(* resolve_propagated_token_write and _prepare_inputs: two ring slots, a     *)
(* payload that reaches back to the cursor, windows within max_model_len.    *)
BoundsHold == RingIntact /\ PayloadCovers /\ FitsModelLen

(* _repair_async_output_token_ids: logits processors see real tokens only,   *)
(* although the write-back comes a step late.                                *)
ProcessorsSeeTokens ==
    (config.processors /\ forward # <<>>) =>
        \A r \in Range(forward[1].step.order) :
            Hole \notin Range(_repair_async_output_token_ids(cache[Last1][r], r))

(* Every request ends, however steps and outputs interleave.                 *)
EveryoneFinishes == <>(\A r \in Req : status[r] = "done")
===============================================================================
