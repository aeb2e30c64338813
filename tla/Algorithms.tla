----------------------------- MODULE Algorithms -----------------------------
(***************************************************************************)
(* The pure parts of the program against what they stand for: each action   *)
(* picks one input of one algorithm within the bounds, and the invariants   *)
(* compare what the code computes from it with a reference definition.      *)
(***************************************************************************)
EXTENDS Integers, FiniteSets, SequencesExt

CONSTANTS
  MaxTp,        \* ranks of a tensor-parallel group (a power of two)
  MaxVocab,     \* rows of the vocabulary
  MaxTokens,    \* tokens routed to experts
  MaxText,      \* tokens of a detokenized request
  MaxPrompts    \* prompts of an offline run

ASSUME BoundsAssumption ==
  /\ MaxTp \in {1, 2, 4}
  /\ {MaxVocab, MaxTokens, MaxText, MaxPrompts} \subseteq Nat \ {0}

TP == INSTANCE TensorParallel
EX == INSTANCE Experts
FI == INSTANCE ForwardInputs
TX == INSTANCE Text

VARIABLE input

Idle == [kind |-> "idle"]
Ranks == {1, 2, 4} \cap 1..MaxTp
InSomeOrder(S) == FoldSet(LAMBDA x, seq : Append(seq, x), <<>>, S)
Orders(S) ==
  LET seq == InSomeOrder(S) IN {[i \in DOMAIN seq |-> seq[p[i]]] : p \in Permutations(DOMAIN seq)}
Sequences(S, lo, hi) == UNION {[1..n -> S] : n \in lo..hi}

-----------------------------------------------------------------------------
(* Checkpoints: one layer's attention of each architecture, two dense       *)
(* layers, and two experts.  The tensors that wait for others come in every *)
(* order, those that do not in front of them or behind; every rank loads.   *)

Model(kv, tp) == [heads |-> 4, kv |-> kv, dim |-> 2, inter |-> 4, experts |-> 2, tp |-> tp]

Rows(c, proj) ==
  CASE proj \in {"q", "q_bias", "o"} -> c.heads * c.dim [] proj \in TP!KVTensors -> c.kv * c.dim
    [] proj = "router" -> c.experts [] proj \in {"q_norm", "k_norm"} -> c.dim [] OTHER -> c.inter

Unfused(param) ==
  CASE param = "qkv" -> {"q", "k", "v"} [] param = "qkv_bias" -> {"q_bias", "k_bias", "v_bias"}
    [] param = "gate_up" -> {"gate", "up"} [] OTHER -> {param}

Packed(params) == "router" \in params
LayersOf(params) == IF params = TP!GatedMLP THEN {1, 2} ELSE {1}

Tensors(c, params) ==
  {[layer |-> l, expert |-> e, proj |-> p,
    data |-> [i \in 1..Rows(c, p) |-> <<p, l, e, i - 1>>]] :
      l \in LayersOf(params),
      <<e, p>> \in {x \in {-1, 0, 1} \X UNION {Unfused(q) : q \in params} :
                    x[1] = -1 <=> ~Packed(params) \/ x[2] = "router"}}

Waiting(tensors) == {t \in tensors : t.expert >= 0 \/ Len(TP!MergeInfo(t.proj).slots) > 1}

ChooseCheckpoint ==
  /\ input = Idle
  /\ \E tp \in Ranks, kv \in {1, 2, 4}, front \in BOOLEAN,
        params \in UNION {{TP!Registry[a].attention, TP!Registry[a].mlp} : a \in DOMAIN TP!Registry} :
       LET c == Model(kv, tp)
           waiting == Waiting(Tensors(c, params))
           rest == InSomeOrder(Tensors(c, params) \ waiting)
       IN  /\ TP!Buildable(c)
           /\ "qkv" \in params \/ kv = 4
           /\ "qkv_bias" \in params => front
           /\ \E order \in Orders(waiting) :
                LET files == IF front THEN rest \o order ELSE order \o rest
                IN  input' = [kind |-> "weights", c |-> c, params |-> params,
                              loaded |-> [r \in 0..tp - 1 |-> TP!LoadWeight(files, r, c)]]

(* Every rank but the last has a full share of the vocabulary, the last one *)
(* at least a row.                                                          *)
ChooseVocabulary ==
  /\ input = Idle
  /\ \E vocab \in 1..MaxVocab, tp \in 1..MaxTp, splits \in {1, 2, 4}, bs \in 1..3,
        tied, head \in BOOLEAN :
       /\ (tp - 1) * TP!VocabRows(vocab, tp) < vocab
       /\ input' = [kind |-> "vocabulary", vocab |-> vocab, tp |-> tp, splits |-> splits, bs |-> bs,
                    tied |-> tied, names |-> IF head THEN {"embed", "lm_head"} ELSE {"embed"}]

ChooseDepth ==
  /\ input = Idle
  /\ \E layers \in 0..3 : input' = [kind |-> "layers", layers |-> layers]

(* Tokens are routed to topk experts, all different.                        *)
ChooseRouting ==
  /\ input = Idle
  /\ \E tokens \in 1..MaxTokens, topk \in {1, 2}, experts \in {2, 3}, onInput \in BOOLEAN,
        size \in {<<10, 3>>, <<4, 4>>} :
       /\ tokens <= 3 \/ experts = 2
       /\ \E ids \in [0..tokens * topk - 1 -> 0..experts - 1] :
            /\ \A s, t \in DOMAIN ids : s # t /\ s \div topk = t \div topk => ids[s] # ids[t]
            /\ input' = [kind |-> "experts", ids |-> ids, tokens |-> tokens, topk |-> topk,
                         experts |-> experts, wide |-> size[1], hidden |-> size[2],
                         onInput |-> onInput]

-----------------------------------------------------------------------------
(* Engines, batches and sampling parameters.                                *)
Pages == {1, 2, 4, 8}
Engine(page, limit) == [page |-> page, pages |-> 24 \div page, running |-> 3, limit |-> limit]

ChooseSizes ==
  /\ input = Idle
  /\ \E page \in Pages, limit \in 1..26, backends \in {"trtllm", "fi", "auto"}, sm \in {80, 90, 100} :
       LET cfg == FI!Adjusted(<<backends, backends>>, page, sm)
       IN  input' = [kind |-> "sizes", e |-> Engine(cfg.page, limit), cfg |-> cfg]

(* cuda_graph_bs: not given, empty, or any of three sizes.                   *)
GraphLists == {<<>>} \cup {<<sizes>> : sizes \in SUBSET {2, 5, 12}}

ChooseGraph ==
  /\ input = Idle
  /\ \E most \in -1..20, size \in 1..24, free \in {40, 100}, listed \in GraphLists :
       input' = [kind |-> "graph", listed |-> listed, most |-> most, size |-> size, free |-> free]

Decoding(slot, len) == [slot |-> slot, cached |-> len - 1, len |-> len]

ChoosePrefill ==
  /\ input = Idle
  /\ \E page \in Pages, lens \in Sequences({<<a, b>> \in (0..4) \X (1..5) : a < b}, 1, 2) :
       input' = [kind |-> "prefill", e |-> Engine(page, 6),
                 reqs |-> [i \in DOMAIN lens |->
                             [slot |-> 3 - i, cached |-> lens[i][1], len |-> lens[i][2]]]]

(* A decode batch, and the one replayed before it.                          *)
ChooseDecode ==
  /\ input = Idle
  /\ \E page \in Pages, before \in Sequences({2, 6}, 1, 3), lens \in Sequences({2, 3, 6}, 1, 3) :
       input' = [kind |-> "decode", e |-> Engine(page, 6),
                 before |-> [i \in DOMAIN before |-> Decoding(i - 1, before[i])],
                 reqs |-> [i \in DOMAIN lens |-> Decoding(3 - i, lens[i])]]

ChooseSampling ==
  /\ input = Idle
  /\ \E params \in Sequences([temperature : {0, 5}, topK : {-1, 1, 3}, topP : {0, 7, 10}], 1, 2) :
       input' = [kind |-> "sampling", params |-> params]

-----------------------------------------------------------------------------
(* Token texts: no token ends in half a character after a whole one.        *)
TokenTexts == {<<"a">>, <<"space">>, <<"newline">>, <<"lead">>, <<"tail">>, <<"lead", "tail">>,
               <<"space", "lead">>}

ChooseText ==
  /\ input = Idle
  /\ \E tokens \in Sequences(TokenTexts, 0, MaxText), ended \in BOOLEAN :
       /\ tokens # <<>> \/ ended
       /\ input' = [kind |-> "text", tokens |-> IF ended THEN Append(tokens, TX!EOS) ELSE tokens]

ChoosePrompts ==
  /\ input = Idle
  /\ \E lens \in Sequences({1, 3, 6}, 1, MaxPrompts), asked \in {2, 9}, shared \in BOOLEAN,
        budget \in {1, 3, 4}, admit \in {1, 2} :
       input' = [kind |-> "prompts", admit |-> admit,
                 run |-> [lens |-> lens, asked |-> asked, shared |-> shared,
                          budget |-> budget, limit |-> 6]]

Done == input # Idle /\ input' = Idle

Init == input = Idle

Next ==
  \/ ChooseCheckpoint \/ ChooseVocabulary \/ ChooseDepth \/ ChooseRouting
  \/ ChooseSizes \/ ChooseGraph \/ ChoosePrefill \/ ChooseDecode \/ ChooseSampling
  \/ ChooseText \/ ChoosePrompts
  \/ Done

Spec == Init /\ [][Next]_input

-----------------------------------------------------------------------------
(* The loader of every rank ends with empty buffers, in whatever order the  *)
(* files hold the tensors, and with exactly the parameters its layers       *)
(* declare; and the ranks together have every query head with the KV head   *)
(* of its group, and every neuron of every layer and expert, once.          *)
CheckpointSharded(in) ==
  LET c == in.c
      Has(r, layer, proj) == TP!Parameter(in.loaded[r].yielded, layer, proj)
      Once(parts, whole) ==
        /\ UNION {parts[r] : r \in 0..c.tp - 1} = whole
        /\ \A r, q \in 0..c.tp - 1 : r # q => parts[r] \cap parts[q] = {}
      HeadRow(proj, h) == [i \in 1..c.dim |-> <<proj, 1, -1, h * c.dim + i - 1>>]
      HeadOf(h) == LET g == h \div (c.heads \div c.kv)
                 IN  HeadRow("q", h) \o HeadRow("k", g) \o HeadRow("v", g)
      BiasOf(row) == [row EXCEPT ![1] = CASE @ = "q" -> "q_bias" [] @ = "k" -> "k_bias" [] @ = "v" -> "v_bias"]
      Neurons(layer, e) ==
        {<<<<"gate", layer, e, i>>, <<"up", layer, e, i>>, <<"down", layer, e, i>>>> : i \in 0..c.inter - 1}
  IN  /\ \A r \in 0..c.tp - 1 :
           /\ in.loaded[r].merge = {} /\ in.loaded[r].stack = {}
           /\ TP!StateDictFits(in.loaded[r].yielded, c, LayersOf(in.params), in.params, Packed(in.params))
      /\ "qkv" \in in.params =>
           Once([r \in 0..c.tp - 1 |-> TP!AttentionOf(Has(r, 1, "qkv"), Has(r, 1, "o"), c)],
                {<<HeadOf(h), HeadRow("o", h)>> : h \in 0..c.heads - 1})
      /\ "qkv_bias" \in in.params => \A r \in 0..c.tp - 1 :
           Has(r, 1, "qkv_bias") = [i \in DOMAIN Has(r, 1, "qkv") |-> BiasOf(Has(r, 1, "qkv")[i])]
      /\ in.params = TP!GatedMLP => \A l \in {1, 2} :
           Once([r \in 0..c.tp - 1 |-> TP!NeuronsOf(Has(r, l, "gate_up"), Has(r, l, "down"))],
                Neurons(l, -1))
      /\ in.params = TP!MoEMLP => \A e \in {0, 1} :
           Once([r \in 0..c.tp - 1 |->
                   TP!NeuronsOf(Has(r, 1, "gate_up")[e + 1], Has(r, 1, "down")[e + 1])],
                Neurons(1, e))

(* The embedding of a token is its row from exactly one rank and zeros from *)
(* the others; the gathered logits are those of the whole vocabulary, row   *)
(* by row, from the head or the embedding it is tied to; the shares only    *)
(* load when they are all full, and without a head only when it is tied.    *)
VocabularyWhole(in) ==
  LET ids == [i \in 1..in.vocab |-> i - 1]
      Part(r) == TP!EmbeddingPart(in.vocab, in.tp, r, ids, in.splits)
      Terms(i) == TP!AllReduce([r \in 0..in.tp - 1 |-> {Part(r)[i]} \ ({TP!Zero} \X (0..3))], in.tp)
  IN  /\ \A i \in 1..in.vocab * in.splits :
           \E r \in 0..in.tp - 1 :
             Terms(i) = {<<r, <<<<"embed", (i - 1) \div in.splits>>, (i - 1) % in.splits>>>>}
      /\ TP!GatherLogits(in.tied, in.vocab, in.tp, in.bs)
           = [b \in 1..in.bs |-> [v \in 1..in.vocab |->
                <<b - 1, <<IF in.tied THEN "embed" ELSE "lm_head", v - 1>>>>]]
      /\ TP!VocabularyLoads(in.names, in.tied, in.vocab, in.tp)
           <=> in.vocab % in.tp = 0 /\ (in.tied \/ "lm_head" \in in.names)

(* The fused norms compute h + attn(norm(h)), then that + mlp(norm(that)).  *)
PreNormReference(layers) ==
  LET Block(h, l) ==
        LET mid == h \cup TP!Term("attn", l, TP!Term("input_norm", l, h))
        IN  mid \cup TP!Term("mlp", l, TP!Term("post_norm", l, mid))
  IN  TP!Term("norm", 0, FoldLeft(Block, TP!Term("embed", 0, {}), [l \in 1..layers |-> l]))

(* The ranks together compute the model of the checkpoint: its heads and    *)
(* neurons, its vocabulary and its residual stream (weight.py, layers/,     *)
(* models/llama.py).                                                        *)
RanksComputeModel ==
  /\ input.kind = "weights" => CheckpointSharded(input)
  /\ input.kind = "vocabulary" => VocabularyWhole(input)
  /\ input.kind = "layers" => TP!Model(input.layers) = PreNormReference(input.layers)

(* Every column of every choice of every token is computed by exactly one   *)
(* program, with the chosen expert, weighted once, and summed: programs of  *)
(* a grid that is larger than the work must leave or mask, and the two      *)
(* kernels read their rows through different numberings (moe/fused.py,      *)
(* kernel/triton/fused_moe.py).                                             *)
EachChoiceOnce ==
  input.kind = "experts" =>
    EX!FusedExperts(input.ids, input.tokens, input.topk, input.experts,
                    input.wide, input.hidden, input.onInput)
      = EX!ExpertOutput(input.ids, input.tokens, input.topk,
                        input.wide, input.hidden, input.onInput)

-----------------------------------------------------------------------------
(* Page tables are aligned to 32 columns and written in whole pages.  They  *)
(* hold every sequence that may run, and so does a captured graph's table.  *)
(* Excepted are pages wider than the alignment, of 64, when the longest     *)
(* sequence ends in the first half of a page: nothing is claimed of them.   *)
LastPageFits(longest, e) == e.page <= FI!AlignUnit \/ longest % e.page \notin 1..FI!AlignUnit

TableHoldsSequences(in) ==
  LET e == in.e
      longest == FI!MaxSeqLen(e)
  IN  /\ LastPageFits(longest, e) => /\ FI!ColumnsWritten(longest, e) <= FI!TableWidth(e)
                                     /\ FI!CDiv(longest, e.page) <= FI!CaptureWidth(e)
      /\ "trtllm" \in {in.cfg.prefill, in.cfg.decode} => in.cfg.page \in FI!TrtllmPages

(* Decode batches up to the configured maximum, rounded down to eights, run *)
(* as graphs with less than eight rows of padding; with listed sizes, those *)
(* up to the largest, and a batch of a listed size without padding.  A      *)
(* larger batch runs as it is.  Nothing larger than the maximum is captured *)
(* where the maximum is 4 or more; of 1 to 3 nothing is claimed.            *)
GraphHoldsBatch(in) ==
  LET sizes == FI!CapturedSizes(in.listed, in.most, in.free)
      most == IF in.listed = <<>> THEN FI!MaxGraph(in.most, in.free)
              ELSE FI!Largest({0} \cup in.listed[1])
      graph == FI!CanUseGraph("decode", in.size, sizes)
      padded == FI!PaddedSize("decode", in.size, sizes)
  IN  /\ padded >= in.size
      /\ IF graph THEN padded \in sizes ELSE padded = in.size
      /\ in.size \in sizes => padded = in.size
      /\ in.listed = <<>> => /\ in.size <= 8 * (most \div 8) => graph
                             /\ padded < in.size + 8
      /\ in.listed # <<>> => (graph <=> in.size <= most)
      /\ in.listed = <<>> /\ most >= 4 => \A size \in sizes : size <= most


(* What a request's rows read and write in a batch is what they would       *)
(* alone: its new positions, the locations of its own row of the page table *)
(* as keys and as targets, its own last row of logits.                      *)
Locations(e, r, first) == [p \in 1..r.len - first |-> FI!PageTable(e, r.slot, first + p - 1)]

OwnRows(e, reqs, count, cuQ) ==
  \A i \in 1..count :
    LET first == cuQ[i] + 1
        last == cuQ[i + 1]
    IN  /\ last = first + FI!Extend(reqs[i]) - 1
        /\ SubSeq(FI!Positions(reqs), first, last)
             = [p \in 1..FI!Extend(reqs[i]) |-> reqs[i].cached + p - 1]
        /\ SubSeq(FI!OutLoc(e, reqs), first, last) = Locations(e, reqs[i], reqs[i].cached)
        /\ FI!LastIndices(cuQ, count)[i] = last - 1

PrefillReadsOwn(in) ==
  LET paged == FI!PagedMetadata(in.e, in.reqs)
      ragged == FI!RaggedMetadata(in.e, in.reqs)
      n == Len(in.reqs)
  IN  /\ OwnRows(in.e, in.reqs, n, paged.cuQ) /\ OwnRows(in.e, in.reqs, n, ragged.cuQ)
      /\ \A i \in 1..n : /\ FI!PagedKeys(in.e, paged, i) = Locations(in.e, in.reqs[i], 0)
                         /\ FI!RaggedKeys(ragged, i) = Locations(in.e, in.reqs[i], 0)

(* A decode batch is padded and replayed in buffers another batch left; the *)
(* cache changes at the requests' new locations and in the dummy page.      *)
DecodeReadsOwn(in) ==
  LET e == in.e
      sizes == FI!CapturedSizes(<<>>, 4, 0)
      Pad(reqs) == FI!Padded(e, "decode", reqs, sizes)
      reqs == Pad(in.reqs)
      n == Len(in.reqs)
      Replay(c, b) == FI!ReplayPaged(c, FI!PagedMetadata(e, Pad(b)))
      buffers == Replay(Replay(FI!Capture(e, FI!MaxGraphBs(sizes)), in.before), in.reqs)
      rows == FI!ReplayRows(FI!ReplayRows([i \in 1..4 |-> 0], FI!OutLoc(e, Pad(in.before))), FI!OutLoc(e, reqs))
      graphRows == SubSeq(rows, 1, Len(reqs))
      empty == [loc \in 0..FI!NumTokens(e) + e.page - 1 |-> {}]
      stored == FI!StoreKV(empty, graphRows, [i \in 1..Len(reqs) |-> i])
      ragged == FI!RaggedMetadata(e, reqs)
  IN  /\ OwnRows(e, reqs, Len(reqs), buffers.cuQ)
      /\ \A i \in 1..Len(reqs) : FI!RaggedKeys(ragged, i) = Locations(e, reqs[i], 0)
      /\ \A i \in 1..n :
           /\ FI!PagedKeys(e, buffers, i) = Locations(e, in.reqs[i], 0)
           /\ buffers.cuK[i + 1] - buffers.cuK[i] = in.reqs[i].len
           /\ stored[FI!PageTable(e, in.reqs[i].slot, in.reqs[i].cached)] = {i}
      /\ \A loc \in 0..FI!NumTokens(e) - 1 : stored[loc] \subseteq 1..n

(* Greedy rows and others are sampled alike whatever batch they are in,     *)
(* leaving ties aside.                                                      *)
Acting(row) == IF row.temperature = 1 \/ row.topK = 1 THEN "greedy" ELSE row

SamplesAlone(in) ==
  \A i \in DOMAIN in.params :
    Acting(FI!RowArgs(FI!SamplingArgs(in.params, 9), i, 9))
      = Acting(FI!RowArgs(FI!SamplingArgs(<<in.params[i]>>, 9), 1, 9))

(* In a flattened, padded or replayed batch every row reads and writes what *)
(* belongs to its request, as it would alone (scheduler.py:276-307,         *)
(* attention/, graph.py:20-46, sample.py:24-68).                            *)
RowsReadTheirOwn ==
  /\ input.kind = "prefill" => PrefillReadsOwn(input)
  /\ input.kind = "decode" => DecodeReadsOwn(input)
  /\ input.kind = "sampling" => SamplesAlone(input)

-----------------------------------------------------------------------------
(* The increments put together never run ahead of the text nor repeat any   *)
(* of it, and at the end lack only a trailing part of characters that never *)
(* became whole (DetokenizeManager.detokenize, detokenize.py:73-111).       *)
IncrementsAreText ==
  input.kind = "text" =>
    LET end == TX!DetokenizeAll(input.tokens)
        text == TX!Decode(end.ids)
        shown == FlattenSeq(end.out)
    IN  /\ IsPrefix(shown, text)
        /\ \A i \in Len(shown) + 1..Len(text) : text[i] = "?"
        /\ \A n \in DOMAIN end.out :
             IsPrefix(FlattenSeq(SubSeq(end.out, 1, n)), TX!Decode(SubSeq(input.tokens, 1, n)))


=============================================================================
