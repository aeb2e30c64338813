--------------------------- MODULE TensorParallel ---------------------------
(***************************************************************************)
(* How a checkpoint is cut over tensor-parallel ranks (models/weight.py),   *)
(* which parameters the layers of a rank declare (layers/), and how the     *)
(* ranks' partial results are put together again (distributed/,            *)
(* kernel/csrc).  A tensor is the sequence of its slices along the one      *)
(* dimension it is cut in; a slice is a label <<projection, index>>.  A     *)
(* checkpoint tensor is a record [layer, expert, proj, data]; expert is -1  *)
(* outside the experts.  Ranks, heads and rows count from zero as in the    *)
(* code, sequences from one.                                                *)
(***************************************************************************)
EXTENDS Integers, FiniteSets, SequencesExt

Least(a, b) == IF a <= b THEN a ELSE b
DivCeil(a, b) == (a + b - 1) \div b

(* div_even: whether the division is allowed, and its value.                *)
Divides(a, b) == a % b = 0
DivEven(a, b) == a \div b
MayReplicate(a, b) == IF b > a THEN Divides(b, a) ELSE Divides(a, b)
DivReplicated(a, b) == IF b > a THEN 1 ELSE a \div b

-----------------------------------------------------------------------------
(* The cut of one tensor: rank r of n.  A configuration c has the numbers   *)
(* heads, kv (query and KV heads), dim (rows of a head), inter (rows of the *)
(* hidden layer), experts and tp (ranks).                                   *)

(* A projection's bias is a tensor of its own, under the same name.         *)
KVTensors == {"k", "v", "k_bias", "v_bias"}
SplitDim0 == {"q", "q_bias", "gate", "up"} \cup KVTensors
SplitDim1 == {"o", "down"}
Vocabulary == {"embed", "lm_head"}

Slice(data, first, last) == SubSeq(data, first + 1, Least(last, Len(data)))

(* torch.chunk: n pieces of the length rounded up, the last one shorter.    *)
Chunk(data, r, n) ==
  LET size == DivCeil(Len(data), n) IN Slice(data, r * size, (r + 1) * size)

ShardTensor_CyclicHeads(proj, data, r, n, kv) ==
  IF proj \in KVTensors /\ kv < n
  THEN LET rows == Len(data) \div kv
       IN  Slice(data, (r % kv) * rows, ((r % kv) + 1) * rows)
  ELSE IF proj \in SplitDim0 \cup SplitDim1 \cup Vocabulary THEN Chunk(data, r, n) ELSE data

ShardTensor(proj, data, r, n, kv) ==
  CASE proj \in KVTensors /\ kv < n ->
         LET rows == Len(data) \div kv
             head == (r * kv) \div n
         IN  Slice(data, head * rows, (head + 1) * rows)
    [] proj \in SplitDim0 /\ ~(proj \in KVTensors /\ kv < n) -> Chunk(data, r, n)
    [] proj \in SplitDim1 -> Chunk(data, r, n)
    [] proj \in Vocabulary ->
         LET rows == DivCeil(Len(data), n) IN Slice(data, r * rows, (r + 1) * rows)
    [] OTHER -> data

(* The fused tensor a projection belongs to, its parts in order.            *)
MergeInfo(proj) ==
  CASE proj \in {"q", "k", "v"} -> [fused |-> "qkv", slots |-> <<"q", "k", "v">>]
    [] proj \in {"q_bias", "k_bias", "v_bias"} ->
         [fused |-> "qkv_bias", slots |-> <<"q_bias", "k_bias", "v_bias">>]
    [] proj \in {"gate", "up"}  -> [fused |-> "gate_up", slots |-> <<"gate", "up">>]
    [] OTHER                    -> [fused |-> proj, slots |-> <<proj>>]

(* Buffers of the streaming loader: cut parts that wait for their group,    *)
(* expert tensors that wait for the other experts, and what was yielded.    *)
EmptyLoader == [merge |-> {}, stack |-> {}, yielded |-> <<>>]

Yield(s, key, data) ==
  [s EXCEPT !.yielded = Append(@, [layer |-> key.layer, proj |-> key.proj, data |-> data])]

(* Experts are stacked by index once as many of them came as there are.     *)
StackExpert(s, t, c) ==
  LET held == {p \in s.stack \cup {t} : p.layer = t.layer /\ p.proj = t.proj}
      Of(e) == (CHOOSE p \in held : p.expert = e).data
  IN  IF t.expert < 0 THEN Yield(s, t, t.data)
      ELSE IF Cardinality(held) # c.experts THEN [s EXCEPT !.stack = @ \cup {t}]
      ELSE Yield([s EXCEPT !.stack = @ \ held], t, [i \in 1..c.experts |-> Of(i - 1)])

(* One tensor of the checkpoint: cut, merged with its group, stacked.       *)
FeedTensor(s, t, r, c) ==
  LET info == MergeInfo(t.proj)
      part == [t EXCEPT !.data = ShardTensor(t.proj, @, r, c.tp, c.kv)]
      held == {p \in s.merge \cup {part} : /\ p.layer = t.layer /\ p.expert = t.expert
                                           /\ MergeInfo(p.proj) = info}
      Slot(name) == (CHOOSE p \in held : p.proj = name).data
      parts == [i \in DOMAIN info.slots |-> Slot(info.slots[i])]
  IN  IF Cardinality(held) < Len(info.slots)
      THEN [s EXCEPT !.merge = @ \cup {part}]
      ELSE StackExpert([s EXCEPT !.merge = @ \ held],
                       [part EXCEPT !.proj = info.fused, !.data = FlattenSeq(parts)], c)

(* The loader over the tensors in the order the files hold them.            *)
LoadWeight(order, r, c) == FoldLeft(LAMBDA s, t : FeedTensor(s, t, r, c), EmptyLoader, order)

-----------------------------------------------------------------------------
(* The parameters the layers of a rank declare: length along the cut.       *)

LocalQ(c) == DivEven(c.heads, c.tp)
LocalKV(c) == DivReplicated(c.kv, c.tp)
QKVRows(c) == (LocalQ(c) + 2 * LocalKV(c)) * c.dim
OProjColumns(c) == DivEven(c.heads * c.dim, c.tp)
GateUpRows(c) == 2 * DivEven(c.inter, c.tp)
DownColumns(c) == DivEven(c.inter, c.tp)
VocabRows(vocab, tp) == DivCeil(vocab, tp)

Buildable(c) ==
  /\ Divides(c.heads, c.kv)
  /\ Divides(c.heads, c.tp)
  /\ MayReplicate(c.kv, c.tp)
  /\ Divides(c.inter, c.tp)

(* The parameters of one decoder layer by architecture: RopeAttn with or    *)
(* without a bias and norms of the heads, a gated or an expert MLP.         *)
RopeAttn(hasBias, hasNorm) ==
  {"qkv", "o"} \cup (IF hasBias THEN {"qkv_bias"} ELSE {})
               \cup (IF hasNorm THEN {"q_norm", "k_norm"} ELSE {})
GatedMLP == {"gate_up", "down"}
MoEMLP == GatedMLP \cup {"router"}

Llama    == [attention |-> RopeAttn(FALSE, FALSE), mlp |-> GatedMLP]
Mistral  == [attention |-> RopeAttn(FALSE, FALSE), mlp |-> GatedMLP]
Qwen2    == [attention |-> RopeAttn(TRUE, FALSE), mlp |-> GatedMLP]
Qwen3    == [attention |-> RopeAttn(FALSE, TRUE), mlp |-> GatedMLP]
Qwen3Moe == [attention |-> RopeAttn(FALSE, TRUE), mlp |-> MoEMLP]

Registry ==
  [LlamaForCausalLM |-> Llama, MistralForCausalLM |-> Mistral,
   Mistral3ForConditionalGeneration |-> Mistral,
   Qwen2ForCausalLM |-> Qwen2, Qwen3ForCausalLM |-> Qwen3, Qwen3MoeForCausalLM |-> Qwen3Moe]

(* The shape of a packed expert tensor has the experts in front.            *)
ExpertShape(c, rows) == [i \in 1..c.experts |-> rows]

Shape(c, proj, packed) ==
  CASE proj \in {"qkv", "qkv_bias"} -> <<QKVRows(c)>>
    [] proj = "o"       -> <<OProjColumns(c)>>
    [] proj = "gate_up" -> IF packed THEN ExpertShape(c, GateUpRows(c)) ELSE <<GateUpRows(c)>>
    [] proj = "down"    -> IF packed THEN ExpertShape(c, DownColumns(c)) ELSE <<DownColumns(c)>>
    [] proj = "router"  -> <<c.experts>>
    [] proj \in {"q_norm", "k_norm"} -> <<c.dim>>

(* load_state_dict: every parameter is there once with its shape, and no    *)
(* other key is left.                                                       *)
StateDictFits(yielded, c, layers, projs, packed) ==
  /\ Len(yielded) = Cardinality(layers \X projs)
  /\ \A key \in layers \X projs : \E i \in DOMAIN yielded :
        LET y == yielded[i]
            stacked == packed /\ y.proj \in {"gate_up", "down"}
        IN  /\ y.layer = key[1] /\ y.proj = key[2]
            /\ Shape(c, y.proj, packed)
                 = IF stacked THEN [e \in DOMAIN y.data |-> Len(y.data[e])] ELSE <<Len(y.data)>>

Parameter(yielded, layer, proj) ==
  LET i == CHOOSE j \in DOMAIN yielded : yielded[j].layer = layer /\ yielded[j].proj = proj
  IN  yielded[i].data

(* AttentionLayer: the fused rows split into the rank's q, k and v heads;   *)
(* the attention kernel gives query head j the KV head j \div group; output *)
(* column block j of o_proj takes its result.                               *)
HeadRows(data, first, c, h) == SubSeq(data, first + h * c.dim + 1, first + (h + 1) * c.dim)

HeadsOf(qkv, c) ==
  LET kStart == LocalQ(c) * c.dim
      vStart == kStart + LocalKV(c) * c.dim
      group == LocalQ(c) \div LocalKV(c)
  IN  [j \in 0..LocalQ(c) - 1 |->
         HeadRows(qkv, 0, c, j) \o HeadRows(qkv, kStart, c, j \div group)
           \o HeadRows(qkv, vStart, c, j \div group)]

AttentionOf(qkv, o, c) ==
  LET heads == HeadsOf(qkv, c)
  IN  {<<heads[j], HeadRows(o, 0, c, j)>> : j \in DOMAIN heads}

(* GatedMLP, and an expert of MoELayer: the activation takes the first half *)
(* of the fused rows times the second; column i of down_proj takes row i.   *)
NeuronsOf(gateUp, down) ==
  LET half == Len(gateUp) \div 2
  IN  {<<gateUp[i], gateUp[half + i], down[i]>> : i \in 1..half}

-----------------------------------------------------------------------------
(* The collectives, and the layers at both ends.                            *)

(* all_reduce: the ranks' contributions summed; a sum of labels is the bag  *)
(* of the ranks' terms.                                                     *)
AllReduce(term, tp) == UNION {{r} \X term[r] : r \in 0..tp - 1}

(* all_gather: the ranks' buffers one behind the other.                     *)
AllGather(buffer, tp) == FlattenSeq([i \in 1..tp |-> buffer[i - 1]])

(* indexing: the warps of whole blocks, each with one part of one row.      *)
(* Positions are unsigned words of W values.                                *)
WarpsPerBlock == 4
W == 256
Zero == <<"zero", 0>>

Warps(rows, splits) == LET n == rows * splits IN DivCeil(n, WarpsPerBlock) * WarpsPerBlock

InRange(x, start, length) == (x - start) % W < length

IndexKernel(weights, x, splits, start, length) ==
  LET live == {w \in 0..Warps(Len(x), splits) - 1 : w < Len(x) * splits}
      Copied(w) == LET id == x[(w \div splits) + 1]
                   IN  IF ~InRange(id, start, length) THEN Zero
                       ELSE IF id < start THEN <<"outside", id>>
                       ELSE weights[id - start + 1]
  IN  [i \in 1..Cardinality(live) |-> <<Copied(i - 1), (i - 1) % splits>>]

VocabStart(vocab, tp, r) == VocabRows(vocab, tp) * r
VocabLength(vocab, tp, r) ==
  Least(VocabStart(vocab, tp, r) + VocabRows(vocab, tp), vocab) - VocabStart(vocab, tp, r)

(* A rank's rows: its cut of the tensor, unused rows behind it.             *)
RankRows(name, vocab, tp, r) ==
  LET cut == ShardTensor(name, [i \in 1..vocab |-> <<name, i - 1>>], r, tp, 0)
  IN  [i \in 1..VocabRows(vocab, tp) |-> IF i <= Len(cut) THEN cut[i] ELSE <<"unused", i>>]

EmbeddingPart(vocab, tp, r, x, splits) ==
  IF tp = 1 THEN IndexKernel(RankRows("embed", vocab, 1, 0), x, splits, 0, W)
  ELSE IndexKernel(RankRows("embed", vocab, tp, r), x, splits,
                   VocabStart(vocab, tp, r), VocabLength(vocab, tp, r))

(* ParallelLMHead.forward: logits of bs rows from the head or the embedding *)
(* it is tied to, gathered rank by rank, then put in the order of the rows  *)
(* and cut to the vocabulary.                                               *)
Logits(tied, vocab, tp, r, bs) ==
  LET per == VocabRows(vocab, tp)
      rows == RankRows(IF tied THEN "embed" ELSE "lm_head", vocab, tp, r)
  IN  [i \in 1..bs * per |-> <<(i - 1) \div per, rows[((i - 1) % per) + 1]>>]

GatherLogits(tied, vocab, tp, bs) ==
  LET per == VocabRows(vocab, tp)
      flat == AllGather([r \in 0..tp - 1 |-> Logits(tied, vocab, tp, r, bs)], tp)
      Permuted(b, r, i) == flat[r * bs * per + b * per + i + 1]
  IN  IF bs = 1 THEN <<[v \in 1..vocab |-> flat[v]]>>
      ELSE [b \in 1..bs |-> [v \in 1..vocab |->
              Permuted(b - 1, (v - 1) \div per, (v - 1) % per)]]

(* load_state_dict of the embedding and the head, from the names there are: *)
(* a tied head drops a weight of its own, another must find one; the shapes *)
(* must agree, so every rank must have a full share; no name may be left.   *)
VocabularyLoads(names, tied, vocab, tp) ==
  LET Full(name, r) ==
        Len(ShardTensor(name, [i \in 1..vocab |-> i], r, tp, 0)) = VocabRows(vocab, tp)
      loaded == IF tied THEN {"embed"} ELSE {"embed", "lm_head"}
  IN  /\ loaded \subseteq names
      /\ \A name \in loaded, r \in 0..tp - 1 : Full(name, r)
      /\ names \ (IF tied THEN loaded \cup {"lm_head"} ELSE loaded) = {}

-----------------------------------------------------------------------------
(* The residual stream: an activation is a set of terms, a sum their union. *)

Term(op, layer, arg) == {<<op, layer, arg>>}

(* RMSNormFused.forward: the pair (x, residual); "first" has no residual.   *)
FusedNorm(name, layer, x, residual, first) ==
  LET sum == IF first THEN x ELSE residual \cup x
  IN  <<Term(name, layer, sum), sum>>

DecoderLayer(layer, x, residual) ==
  LET a == FusedNorm("input_norm", layer, x, residual, layer = 1)
      b == FusedNorm("post_norm", layer, Term("attn", layer, a[1]), a[2], FALSE)
  IN  <<Term("mlp", layer, b[1]), b[2]>>

Model(layers) ==
  LET Run(s, layer) == DecoderLayer(layer, s[1], s[2])
      out == FoldLeft(Run, <<Term("embed", 0, {}), {}>>, [l \in 1..layers |-> l])
  IN  FusedNorm("norm", 0, out[1], out[2], layers = 0)[1]

=============================================================================
