---------------------------- MODULE ForwardInputs ----------------------------
(***************************************************************************)
(* What the engine derives for one forward pass: the sizes of its tables    *)
(* (engine/engine.py), the CUDA graph a decode batch is padded to           *)
(* (engine/graph.py), positions and mappings (scheduler/scheduler.py), the  *)
(* metadata of the three attention backends and their capture buffers       *)
(* (attention/), and the sampling arguments (engine/sample.py).             *)
(*                                                                          *)
(* An engine e has the numbers page (tokens of a page), pages, running      *)
(* (request slots), limit (the configured sequence length) and the names    *)
(* of its prefill and decode backends; a request has its row slot of the    *)
(* page table and its cached and device lengths len.  Locations, positions, *)
(* slots and rows of a batch count from zero.                               *)
(***************************************************************************)
EXTENDS Integers, FiniteSets, SequencesExt

CDiv(a, b) == (a + b - 1) \div b
Lesser(a, b) == IF a <= b THEN a ELSE b
Largest(S) == CHOOSE x \in S : \A y \in S : y <= x

(* The page table's rows are aligned to 32 entries; 4 here, and pages and   *)
(* lengths are scaled with it.                                              *)
AlignUnit == 4

-----------------------------------------------------------------------------
(* Sizes.  _adjust_config: "auto" is chosen by the GPU's generation, and a  *)
(* TRTLLM backend forces a page size it knows (16, 32 or 64).               *)
TrtllmPages == {AlignUnit \div 2, AlignUnit, 2 * AlignUnit}

AutoBackends(sm) ==
  CASE sm = 100 -> <<"trtllm", "trtllm">> [] sm = 90 -> <<"fa", "fi">> [] OTHER -> <<"fi", "fi">>

Adjusted(backends, page, sm) ==
  LET chosen == IF backends = <<"auto", "auto">> THEN AutoBackends(sm) ELSE backends
  IN  [prefill |-> chosen[1], decode |-> chosen[2],
       page |-> IF "trtllm" \in {chosen[1], chosen[2]} /\ page \notin TrtllmPages
                THEN 2 * AlignUnit ELSE page]

NumTokens(e) == e.pages * e.page
MaxSeqLen(e) == Lesser(e.limit, NumTokens(e))
AlignUp(n) == CDiv(n, AlignUnit) * AlignUnit
TableWidth(e) == AlignUp(MaxSeqLen(e))

(* _write_page_table writes the columns of whole pages.                     *)
ColumnsWritten(len, e) == CDiv(len, e.page) * e.page

(* Row `slot` of the page table once the request's pages are allocated;     *)
(* pages differ between slots.  The last row is the dummy request's: every  *)
(* entry points to the page behind the last one.                            *)
DummySlot(e) == e.running

PageTable(e, slot, pos) ==
  IF slot = DummySlot(e) THEN NumTokens(e)
  ELSE (slot * CDiv(MaxSeqLen(e), e.page) + pos \div e.page) * e.page + (pos % e.page)

Dummy(e) == [slot |-> DummySlot(e), cached |-> 0, len |-> 1]

-----------------------------------------------------------------------------
(* CUDA graphs.  `listed` is <<>>, or <<sizes>> when cuda_graph_bs gives     *)
(* them; maxBs is -1 when cuda_graph_max_bs is not given.                   *)
MaxGraph(maxBs, freeGB) == IF maxBs # -1 THEN maxBs ELSE IF freeGB > 80 THEN 256 ELSE 160


SizesUpTo(most) ==
  IF most < 1 THEN {} ELSE {1, 2, 4} \cup {8 * i : i \in 1..most \div 8}

CapturedSizes(listed, maxBs, freeGB) ==
  IF listed # <<>> THEN listed[1] ELSE SizesUpTo(MaxGraph(maxBs, freeGB))

MaxGraphBs(sizes) == IF sizes = {} THEN 0 ELSE Largest(sizes)

CanUseGraph(phase, size, sizes) == phase = "decode" /\ size <= MaxGraphBs(sizes)

PaddedSize(phase, size, sizes) ==
  IF CanUseGraph(phase, size, sizes)
  THEN CHOOSE b \in sizes : b >= size /\ \A a \in sizes : a >= size => b <= a
  ELSE size

Padded(e, phase, reqs, sizes) ==
  reqs \o [i \in 1..PaddedSize(phase, Len(reqs), sizes) - Len(reqs) |-> Dummy(e)]

-----------------------------------------------------------------------------
(* Rows of the flattened batch.                                             *)
Extend(r) == r.len - r.cached

FlatRows(reqs) ==
  FlattenSeq([i \in DOMAIN reqs |->
    [j \in 1..Extend(reqs[i]) |-> [slot |-> reqs[i].slot, pos |-> reqs[i].cached + j - 1]]])

Positions(reqs) == LET rows == FlatRows(reqs) IN [i \in DOMAIN rows |-> rows[i].pos]
InputRows(reqs) == LET rows == FlatRows(reqs) IN [i \in DOMAIN rows |-> rows[i].slot]

OutLoc(e, reqs) ==
  [i \in DOMAIN Positions(reqs) |-> PageTable(e, InputRows(reqs)[i], Positions(reqs)[i])]

-----------------------------------------------------------------------------
(* Attention metadata.                                                      *)
CuSum(lens) == [i \in 1..Len(lens) + 1 |-> FoldLeft(+, 0, SubSeq(lens, 1, i - 1))]
LensQ(reqs) == [i \in DOMAIN reqs |-> Extend(reqs[i])]
LensK(reqs) == [i \in DOMAIN reqs |-> reqs[i].len]
MaxOf(lens) == Largest({lens[i] : i \in DOMAIN lens})

(* The three ways the query offsets are made.                               *)
CuSeqlensQ(reqs) ==
  CASE MaxOf(LensQ(reqs)) = 1 -> [i \in 1..Len(reqs) + 1 |-> i - 1]
    [] MaxOf(LensQ(reqs)) # 1 /\ (\A i \in DOMAIN reqs : reqs[i].cached = 0) -> CuSum(LensK(reqs))
    [] OTHER -> CuSum(LensQ(reqs))

(* FlashAttention and TRTLLM: every page_size-th entry of the rows, as page *)
(* numbers, up to the longest request.                                      *)
PagedMetadata(e, reqs) ==
  [cuQ |-> CuSeqlensQ(reqs), cuK |-> CuSum(LensK(reqs)), lens |-> LensK(reqs),
   table |-> [i \in DOMAIN reqs |->
     [j \in 1..CDiv(MaxOf(LensK(reqs)), e.page) |->
        PageTable(e, reqs[i].slot, (j - 1) * e.page) \div e.page]]]

(* FlashInfer treats a page as one token: the rows one behind the other.    *)
RaggedMetadata(e, reqs) ==
  [cuQ |-> CuSeqlensQ(reqs), cuK |-> CuSum(LensK(reqs)), lens |-> LensK(reqs),
   indices |-> FlattenSeq([i \in DOMAIN reqs |->
     [j \in 1..reqs[i].len |-> PageTable(e, reqs[i].slot, j - 1)]])]

(* The rows of logits the model keeps: the last of every request.           *)
LastIndices(cuQ, bs) == [i \in 1..bs |-> cuQ[i + 1] - 1]

(* The locations request i attends to.                                      *)
PagedKeys(e, meta, i) ==
  [p \in 1..meta.lens[i] |->
     meta.table[i][((p - 1) \div e.page) + 1] * e.page + ((p - 1) % e.page)]
RaggedKeys(meta, i) == SubSeq(meta.indices, meta.cuK[i] + 1, meta.cuK[i + 1])

-----------------------------------------------------------------------------
(* Capture and replay.  A graph reads the buffers it was captured with: the *)
(* first bs entries, and for the paged backends the page table's rows.      *)
CaptureWidth(e) == AlignUp(MaxSeqLen(e)) \div e.page

Capture(e, maxBs) ==
  [cuQ |-> [i \in 1..maxBs + 1 |-> i - 1], cuK |-> [i \in 1..maxBs + 1 |-> i - 1],
   lens |-> [i \in 1..maxBs |-> 1],
   table |-> [i \in 1..maxBs |-> [j \in 1..CaptureWidth(e) |-> 0]]]

Copied(buffer, data) ==
  [i \in DOMAIN buffer |-> IF i <= Len(data) THEN data[i] ELSE buffer[i]]

ReplayPaged_KeepsLengths(c, meta) ==
  [c EXCEPT !.cuK = Copied(@, meta.cuK),
            !.table = [i \in DOMAIN @ |-> IF i <= Len(meta.lens) THEN Copied(@[i], meta.table[i]) ELSE @[i]]]

ReplayPaged(c, meta) ==
  [c EXCEPT !.cuK = Copied(@, meta.cuK),
            !.lens = Copied(@, meta.lens),
            !.table = [i \in DOMAIN @ |-> IF i <= Len(meta.lens) THEN Copied(@[i], meta.table[i]) ELSE @[i]]]

(* GraphCaptureBuffer.copy_from: the padded rows.                           *)
ReplayRows(buffer, rows) == Copied(buffer, rows)

(* The cache after the rows' keys and values are stored, one warp per row;  *)
(* rows of one location are the dummy request's, whose order is open.       *)
StoreKV(cache, locs, values) ==
  [loc \in DOMAIN cache |->
     LET here == {i \in DOMAIN locs : locs[i] = loc}
     IN  IF here = {} THEN cache[loc] ELSE {values[i] : i \in here}]

-----------------------------------------------------------------------------
(* Sampling: the arguments of a batch, and those that act on one row.       *)
(* Temperature 0 is greedy, 1 is the smallest temperature, and full is the  *)
(* vocabulary; top_p counts in tenths, tiny being 1.                        *)
IsGreedy(p) == (p.temperature = 0 \/ p.topK = 1) /\ p.topP = 10

SamplingArgs(params, full) ==
  LET most(a, b) == IF a >= b THEN a ELSE b
      ts == [i \in DOMAIN params |-> most(IF IsGreedy(params[i]) THEN 0 ELSE params[i].temperature, 1)]
      ks == [i \in DOMAIN params |-> IF params[i].topK >= 1 THEN params[i].topK ELSE full]
      ps == [i \in DOMAIN params |-> Lesser(most(params[i].topP, 1), 10)]
  IN  IF \A i \in DOMAIN params : IsGreedy(params[i])
      THEN [temperatures |-> <<>>, topK |-> <<>>, topP |-> <<>>]
      ELSE [temperatures |-> ts,
            topK |-> IF \E i \in DOMAIN ks : ks[i] # full THEN ks ELSE <<>>,
            topP |-> IF \E i \in DOMAIN ps : ps[i] < 10 THEN ps ELSE <<>>]

(* sample_impl: what each filter leaves alone when it is not passed.        *)
RowArgs(args, i, full) ==
  IF args.temperatures = <<>> THEN [temperature |-> 1, topK |-> full, topP |-> 10]
  ELSE [temperature |-> args.temperatures[i],
        topK |-> IF args.topK = <<>> THEN full ELSE args.topK[i],
        topP |-> IF args.topP = <<>> THEN 10 ELSE args.topP[i]]

=============================================================================
