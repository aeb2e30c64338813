------------------------------ MODULE Experts ------------------------------
(***************************************************************************)
(* The fused mixture-of-experts layer (moe/fused.py, kernel/moe_impl.py,    *)
(* kernel/triton/fused_moe.py): the routed (token, choice) slots are sorted  *)
(* by expert into padded blocks, one program of a grid multiplies one block  *)
(* of slots with one block of columns, and the choices of a token are        *)
(* summed.  Numbers are symbolic: a value is a label of what it was          *)
(* computed from.  Slots, tokens, experts, columns and programs count from   *)
(* zero; ids[slot] is the expert of a slot, topk slots to a token.           *)
(***************************************************************************)
EXTENDS Integers, FiniteSets, SequencesExt

CDiv(a, b) == (a + b - 1) \div b

(* get_default_config: the large blocks, or the small ones when there are   *)
(* no more tokens than experts.  Scaled down from 64/64/32/8, 16/32/64/1.   *)
DefaultConfig(tokens, experts) ==
  IF tokens <= experts THEN [m |-> 2, n |-> 2, k |-> 4, group |-> 1]
  ELSE [m |-> 3, n |-> 4, k |-> 2, group |-> 3]

(* moe_align_block_size: the buffers are sized for the worst case; every    *)
(* expert's slots are padded to whole blocks with an index past the last    *)
(* slot, and each block has the expert it belongs to.                       *)
SlotsOf(ids, e) == SetToSortSeq({s \in DOMAIN ids : ids[s] = e}, <)

BufferLength(slots, experts, block) == slots + (experts + 1) * (block - 1)

PaddedTo(seq, block, filler) ==
  [i \in 1..CDiv(Len(seq), block) * block |-> IF i <= Len(seq) THEN seq[i] ELSE filler]

Align(ids, experts, block) ==
  LET slots == Cardinality(DOMAIN ids)
      blocks == [e \in 1..experts |-> PaddedTo(SlotsOf(ids, e - 1), block, slots)]
      filled == FlattenSeq(blocks)
  IN  [length |-> BufferLength(slots, experts, block),
       padded |-> Len(filled),
       sorted |-> [i \in 1..BufferLength(slots, experts, block) |->
                    IF i <= Len(filled) THEN filled[i] ELSE slots],
       expert |-> FlattenSeq([e \in 1..experts |->
                    [i \in 1..Len(blocks[e]) \div block |-> e - 1]])]

-----------------------------------------------------------------------------
(* fused_moe_kernel.  Programs are numbered in groups of rows of blocks.    *)

Programs(length, columns, cfg) == 0..CDiv(length, cfg.m) * CDiv(columns, cfg.n) - 1

BlockOf_FullGroups(pid, length, columns, cfg) ==
  LET perGroup == cfg.group * CDiv(columns, cfg.n)
  IN  [m |-> (pid \div perGroup) * cfg.group + ((pid % perGroup) % cfg.group),
       n |-> (pid % perGroup) \div cfg.group]

BlockOf(pid, length, columns, cfg) ==
  LET perGroup == cfg.group * CDiv(columns, cfg.n)
      first == (pid \div perGroup) * cfg.group
      rest == CDiv(length, cfg.m) - first
      size == IF rest < cfg.group THEN rest ELSE cfg.group
  IN  [m |-> first + ((pid % perGroup) % size), n |-> (pid % perGroup) \div size]

(* The inner dimension in steps; the mask is left out when it fits evenly.  *)
Accumulated(inner, cfg) ==
  LET steps == 0..CDiv(inner, cfg.k) - 1
      even == inner % cfg.k = 0
  IN  {step * cfg.k + o : step \in steps, o \in 0..cfg.k - 1}
        \ {x \in 0..inner + cfg.k : ~even /\ x >= inner}

(* What one program stores: for each slot and column of its block the term  *)
(* of input row, expert, weight column, inner indices and routing weight.   *)
Stores(pid, al, columns, inner, slots, topk, routed, cfg) ==
  LET b == BlockOf(pid, al.length, columns, cfg)
      Slot(i) == al.sorted[b.m * cfg.m + i + 1]
      Column(j) == (b.n * cfg.n + j) % columns
  IN  IF b.m * cfg.m >= al.padded THEN {}
      ELSE {[slot |-> Slot(i), column |-> b.n * cfg.n + j, pid |-> pid,
             value |-> <<Slot(i) \div topk, al.expert[b.m + 1], Column(j),
                         Accumulated(inner, cfg), IF routed THEN Slot(i) ELSE -1>>]
              : i \in {x \in 0..cfg.m - 1 : Slot(x) < slots},
                j \in {x \in 0..cfg.n - 1 : b.n * cfg.n + x < columns}}

KernelStores(al, columns, inner, slots, topk, routed, cfg) ==
  UNION {Stores(pid, al, columns, inner, slots, topk, routed, cfg)
           : pid \in Programs(al.length, columns, cfg)}

(* Programs run in any order: they must not store to the same place.        *)
Disjoint(stores) == \A x, y \in stores : x.slot = y.slot /\ x.column = y.column => x = y

(* A row-major view of flat memory, as written by a kernel.                 *)
Written(memory, stores, columns) ==
  [a \in DOMAIN memory |->
     LET here == {x \in stores : x.slot * columns + x.column = a}
     IN  IF here = {} THEN memory[a] ELSE (CHOOSE x \in here : TRUE).value]

-----------------------------------------------------------------------------
(* fused_experts_impl: w1 has `wide` rows (gate and up), w2 `hidden`.  The   *)
(* first and the third intermediate share one allocation, the second is     *)
(* its own.                                                                  *)

CacheSize(slots, wide, hidden) == slots * (IF wide > hidden THEN wide ELSE hidden)

Activate(cache1, slots, wide) ==
  [s \in 0..slots - 1 |-> [j \in 0..(wide \div 2) - 1 |->
     <<cache1[s * wide + j], cache1[s * wide + wide \div 2 + j]>>]]

(* moe_sum_reduce_kernel: the choices of a token added up, a block of       *)
(* columns per program, the last one masked.                                *)
SumReduce(cache3, tokens, topk, hidden, block) ==
  [t \in 0..tokens - 1 |-> [h \in UNION {{b * block + o : o \in 0..block - 1} \cap 0..hidden - 1
                                            : b \in 0..CDiv(hidden, block) - 1} |->
     [i \in 0..topk - 1 |-> cache3[(t * topk + i) * hidden + h]]]]

FusedExperts(ids, tokens, topk, experts, wide, hidden, onInput) ==
  LET cfg == DefaultConfig(tokens, experts)
      slots == tokens * topk
      al == Align(ids, experts, cfg.m)
      first == KernelStores(al, wide, hidden, slots, topk, onInput, cfg)
      memory == Written([a \in 0..CacheSize(slots, wide, hidden) - 1 |-> <<>>], first, wide)
      second == KernelStores(al, hidden, wide \div 2, slots, 1, ~onInput, cfg)
      cache3 == Written(memory, second, hidden)
  IN  [disjoint |-> Disjoint(first) /\ Disjoint(second),
       inner |-> Activate(memory, slots, wide),
       out |-> SumReduce(cache3, tokens, topk, hidden, 2)]

(* What the layer computes: column h of token t is the sum over its choices *)
(* of the chosen expert's column, over all of the activated row of that     *)
(* slot, weighted once; and the row is gate and up of that expert.          *)
ExpertOutput(ids, tokens, topk, wide, hidden, onInput) ==
  LET half == wide \div 2
      Weight(s, here) == IF here THEN s ELSE -1
      In(s, j) == <<s \div topk, ids[s], j, 0..hidden - 1, Weight(s, onInput)>>
  IN  [disjoint |-> TRUE,
       inner |-> [s \in 0..tokens * topk - 1 |-> [j \in 0..half - 1 |-> <<In(s, j), In(s, half + j)>>]],
       out |-> [t \in 0..tokens - 1 |-> [h \in 0..hidden - 1 |-> [i \in 0..topk - 1 |->
                  <<t * topk + i, ids[t * topk + i], h, 0..half - 1,
                    Weight(t * topk + i, ~onInput)>>]]]]

=============================================================================
