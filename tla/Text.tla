-------------------------------- MODULE Text --------------------------------
(***************************************************************************)
(* The two ends that see text.  The detokenizer (tokenizer/detokenize.py)   *)
(* turns a request's tokens into increments of text and holds back what may *)
(* still change; a token is a sequence of bytes, of which the model keeps   *)
(* letters, spaces, new lines and the two bytes of a CJK character.         *)
(* LLM.generate (llm/llm.py) feeds its prompts to the scheduler it is       *)
(* itself, and collects the tokens.                                         *)
(***************************************************************************)
EXTENDS Integers, FiniteSets, SequencesExt

EOS == <<"eos">>

(* Decoding (external): a character of two bytes, or the replacement        *)
(* character for a byte without its other half.                             *)
Char(bytes, i) ==
  CASE bytes[i] = "lead" -> IF i < Len(bytes) /\ bytes[i + 1] = "tail" THEN "cjk" ELSE "?"
    [] bytes[i] = "tail" -> IF i > 1 /\ bytes[i - 1] = "lead" THEN "" ELSE "?"
    [] OTHER -> bytes[i]

Decode(tokens) ==
  LET bytes == FlattenSeq(tokens)
  IN  SelectSeq([i \in DOMAIN bytes |-> Char(bytes, i)], LAMBDA ch : ch # "")

-----------------------------------------------------------------------------
(* find_printable_text: all up to a new line or a CJK character, all but    *)
(* the last behind a CJK character, else up to the last space.              *)
LastSpace(text) ==
  LET at == {i \in DOMAIN text : text[i] = "space"}
  IN  IF at = {} THEN 0 ELSE CHOOSE i \in at : \A j \in at : j <= i

FindPrintableText(text) ==
  LET n == Len(text)
  IN  CASE n > 0 /\ text[n] \in {"newline", "cjk"} -> text
        [] n > 1 /\ text[n] \notin {"newline", "cjk"} /\ text[n - 1] = "cjk" -> SubSeq(text, 1, n - 1)
        [] OTHER -> SubSeq(text, 1, LastSpace(text))

NewStatus == [ids |-> <<>>, str |-> <<>>, read |-> 0, surr |-> 0, sent |-> 0, out |-> <<>>]

From(seq, n) == SubSeq(seq, n + 1, Len(seq))

(* DetokenizeManager.detokenize for one message: the window of ids from the *)
(* surrounding text on is decoded with and without the new ones.  What is   *)
(* whole is taken over; of what ends in half a character the printable part *)
(* is shown.  The increment goes to the end of s.out.                       *)
Detokenize_FlushesHalves(s, token, finished) ==
  LET ids == IF finished /\ token = EOS THEN s.ids ELSE Append(s.ids, token)
      new == From(Decode(From(ids, s.surr)), Len(Decode(SubSeq(ids, s.surr + 1, s.read))))
      shown == s.str \o new
  IN  [ids |-> ids, str |-> shown, surr |-> s.read, read |-> Len(ids),
       sent |-> Len(shown), out |-> Append(s.out, From(shown, s.sent))]

Detokenize(s, token, finished) ==
  LET ids == IF finished /\ token = EOS THEN s.ids ELSE Append(s.ids, token)
      new == From(Decode(From(ids, s.surr)), Len(Decode(SubSeq(ids, s.surr + 1, s.read))))
      whole == Len(new) > 0 /\ new[Len(new)] # "?"
      shown == s.str \o (IF whole THEN new ELSE FindPrintableText(new))
  IN  [ids |-> ids,
       str |-> IF whole THEN shown ELSE s.str,
       surr |-> IF whole THEN s.read ELSE s.surr,
       read |-> IF whole THEN Len(ids) ELSE s.read,
       sent |-> Len(shown),
       out |-> Append(s.out, From(shown, s.sent))]

(* A request's tokens, the last one finishing it.                           *)
DetokenizeAll(tokens) ==
  LET Take(s, i) == Detokenize(s, tokens[i], i = Len(tokens))
  IN  FoldLeft(Take, NewStatus, [i \in DOMAIN tokens |-> i])

-----------------------------------------------------------------------------
(* LLM.generate.  A prompt is its length; a run has `asked` (max_tokens of   *)
(* the parameters), `shared` (one parameter object for all prompts, or one   *)
(* each), the prefill budget and the limit of sequence length.               *)

Generate(run) ==
  [pending |-> [i \in DOMAIN run.lens |-> i], counter |-> 0, done |-> FALSE,
   maxTokens |-> [i \in DOMAIN run.lens |-> run.asked],
   waiting |-> <<>>, outputs |-> [i \in DOMAIN run.lens |-> -1]]   \* -1: not in status_map

(* offline_receive_msg: prompts are taken while those before them are below *)
(* the budget, each with an empty status under its uid; with none left a    *)
(* blocking call ends the run.                                              *)
TokensBefore(run, pending, k) ==
  FoldLeft(LAMBDA sum, i : sum + run.lens[i], 0, SubSeq(pending, 1, k))

TakenPrompts(run, pending) ==
  Cardinality({k \in DOMAIN pending : TokensBefore(run, pending, k - 1) < run.budget})


Accept(run, s, msg) ==
  LET room == run.limit - run.lens[msg.prompt]
      Cut(j) == IF (j = msg.prompt \/ run.shared) /\ s.maxTokens[j] > room
                THEN room ELSE s.maxTokens[j]
  IN  IF room <= 0 THEN s
      ELSE [s EXCEPT !.maxTokens = [j \in DOMAIN @ |-> Cut(j)], !.waiting = Append(@, msg)]

Receive(run, s, blocking) ==
  LET taken == TakenPrompts(run, s.pending)
      msgs == [k \in 1..taken |-> [uid |-> s.counter + k - 1, prompt |-> s.pending[k]]]
      took == [s EXCEPT !.pending = From(@, taken), !.counter = @ + taken,
                        !.outputs = [i \in DOMAIN @ |->
                                       IF i - 1 \in s.counter..s.counter + taken - 1 THEN 0 ELSE @[i]]]
  IN  IF blocking /\ s.pending = <<>> THEN [s EXCEPT !.done = TRUE]
      ELSE FoldLeft(LAMBDA t, msg : Accept(run, t, msg), took, msgs)

(* The scheduler admits the first n waiting requests, reading max_tokens    *)
(* then; they run to that many tokens, which are collected by uid.          *)
Admit(s, n) ==
  LET Collect(out, msg) == [out EXCEPT ![msg.uid + 1] = s.maxTokens[msg.prompt]]
  IN  [s EXCEPT !.waiting = From(@, n),
                !.outputs = FoldLeft(Collect, @, SubSeq(s.waiting, 1, n))]

(* One iteration of the loop: blocking only when nothing waits.             *)
Iterate(run, s, n) ==
  IF s.done THEN s
  ELSE LET t == Receive(run, s, s.waiting = <<>>)
       IN  IF t.done THEN t ELSE Admit(t, IF n < Len(t.waiting) THEN n ELSE Len(t.waiting))

RunForever(run, admissions) == FoldLeft(LAMBDA s, n : Iterate(run, s, n), Generate(run), admissions)

=============================================================================
