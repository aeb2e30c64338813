---------------------------- MODULE MCScheduler ----------------------------
(***************************************************************************)
(* Instances of Scheduler for TLC.                                         *)
(***************************************************************************)
EXTENDS SchedulerProperties

Request(ids, max) == [ids |-> ids, max |-> max, ignore |-> FALSE]

\* Prompts that share a prefix and part inside an edge of the tree.
SharedPrefixes == {Request(<<1, 1, 1>>, 2), Request(<<1, 1, 2>>, 1)}

\* The same with pages of two tokens: whole pages and tails of one token.
PagedPrefixes == {Request(<<1, 1, 1, 1, 1>>, 1), Request(<<1, 1, 1, 2>>, 2)}

\* A prompt cut in three, one that fits, one whose max_tokens is cut down to two
\* and one too long for the model.
MixedLengths ==
  {Request(<<1, 1, 2>>, 1), Request(<<1, 2>>, 3), Request(<<1, 1, 1, 1>>, 1)}

\* Requests smaller than a page of three tokens.
ShortPrompts == {Request(<<1>>, 1)}

\* The same beside one that needs two pages and ignores EOS.
ShortAndLong == ShortPrompts \cup {[ids |-> <<1, 2, 1>>, max |-> 2, ignore |-> TRUE]}

TwoUids == {1, 2}
ThreeUids == {1, 2, 3}
Vocabulary == {0, 1, 2}
OneTokenAndEos == {0, 1}
=============================================================================
