----------------------------- MODULE RanksProofs -----------------------------
(***************************************************************************)
(* Theorems of Ranks: what a server that reports ready has behind it, and  *)
(* that the ranks' loops go on alike, for any number of ranks and          *)
(* tokenizers, any messages and whatever the ranks read.                   *)
(***************************************************************************)
EXTENDS Ranks, TLAPS, FiniteSetTheorems, SequenceTheorems

\* The variables of the start have their types.
StartTypes ==
  /\ size \in Nat \ {0} /\ tokenizers \in Nat
  /\ launcher \in {"sockets", "spawn", "acks", "serving"}
  /\ acks \in Nat /\ heard \in Nat
  /\ step \in [Ranks -> 0..Running] /\ failed \subseteq Ranks /\ ready \subseteq Workers

\* Acks are those of the workers that are ready and of rank 0 behind the barrier;
\* the launcher serves when it has heard as many as it expects.
AcksCounted ==
  /\ acks = Cardinality(ready) + (IF step[0] = Running THEN 1 ELSE 0)
  /\ heard <= acks
  /\ launcher = "serving" => heard = AcksExpected

\* A rank is behind the barrier when all have come to it; a rank that raised has not.
BarrierHeld ==
  /\ \A r \in Ranks : step[r] = Running => \A q \in Ranks : step[q] >= 7
  /\ \A r \in failed : step[r] < 7

\* The open sockets are those of the processes that have come so far.
SocketsOpened ==
  \A s : s \in sockets <=>
    \/ launcher # "sockets" /\ s \in FrontendSockets
    \/ \E w \in ready : s \in WorkerSockets(w)
    \/ \E r \in Ranks : step[r] >= 7 /\ s \in RankSockets(r)

StartInv == StartTypes /\ AcksCounted /\ BarrierHeld /\ SocketsOpened

-----------------------------------------------------------------------------
\* Nothing has started.
LEMMA InitStart == Init => StartInv
<1> SUFFICES ASSUME Init PROVE StartInv OBVIOUS
<1>1. size \in Nat \ {0} /\ tokenizers \in Nat BY SizesAssumption DEF Init
<1>2. 0 \in Ranks BY <1>1 DEF Ranks
<1>3. StartTypes BY <1>1 DEF Init, StartTypes, Running
<1>4. AcksCounted BY <1>2, FS_EmptySet DEF Init, AcksCounted, Running
<1>5. BarrierHeld BY DEF Init, BarrierHeld, Running
<1>6. SocketsOpened BY DEF Init, SocketsOpened
<1>7. QED BY <1>3, <1>4, <1>5, <1>6 DEF StartInv

\* Steps that leave the start alone: the loops of the ranks, the sockets' traffic.
LEMMA UnchangedStart ==
  ASSUME StartInv, UNCHANGED <<config, start>>
  PROVE  StartInv'
<1>1. UNCHANGED <<size, tokenizers, launcher, acks, heard, step, failed, ready, sockets>>
  BY DEF config, start
<1>2. QED
  BY <1>1 DEF StartInv, StartTypes, AcksCounted, BarrierHeld, SocketsOpened, Ranks, Workers,
     AcksExpected, FrontendSockets, WorkerSockets, RankSockets, Socket, TokenizerAddr,
     ShareTokenizer, CreatesTokenizerAddr, CreatesLinks

\* The sockets a process opens depend on the configuration alone.
LEMMA WiringFixed ==
  ASSUME UNCHANGED config
  PROVE  /\ Ranks' = Ranks /\ Workers' = Workers /\ AcksExpected' = AcksExpected
         /\ FrontendSockets' = FrontendSockets
         /\ \A w : WorkerSockets(w)' = WorkerSockets(w)
         /\ \A r : RankSockets(r)' = RankSockets(r)
BY DEF config, Ranks, Workers, AcksExpected, FrontendSockets, WorkerSockets, RankSockets, Socket,
   TokenizerAddr, ShareTokenizer, CreatesTokenizerAddr, CreatesLinks

\* The launcher opens its sockets, spawns, hears acks.
LEMMA LaunchStep ==
  ASSUME StartInv, LaunchServer
  PROVE  StartInv'
<1> USE DEF StartInv
<1>1. CASE OpenFrontend
  <2>1. /\ launcher = "sockets" /\ launcher' = "spawn" /\ sockets' = sockets \cup FrontendSockets
        /\ UNCHANGED <<config, size, tokenizers, acks, heard, step, failed, ready>>
    BY <1>1 DEF OpenFrontend, config
  <2>2. StartTypes' BY <2>1, WiringFixed DEF StartTypes
  <2>3. AcksCounted' BY <2>1 DEF AcksCounted
  <2>4. BarrierHeld' BY <2>1, WiringFixed DEF BarrierHeld
  <2>5. SocketsOpened' BY <2>1, WiringFixed DEF SocketsOpened
  <2>6. QED BY <2>2, <2>3, <2>4, <2>5
<1>2. CASE Spawn
  <2>1. /\ launcher = "spawn" /\ launcher' \in {"spawn", "acks"}
        /\ UNCHANGED <<config, size, tokenizers, acks, heard, step, failed, ready, sockets>>
    BY <1>2 DEF Spawn, config
  <2>2. StartTypes' BY <2>1, WiringFixed DEF StartTypes
  <2>3. AcksCounted' BY <2>1 DEF AcksCounted
  <2>4. BarrierHeld' BY <2>1, WiringFixed DEF BarrierHeld
  <2>5. SocketsOpened' BY <2>1, WiringFixed DEF SocketsOpened
  <2>6. QED BY <2>2, <2>3, <2>4, <2>5
<1>3. CASE HearAck
  <2>1. /\ launcher = "acks" /\ heard < acks /\ heard' = heard + 1
        /\ launcher' = IF heard' = AcksExpected THEN "serving" ELSE "acks"
        /\ UNCHANGED <<config, size, tokenizers, acks, step, failed, ready, sockets>>
    BY <1>3 DEF HearAck, config
  <2>2. StartTypes' BY <2>1, WiringFixed DEF StartTypes
  <2>3. AcksCounted'
    <3>1. heard' <= acks' BY <2>1 DEF StartTypes
    <3>2. launcher' = "serving" => heard' = AcksExpected' BY <2>1, WiringFixed
    <3>3. QED BY <2>1, <3>1, <3>2 DEF AcksCounted
  <2>4. BarrierHeld' BY <2>1, WiringFixed DEF BarrierHeld
  <2>5. SocketsOpened' BY <2>1, WiringFixed DEF SocketsOpened
  <2>6. QED BY <2>2, <2>3, <2>4, <2>5
<1>4. QED BY <1>1, <1>2, <1>3 DEF LaunchServer

\* A worker has its sockets and acknowledges.
LEMMA WorkerStep ==
  ASSUME StartInv, NEW w \in Workers, WorkerReady(w)
  PROVE  StartInv'
<1> USE DEF StartInv
<1>1. /\ w \notin ready /\ ready' = ready \cup {w} /\ acks' = acks + 1
      /\ sockets' = sockets \cup WorkerSockets(w)
      /\ UNCHANGED <<config, size, tokenizers, launcher, heard, step, failed>>
  BY DEF WorkerReady, config
<1>2. Cardinality(ready') = Cardinality(ready) + 1 /\ Cardinality(ready) \in Nat
  <2>1. IsFiniteSet(Workers) BY FS_Interval DEF Workers, StartTypes
  <2>2. IsFiniteSet(ready) BY <2>1, FS_Subset DEF StartTypes
  <2>3. QED BY <2>2, <1>1, FS_AddElement, FS_CardinalityType
<1>3. StartTypes' BY <1>1, WiringFixed DEF StartTypes
<1>4. AcksCounted'
  <2>1. launcher' = "serving" => heard' = AcksExpected' BY <1>1, WiringFixed DEF AcksCounted
  <2>2. acks' = Cardinality(ready') + (IF step'[0] = Running THEN 1 ELSE 0)
    BY <1>1, <1>2 DEF AcksCounted
  <2>3. heard' <= acks' BY <1>1 DEF AcksCounted, StartTypes
  <2>4. QED BY <2>1, <2>2, <2>3 DEF AcksCounted
<1>5. BarrierHeld' BY <1>1, WiringFixed DEF BarrierHeld
<1>6. SocketsOpened' BY <1>1, WiringFixed DEF SocketsOpened
<1>7. QED BY <1>3, <1>4, <1>5, <1>6

\* A rank comes to its next collective, or raises.
LEMMA RankStep ==
  ASSUME StartInv, NEW r \in Ranks, StartStep(r)
  PROVE  StartInv'
<1> USE DEF StartInv
<1>1. /\ r \notin failed /\ step[r] \in 0..7 /\ AllCome(r) /\ step[r] \in Int
      /\ UNCHANGED <<config, size, tokenizers, launcher, heard, ready>>
  BY DEF StartStep, config, StartTypes, Running
<1>2. CASE Raises(r)
  <2>1. failed' = failed \cup {r} /\ UNCHANGED <<step, acks, sockets>>
    BY <1>2 DEF StartStep
  <2>2. step[r] < 7 BY <1>2 DEF Raises
  <2>3. StartTypes' BY <1>1, <2>1, WiringFixed DEF StartTypes
  <2>4. AcksCounted' BY <1>1, <2>1, WiringFixed DEF AcksCounted
  <2>5. BarrierHeld' BY <1>1, <2>1, <2>2, WiringFixed DEF BarrierHeld
  <2>6. SocketsOpened' BY <1>1, <2>1, WiringFixed DEF SocketsOpened
  <2>7. QED BY <2>3, <2>4, <2>5, <2>6
<1>3. CASE ~Raises(r)
  <2>1. /\ step' = [step EXCEPT ![r] = @ + 1]
        /\ sockets' = IF step[r] = 6 THEN sockets \cup RankSockets(r) ELSE sockets
        /\ acks' = IF step[r] = 7 /\ r = 0 THEN acks + 1 ELSE acks
        /\ UNCHANGED failed
    BY <1>3 DEF StartStep
  <2>2. step'[r] = step[r] + 1 /\ (\A q \in Ranks \ {r} : step'[q] = step[q])
    BY <2>1 DEF StartTypes
  <2>3. StartTypes'
    <3>1. step[r] + 1 \in 0..Running BY <1>1 DEF Running
    <3>2. step' \in [Ranks -> 0..Running] BY <2>1, <3>1 DEF StartTypes
    <3>3. acks' \in Nat BY <2>1 DEF StartTypes
    <3>4. QED BY <1>1, <2>1, <3>2, <3>3, WiringFixed DEF StartTypes
  <2>4. AcksCounted'
    <3> Cardinality(ready) \in Nat
      <4>1. IsFiniteSet(Workers) BY FS_Interval DEF Workers, StartTypes
      <4>2. QED BY <4>1, FS_Subset, FS_CardinalityType DEF StartTypes
    <3>1. CASE r = 0
      <4>1. step[0] # Running /\ (step'[0] = Running <=> step[0] = 7)
        BY <3>1, <1>1, <2>2 DEF Running
      <4>2. acks' = Cardinality(ready') + (IF step'[0] = Running THEN 1 ELSE 0)
        BY <1>1, <2>1, <3>1, <4>1 DEF AcksCounted
      <4>3. heard' <= acks' BY <1>1, <2>1 DEF AcksCounted, StartTypes
      <4>4. launcher' = "serving" => heard' = AcksExpected' BY <1>1, WiringFixed DEF AcksCounted
      <4>5. QED BY <4>2, <4>3, <4>4 DEF AcksCounted
    <3>2. CASE r # 0
      <4>1. step'[0] = step[0] BY <2>2, <3>2 DEF Ranks, StartTypes
      <4>2. QED BY <1>1, <2>1, <3>2, <4>1, WiringFixed DEF AcksCounted
    <3>3. QED BY <3>1, <3>2
  <2>5. BarrierHeld'
    <3>1. \A q \in Ranks : step[q] \in Int /\ step'[q] >= step[q] BY <2>2, <1>1 DEF StartTypes
    <3>2. step'[r] = Running => \A q \in Ranks : step[q] >= 7
      BY <1>1, <2>2 DEF AllCome, Running
    <3>3. \A p \in Ranks : step'[p] = Running => \A q \in Ranks : step[q] >= 7
      BY <2>2, <3>2 DEF BarrierHeld
    <3>4. \A p \in Ranks : step'[p] = Running => \A q \in Ranks : step'[q] >= 7
      <4>1. \A q \in Ranks : step'[q] \in Int BY <2>3, <1>1, WiringFixed DEF StartTypes
      <4>2. QED BY <3>1, <3>3, <4>1
    <3>5. \A p \in failed' : step'[p] < 7 BY <1>1, <2>1, <2>2 DEF BarrierHeld, StartTypes
    <3>6. QED BY <1>1, <3>4, <3>5, WiringFixed DEF BarrierHeld
  <2>6. SocketsOpened'
    <3>1. \A q \in Ranks : step'[q] >= 7 <=> step[q] >= 7 \/ (q = r /\ step[r] = 6)
      BY <1>1, <2>2
    <3>2. QED BY <1>1, <2>1, <3>1, WiringFixed DEF SocketsOpened
  <2>7. QED BY <2>3, <2>4, <2>5, <2>6
<1>4. QED BY <1>2, <1>3

\* Every step keeps the invariant of the start.
LEMMA NextStart == StartInv /\ [Next]_vars => StartInv'
<1> SUFFICES ASSUME StartInv, [Next]_vars PROVE StartInv' OBVIOUS
<1>1. ASSUME NEW r \in Ranks, Subscribe(r) \/ RankLoop(r) PROVE UNCHANGED <<config, start>>
  BY <1>1 DEF Subscribe, RankLoop, FollowFirst, FollowCount, FollowTake, Launch, Results,
     Interrupt, Synchronize, Close
<1>2. ASSUME RootLoop PROVE UNCHANGED <<config, start>>
  BY <1>2 DEF RootLoop, RootFirst, RootCount, RootTake
<1>3. ASSUME NEW m \in Msgs, Arrive(m) PROVE UNCHANGED <<config, start>>
  BY <1>3 DEF Arrive
<1>4. ASSUME UNCHANGED vars PROVE UNCHANGED <<config, start>>
  BY <1>4 DEF vars
<1>5. QED
  BY <1>1, <1>2, <1>3, <1>4, UnchangedStart, LaunchStep, WorkerStep, RankStep DEF Next

-----------------------------------------------------------------------------
\* As many acks as the launcher waits for are those of everyone.
LEMMA ServingMeansAll ==
  ASSUME StartInv, launcher = "serving"
  PROVE  ready = Workers /\ \A r \in Ranks : step[r] >= 7 /\ r \notin failed
<1> USE DEF StartInv
<1>1. IsFiniteSet(Workers) /\ Cardinality(Workers) = tokenizers + 1
  BY FS_Interval DEF Workers, StartTypes
<1>2. /\ IsFiniteSet(ready) /\ Cardinality(ready) \in Nat
      /\ Cardinality(ready) <= Cardinality(Workers)
      /\ Cardinality(ready) = Cardinality(Workers) => ready = Workers
  BY <1>1, FS_Subset, FS_CardinalityType DEF StartTypes
<1>3. Cardinality(ready) + (IF step[0] = Running THEN 1 ELSE 0) >= tokenizers + 2
  BY <1>2 DEF AcksCounted, AcksExpected, StartTypes
<1>4. step[0] = Running /\ Cardinality(ready) = tokenizers + 1
  BY <1>1, <1>2, <1>3 DEF StartTypes
<1>5. 0 \in Ranks BY DEF Ranks, StartTypes
<1>6. \A r \in Ranks : step[r] >= 7 /\ step[r] \in Int BY <1>4, <1>5 DEF BarrierHeld, StartTypes
<1>7. QED BY <1>1, <1>2, <1>4, <1>6 DEF BarrierHeld

\* The sockets of a server that has started, by their fields, and the processes that
\* open them.
SharedSockets ==
  {Socket(<<"api", 0>>, "pull", "frontend", TRUE), Socket(<<"api", 0>>, "push", "detokenizer", FALSE),
   Socket(<<"worker", 0>>, "push", "backend", FALSE), Socket(<<"worker", 0>>, "push", "frontend", FALSE),
   Socket(<<"worker", 0>>, "pull", "detokenizer", TRUE),
   Socket(<<"rank", 0>>, "pull", "backend", TRUE), Socket(<<"rank", 0>>, "push", "detokenizer", FALSE)}

ApartSockets ==
  {Socket(<<"api", 0>>, "pull", "frontend", TRUE), Socket(<<"api", 0>>, "push", "tokenizer", TRUE),
   Socket(<<"worker", 0>>, "pull", "detokenizer", FALSE),
   Socket(<<"rank", 0>>, "pull", "backend", TRUE), Socket(<<"rank", 0>>, "push", "detokenizer", TRUE)}
  \cup {Socket(<<"worker", w>>, "push", "backend", FALSE) : w \in Workers}
  \cup {Socket(<<"worker", w>>, "push", "frontend", FALSE) : w \in Workers}
  \cup {Socket(<<"worker", w>>, "pull", "tokenizer", FALSE) : w \in Workers \ {0}}

Broadcast ==
  IF size = 1 THEN {}
  ELSE {Socket(<<"rank", 0>>, "pub", "broadcast", TRUE)}
         \cup {Socket(<<"rank", r>>, "sub", "broadcast", FALSE) : r \in Ranks \ {0}}

\* When all have come, every process has opened its sockets.
LEMMA AllOpened ==
  ASSUME StartInv, launcher = "serving"
  PROVE  sockets = (IF ShareTokenizer THEN SharedSockets ELSE ApartSockets) \cup Broadcast
<1>1. tokenizers \in Nat /\ size \in Nat \ {0} /\ Workers = 0..tokenizers /\ Ranks = 0..size - 1
  BY DEF StartInv, StartTypes, Workers, Ranks
<1>2. 0 \in Workers /\ 0 \in Ranks BY <1>1
<1>3. \A s : s \in sockets <=>
        s \in FrontendSockets \/ (\E w \in Workers : s \in WorkerSockets(w))
          \/ \E r \in Ranks : s \in RankSockets(r)
  BY ServingMeansAll DEF StartInv, SocketsOpened
<1>4. CASE ShareTokenizer
  <2>1. Workers = {0} BY <1>1, <1>4 DEF ShareTokenizer
  <2>2. TokenizerAddr = "detokenizer" /\ CreatesTokenizerAddr = TRUE /\ CreatesLinks = FALSE
    BY <1>4 DEF TokenizerAddr, CreatesTokenizerAddr, CreatesLinks, ShareTokenizer
  <2>3. \A s : (\E w \in Workers : s \in WorkerSockets(w)) <=> s \in WorkerSockets(0) BY <2>1
  <2>4. \A s : (\E r \in Ranks : s \in RankSockets(r)) <=>
          s \in Broadcast \/ s = Socket(<<"rank", 0>>, "pull", "backend", TRUE)
            \/ s = Socket(<<"rank", 0>>, "push", "detokenizer", FALSE)
    BY <1>2, <2>2 DEF RankSockets, Broadcast
  <2>5. QED BY <1>3, <1>4, <2>2, <2>3, <2>4 DEF FrontendSockets, WorkerSockets, SharedSockets
<1>5. CASE ~ShareTokenizer
  <2>1. TokenizerAddr = "tokenizer" /\ CreatesTokenizerAddr = FALSE /\ CreatesLinks = TRUE
    BY <1>5 DEF TokenizerAddr, CreatesTokenizerAddr, CreatesLinks, ShareTokenizer
  <2>2. \A s : (\E r \in Ranks : s \in RankSockets(r)) <=>
          s \in Broadcast \/ s = Socket(<<"rank", 0>>, "pull", "backend", TRUE)
            \/ s = Socket(<<"rank", 0>>, "push", "detokenizer", TRUE)
    BY <1>2, <2>1 DEF RankSockets, Broadcast
  <2>3. \A s : (\E w \in Workers : s \in WorkerSockets(w)) <=>
          \/ s = Socket(<<"worker", 0>>, "pull", "detokenizer", FALSE)
          \/ \E w \in Workers : s = Socket(<<"worker", w>>, "push", "backend", FALSE)
          \/ \E w \in Workers : s = Socket(<<"worker", w>>, "push", "frontend", FALSE)
          \/ \E w \in Workers \ {0} : s = Socket(<<"worker", w>>, "pull", "tokenizer", FALSE)
    BY <1>2, <2>1 DEF WorkerSockets
  <2>4. \A s : s \in sockets <=> s \in ApartSockets \/ s \in Broadcast
    <3>1. \A s : s \in ApartSockets <=>
            \/ s \in FrontendSockets
            \/ s = Socket(<<"rank", 0>>, "pull", "backend", TRUE)
            \/ s = Socket(<<"rank", 0>>, "push", "detokenizer", TRUE)
            \/ s = Socket(<<"worker", 0>>, "pull", "detokenizer", FALSE)
            \/ \E w \in Workers : s = Socket(<<"worker", w>>, "push", "backend", FALSE)
            \/ \E w \in Workers : s = Socket(<<"worker", w>>, "push", "frontend", FALSE)
            \/ \E w \in Workers \ {0} : s = Socket(<<"worker", w>>, "pull", "tokenizer", FALSE)
      BY <2>1 DEF FrontendSockets, ApartSockets
    <3>2. QED BY <3>1, <1>3, <2>2, <2>3
  <2>5. QED BY <1>5, <2>4
<1>6. QED BY <1>4, <1>5

\* When all have come, each address in use is bound by one socket, and each pull
\* socket is where it belongs.
LEMMA AllWired ==
  ASSUME StartInv, launcher = "serving"
  PROVE  /\ \A a \in {s.addr : s \in sockets} : \E x : {s \in sockets : s.addr = a /\ s.binds} = {x}
         /\ Readers("backend") = {<<"rank", 0>>} /\ Readers("frontend") = {<<"api", 0>>}
         /\ Readers("detokenizer") = {<<"worker", 0>>}
         /\ Readers(TokenizerAddr) = {<<"worker", w>> : w \in IF ShareTokenizer THEN {0} ELSE Workers \ {0}}
<1> DEFINE bound(a) == {s \in sockets : s.addr = a /\ s.binds}
           pub == Socket(<<"rank", 0>>, "pub", "broadcast", TRUE)
<1>1. \A s \in Broadcast : s.addr = "broadcast" /\ s.kind # "pull" /\ (s.binds => s = pub)
  BY DEF Socket, Broadcast
<1>2. Broadcast # {} => pub \in Broadcast /\ pub.addr = "broadcast" /\ pub.binds
  BY DEF Socket, Broadcast
<1>3. CASE ShareTokenizer
  <2>1. sockets = SharedSockets \cup Broadcast BY <1>3, AllOpened
  <2> DEFINE pull(o, a) == Socket(o, "pull", a, TRUE)
  <2>2. \A s \in SharedSockets :
          /\ s.addr \in {"frontend", "detokenizer", "backend"}
          /\ s.binds \/ s.kind = "pull" =>
               s \in {pull(<<"api", 0>>, "frontend"), pull(<<"worker", 0>>, "detokenizer"),
                      pull(<<"rank", 0>>, "backend")}
    BY DEF Socket, SharedSockets
  <2>3. \A s \in {pull(<<"api", 0>>, "frontend"), pull(<<"worker", 0>>, "detokenizer"),
                  pull(<<"rank", 0>>, "backend")} : s \in SharedSockets /\ s.kind = "pull" /\ s.binds
    BY DEF Socket, SharedSockets
  <2>4. \A o, a : pull(o, a).addr = a /\ pull(o, a).owner = o BY DEF Socket
  <2> HIDE DEF pull, pub
  <2>5. /\ bound("frontend") = {pull(<<"api", 0>>, "frontend")}
        /\ bound("detokenizer") = {pull(<<"worker", 0>>, "detokenizer")}
        /\ bound("backend") = {pull(<<"rank", 0>>, "backend")}
        /\ Broadcast # {} => bound("broadcast") = {pub}
    BY <1>1, <1>2, <2>1, <2>2, <2>3, <2>4
  <2>6. \A s \in sockets : s.addr \in {"frontend", "detokenizer", "backend"}
                             \/ (s.addr = "broadcast" /\ Broadcast # {})
    BY <1>1, <2>1, <2>2
  <2>7. \A a \in {s.addr : s \in sockets} : \E x : bound(a) = {x}
    <3> HIDE DEF bound
    <3>1. QED BY <2>5, <2>6
  <2>8. /\ Readers("backend") = {<<"rank", 0>>} /\ Readers("frontend") = {<<"api", 0>>}
        /\ Readers("detokenizer") = {<<"worker", 0>>}
    BY <1>1, <2>1, <2>2, <2>3, <2>4 DEF Readers
  <2>9. QED BY <1>3, <2>7, <2>8 DEF TokenizerAddr
<1>4. CASE ~ShareTokenizer
  <2>1. sockets = ApartSockets \cup Broadcast BY <1>4, AllOpened
  <2> DEFINE apiPull == Socket(<<"api", 0>>, "pull", "frontend", TRUE)
             apiPush == Socket(<<"api", 0>>, "push", "tokenizer", TRUE)
             detok == Socket(<<"worker", 0>>, "pull", "detokenizer", FALSE)
             rankPull == Socket(<<"rank", 0>>, "pull", "backend", TRUE)
             rankPush == Socket(<<"rank", 0>>, "push", "detokenizer", TRUE)
             tok(w) == Socket(<<"worker", w>>, "pull", "tokenizer", FALSE)
  <2>2. \A s \in ApartSockets :
          /\ s.addr \in {"frontend", "detokenizer", "backend", "tokenizer"}
          /\ s.binds => s \in {apiPull, apiPush, rankPull, rankPush}
          /\ s.kind = "pull" => s \in {apiPull, detok, rankPull} \/ \E w \in Workers \ {0} : s = tok(w)
    BY DEF Socket, ApartSockets
  <2>3. /\ {apiPull, apiPush, rankPull, rankPush, detok} \subseteq ApartSockets
        /\ \A w \in Workers \ {0} : tok(w) \in ApartSockets
    BY DEF ApartSockets
  <2>4. /\ apiPull.addr = "frontend" /\ apiPull.kind = "pull" /\ apiPull.binds
        /\ apiPull.owner = <<"api", 0>>
        /\ apiPush.addr = "tokenizer" /\ apiPush.kind = "push" /\ apiPush.binds
        /\ rankPull.addr = "backend" /\ rankPull.kind = "pull" /\ rankPull.binds
        /\ rankPull.owner = <<"rank", 0>>
        /\ rankPush.addr = "detokenizer" /\ rankPush.kind = "push" /\ rankPush.binds
        /\ detok.addr = "detokenizer" /\ detok.kind = "pull" /\ detok.owner = <<"worker", 0>>
        /\ \A w : tok(w).addr = "tokenizer" /\ tok(w).kind = "pull" /\ tok(w).owner = <<"worker", w>>
    BY DEF Socket
  <2> HIDE DEF apiPull, apiPush, detok, rankPull, rankPush, tok, pub
  <2>5. /\ bound("frontend") = {apiPull} /\ bound("detokenizer") = {rankPush}
        /\ bound("backend") = {rankPull} /\ bound("tokenizer") = {apiPush}
        /\ Broadcast # {} => bound("broadcast") = {pub}
    BY <1>1, <1>2, <2>1, <2>2, <2>3, <2>4
  <2>6. \A s \in sockets : s.addr \in {"frontend", "detokenizer", "backend", "tokenizer"}
                             \/ (s.addr = "broadcast" /\ Broadcast # {})
    BY <1>1, <2>1, <2>2
  <2>7. \A a \in {s.addr : s \in sockets} : \E x : bound(a) = {x}
    <3> HIDE DEF bound
    <3>1. QED BY <2>5, <2>6
  <2> DEFINE pulls(a) == {t \in sockets : t.addr = a /\ t.kind = "pull"}
  <2>8. /\ pulls("backend") = {rankPull} /\ pulls("frontend") = {apiPull}
        /\ pulls("detokenizer") = {detok}
    BY <1>1, <2>1, <2>2, <2>3, <2>4
  <2>9. \A s : s \in pulls("tokenizer") <=> \E w \in Workers \ {0} : s = tok(w)
    BY <1>1, <2>1, <2>2, <2>3, <2>4
  <2>10. \A a : Readers(a) = {s.owner : s \in pulls(a)} BY DEF Readers
  <2> HIDE DEF pulls
  <2>11. /\ Readers("backend") = {<<"rank", 0>>} /\ Readers("frontend") = {<<"api", 0>>}
         /\ Readers("detokenizer") = {<<"worker", 0>>}
    BY <2>4, <2>8, <2>10
  <2>12. Readers("tokenizer") = {<<"worker", w>> : w \in Workers \ {0}}
    <3>1. \A x : x \in Readers("tokenizer") <=> \E w \in Workers \ {0} : x = tok(w).owner
      BY <2>9, <2>10
    <3>2. \A x : x \in Readers("tokenizer") <=> \E w \in Workers \ {0} : x = <<"worker", w>>
      <4>1. \A w : tok(w).owner = <<"worker", w>> BY <2>4
      <4>2. QED BY <3>1, <4>1, Zenon
    <3>3. QED BY <3>2
  <2>13. QED BY <1>4, <2>7, <2>11, <2>12 DEF TokenizerAddr
<1>5. QED BY <1>3, <1>4

\* A server that says it is ready is: for any number of ranks and tokenizers, shared
\* or not, the acks the launcher counts are those of all processes, and every socket
\* has its counterpart bound (launch.py:104-111, args.py:21-47, engine.py sync_all_ranks).
THEOREM ReadyCorrect == Spec => []ReadyMeansWired
<1>1. StartInv => ReadyMeansWired
  <2> SUFFICES ASSUME StartInv, launcher = "serving"
               PROVE  /\ \A r \in Ranks : step[r] >= 7 /\ r \notin failed
                      /\ ready = Workers
                      /\ \A a \in {s.addr : s \in sockets} :
                           Cardinality({s \in sockets : s.addr = a /\ s.binds}) = 1
                      /\ Readers("backend") = {<<"rank", 0>>} /\ Readers("frontend") = {<<"api", 0>>}
                      /\ Readers("detokenizer") = {<<"worker", 0>>}
                      /\ Readers(TokenizerAddr)
                           = {<<"worker", w>> : w \in IF ShareTokenizer THEN {0} ELSE Workers \ {0}}
    BY DEF ReadyMeansWired
  <2>1. \A x : Cardinality({x}) = 1 BY FS_Singleton
  <2>2. QED BY <2>1, ServingMeansAll, AllWired
<1>2. QED BY <1>1, InitStart, NextStart, PTL DEF Spec

-----------------------------------------------------------------------------
(* The ranks' loops.                                                       *)

\* What is determined between two iterations of a rank: the batches left to run, those
\* launched, the number of the one that is with the device.
States == [todo : [Msgs -> Nat], ran : Seq(SUBSET Msgs), cur : Nat]

Fresh == [todo |-> [m \in Msgs |-> 0], ran |-> <<>>, cur |-> 0]

\* A rank in this state blocks for a first message.
Blocks(s) == s.cur = 0 /\ \A m \in Msgs : s.todo[m] = 0
First(s) == IF Blocks(s) THEN 1 ELSE 0

Jobs(s, M) == [m \in Msgs |-> s.todo[m] + IF m \in M THEN Work[m] ELSE 0]
Runnable(s, M) == {m \in Msgs : Jobs(s, M)[m] > 0}

\* The state behind an iteration that takes the messages M, unless one ends the loop.
After(s, M) ==
  IF Exit \in M THEN s
  ELSE [todo |-> [m \in Msgs |-> IF m \in Runnable(s, M) THEN Jobs(s, M)[m] - 1 ELSE Jobs(s, M)[m]],
        ran |-> IF Runnable(s, M) = {} THEN s.ran ELSE Append(s.ran, Runnable(s, M)),
        cur |-> IF Runnable(s, M) = {} THEN 0 ELSE Len(s.ran) + 1]

Slice(P, a, b) == {P[k] : k \in a + 1 .. b}
Begins(s, t) == Len(s) <= Len(t) /\ \A i \in 1 .. Len(s) : s[i] = t[i]
Matches(s, P, a) == \A k \in 1 .. Len(s) : s[k] = P[a + k]

\* The variables of the loops and their queues have their types.
LoopTypes ==
  /\ size \in Nat \ {0}
  /\ pc \in [Ranks -> {"poll", "count", "take", "results", "closing", "barrier", "closed"}]
  /\ inbox \in Seq(Msgs) /\ rest \in Seq(Msgs) /\ got \in [Ranks -> Seq(Msgs)]
  /\ left \in [Ranks -> Nat] /\ todo \in [Ranks -> [Msgs -> Nat]]
  /\ data \in [Ranks -> Nat] /\ cur \in [Ranks -> Nat]
  /\ taken \in [Ranks -> Seq(Seq(Msgs))] /\ ran \in [Ranks -> Seq(SUBSET Msgs)]
  /\ subs \in [Ranks -> Seq(Msgs)] /\ counts \in [Ranks -> Seq(Nat)]

\* One history for all ranks: the messages P in the order of their publication, N
\* iterations that rank 0 has counted, iteration i with the messages up to O[i], which
\* leaves the state S[i].
Story(P, N, O, S) ==
  /\ P \in Seq(Msgs) /\ N \in Nat /\ O \in [0 .. N -> Nat] /\ S \in [0 .. N -> States]
  /\ O[0] = 0 /\ S[0] = Fresh
  /\ \A i \in 0 .. N : O[i] <= Len(P)
  /\ \A i \in 0 .. N - 1 :
       /\ O[i] + First(S[i]) <= O[i + 1]
       /\ S[i + 1] = After(S[i], Slice(P, O[i], O[i + 1]))
  /\ \A i, j \in 0 .. N : i <= j => Begins(S[i].ran, S[j].ran)

\* What a rank has yet to take of its iteration.
Missing(r) == IF r = 0 THEN Len(rest) ELSE left[r]

\* A rank that has n iterations behind it is where the history was then, and inside the
\* next one has a beginning of its messages.
RankAt(P, N, O, S, r) ==
  LET n == Len(taken[r])
  IN  /\ n <= N
      /\ \A i \in 1 .. n : Len(taken[r][i]) = O[i] - O[i - 1] /\ Matches(taken[r][i], P, O[i - 1])
      /\ todo[r] = S[n].todo /\ ran[r] = S[n].ran
      /\ IF pc[r] = "results" THEN cur[r] = S[n].cur ELSE data[r] = S[n].cur
      /\ O[n] + Len(got[r]) <= Len(P) /\ Matches(got[r], P, O[n])
      /\ pc[r] = "count" => Blocks(S[n]) /\ Len(got[r]) = 1
      /\ pc[r] = "take" => n < N /\ Len(got[r]) + Missing(r) = O[n + 1] - O[n]
      /\ pc[r] \notin {"count", "take"} => got[r] = <<>>

Counted(r) == Len(taken[r]) + IF pc[r] = "take" THEN 1 ELSE 0

\* Rank 0 makes the history: it has counted N iterations, and has published all but
\* the rest.
Leads(P, N, O) ==
  /\ Counted(0) = N
  /\ pc[0] # "take" => rest = <<>>
  /\ Len(P) = O[N] + IF pc[0] = "count" THEN 1 ELSE 0
  /\ Len(rest) <= Len(P) /\ Matches(rest, P, Len(P) - Len(rest))

\* In the queues of another rank is what it has not taken of the history.
Follows(P, N, O, S, r) ==
  LET n == Len(taken[r])  c == Counted(r)
  IN  /\ O[n] + Len(got[r]) + Len(subs[r]) + Len(rest) = Len(P)
      /\ Matches(subs[r], P, O[n] + Len(got[r]))
      /\ c + Len(counts[r]) = N
      /\ \A k \in 1 .. Len(counts[r]) : counts[r][k] + First(S[c + k - 1]) = O[c + k] - O[c + k - 1]

Told(P, N, O, S) ==
  /\ Story(P, N, O, S) /\ Leads(P, N, O)
  /\ \A r \in Ranks : RankAt(P, N, O, S, r)
  /\ \A r \in Followers : Follows(P, N, O, S, r)

\* The ranks never start where they would decide by their clocks; they decide on the
\* same number of pages; and as long as every publication has reached everybody there
\* is a history that all follow.
LoopInv ==
  /\ LoopTypes
  /\ step \in [Ranks -> 0 .. Running] /\ (Refused => \A r \in Ranks : step[r] = 0)
  /\ DOMAIN pages = Ranks
  /\ \A r \in Ranks : pages[r] # 0 => pages[r] = NumPages(0)
  /\ ~lost /\ size # 1 => \E P, N, O, S : Told(P, N, O, S)

-----------------------------------------------------------------------------
\* A history with one iteration more is one, and the ranks are in it where they were.
LEMMA AfterState ==
  ASSUME NEW s \in States, NEW M
  PROVE  After(s, M) \in States /\ Begins(s.ran, After(s, M).ran)
<1>1. Work \in [Msgs -> Nat] BY WorkAssumption
<1>2. s.todo \in [Msgs -> Nat] /\ s.ran \in Seq(SUBSET Msgs) /\ s.cur \in Nat /\ Len(s.ran) \in Nat
  BY LenProperties DEF States
<1>3. \A m \in Msgs : Jobs(s, M)[m] \in Nat BY <1>1, <1>2 DEF Jobs
<1>4. Runnable(s, M) \in SUBSET Msgs BY DEF Runnable
<1>5. CASE Exit \in M BY <1>5, <1>2 DEF After, Begins
<1>6. CASE Exit \notin M
  <2> DEFINE todo2 == [m \in Msgs |-> IF m \in Runnable(s, M) THEN Jobs(s, M)[m] - 1 ELSE Jobs(s, M)[m]]
             ran2 == IF Runnable(s, M) = {} THEN s.ran ELSE Append(s.ran, Runnable(s, M))
             cur2 == IF Runnable(s, M) = {} THEN 0 ELSE Len(s.ran) + 1
  <2>1. todo2 \in [Msgs -> Nat]
    <3>1. \A m \in Msgs : m \in Runnable(s, M) => Jobs(s, M)[m] > 0 BY DEF Runnable
    <3> HIDE DEF todo2
    <3>2. \A m \in Msgs : (IF m \in Runnable(s, M) THEN Jobs(s, M)[m] - 1 ELSE Jobs(s, M)[m]) \in Nat
      BY <1>3, <3>1
    <3>3. QED BY <3>2 DEF todo2
  <2>2. ran2 \in Seq(SUBSET Msgs) /\ Begins(s.ran, ran2)
    <3>1. CASE Runnable(s, M) = {} BY <3>1, <1>2 DEF Begins
    <3>2. CASE Runnable(s, M) # {}
      <4>1. Append(s.ran, Runnable(s, M)) \in Seq(SUBSET Msgs) BY <1>2, <1>4
      <4>2. Begins(s.ran, Append(s.ran, Runnable(s, M))) BY <1>2, <1>4 DEF Begins
      <4>3. QED BY <3>2, <4>1, <4>2
    <3>3. QED BY <3>1, <3>2
  <2>3. cur2 \in Nat BY <1>2
  <2>4. After(s, M) = [todo |-> todo2, ran |-> ran2, cur |-> cur2] BY <1>6 DEF After
  <2> HIDE DEF todo2, ran2, cur2
  <2>5. QED BY <2>1, <2>2, <2>3, <2>4 DEF States
<1>7. QED BY <1>5, <1>6

\* Nothing is published yet.
LEMMA InitLoop == Init => LoopInv
<1> SUFFICES ASSUME Init PROVE LoopInv OBVIOUS
<1>1. size \in Nat \ {0} BY SizesAssumption DEF Init
<1>2. 0 \in Ranks BY <1>1 DEF Ranks
<1>3. LoopTypes
  <2>1. \A S : <<>> \in Seq(S) BY EmptySeq
  <2>2. [m \in Msgs |-> 0] \in [Msgs -> Nat] OBVIOUS
  <2>3. QED BY <1>1, <2>1, <2>2 DEF Init, LoopTypes
<1>4. \E P, N, O, S : Told(P, N, O, S)
  <2> DEFINE O == [i \in 0 .. 0 |-> 0]
             S == [i \in 0 .. 0 |-> Fresh]
  <2>1. Fresh \in States
    <3>1. <<>> \in Seq(SUBSET Msgs) BY EmptySeq
    <3>2. QED BY <3>1 DEF Fresh, States
  <2>2. 0 .. 0 = {0} /\ O[0] = 0 /\ S[0] = Fresh OBVIOUS
  <2>3. Fresh.ran = <<>> /\ Len(<<>>) = 0 /\ Fresh.cur = 0 /\ Fresh.todo = [m \in Msgs |-> 0]
    BY EmptySeq DEF Fresh
  <2>4. Story(<<>>, 0, O, S)
    <3>1. <<>> \in Seq(Msgs) BY EmptySeq
    <3>2. O \in [0 .. 0 -> Nat] /\ S \in [0 .. 0 -> States] BY <2>1
    <3>3. \A i \in 0 .. 0 - 1 : FALSE OBVIOUS
    <3>4. Begins(Fresh.ran, Fresh.ran) BY <2>3 DEF Begins
    <3> HIDE DEF O, S
    <3>5. QED BY <2>2, <2>3, <3>1, <3>2, <3>3, <3>4 DEF Story
  <2> HIDE DEF O, S
  <2>5. Leads(<<>>, 0, O) BY <1>2, <2>2, <2>3 DEF Leads, Counted, Matches, Init
  <2>6. \A r \in Ranks : RankAt(<<>>, 0, O, S, r)
    BY <2>2, <2>3 DEF RankAt, Matches, Init
  <2>7. \A r \in Followers : Follows(<<>>, 0, O, S, r)
    BY <2>2, <2>3 DEF Follows, Counted, Matches, Init, Followers
  <2>8. QED BY <2>4, <2>5, <2>6, <2>7 DEF Told
<1>5. step \in [Ranks -> 0 .. Running] /\ \A r \in Ranks : step[r] = 0 BY DEF Init, Running
<1>6. DOMAIN pages = Ranks /\ \A r \in Ranks : pages[r] = 0 BY DEF Init
<1>7. QED BY <1>3, <1>4, <1>5, <1>6 DEF LoopInv

-----------------------------------------------------------------------------
\* What the loops' steps leave alone.
LEMMA SameRank ==
  ASSUME NEW P, NEW N, NEW O, NEW S, NEW r, RankAt(P, N, O, S, r),
         /\ taken'[r] = taken[r] /\ todo'[r] = todo[r] /\ ran'[r] = ran[r] /\ pc'[r] = pc[r]
         /\ cur'[r] = cur[r] /\ data'[r] = data[r] /\ got'[r] = got[r]
         /\ (r = 0 => rest' = rest) /\ left'[r] = left[r]
  PROVE  RankAt(P, N, O, S, r)'
BY DEF RankAt, Missing, Matches, Blocks

LEMMA SameFollower ==
  ASSUME NEW P, NEW N, NEW O, NEW S, NEW r, Follows(P, N, O, S, r),
         /\ taken'[r] = taken[r] /\ pc'[r] = pc[r] /\ Len(got'[r]) = Len(got[r])
         /\ subs'[r] = subs[r] /\ counts'[r] = counts[r] /\ Len(rest') = Len(rest)
  PROVE  Follows(P, N, O, S, r)'
BY DEF Follows, Counted, Matches

LEMMA SameLeader ==
  ASSUME NEW P, NEW N, NEW O, Leads(P, N, O),
         taken'[0] = taken[0] /\ pc'[0] = pc[0] /\ rest' = rest
  PROVE  Leads(P, N, O)'
BY DEF Leads, Counted, Matches

LEMMA SameStory ==
  ASSUME NEW P, NEW N, NEW O, NEW S, Story(P, N, O, S)
  PROVE  Story(P, N, O, S)'
BY DEF Story, First, Blocks, After, Runnable, Jobs, Slice, Begins, States, Fresh

-----------------------------------------------------------------------------
\* The messages of an iteration, taken one by one, are a part of the history.
LEMMA TakenAll ==
  ASSUME NEW P \in Seq(Msgs), NEW a \in Nat, NEW s \in Seq(Msgs), Matches(s, P, a)
  PROVE  ToSet(s) = Slice(P, a, a + Len(s))
<1>1. Len(s) \in Nat /\ DOMAIN s = 1 .. Len(s) BY LenProperties
<1>2. ASSUME NEW k \in 1 .. Len(s) PROVE s[k] \in Slice(P, a, a + Len(s))
  <2>1. a + k \in a + 1 .. a + Len(s) /\ s[k] = P[a + k] BY <1>1, <1>2 DEF Matches
  <2>2. QED BY <2>1 DEF Slice
<1>3. ASSUME NEW k \in a + 1 .. a + Len(s) PROVE P[k] \in ToSet(s)
  <2>1. k - a \in 1 .. Len(s) /\ a + (k - a) = k BY <1>1, <1>3
  <2>2. s[k - a] = P[k] BY <2>1 DEF Matches
  <2>3. QED BY <1>1, <2>1, <2>2 DEF ToSet
<1>4. QED BY <1>1, <1>2, <1>3 DEF ToSet, Slice

\* The first of the messages that match the history, and what matches behind it.
LEMMA MatchesTail ==
  ASSUME NEW P, NEW a \in Nat, NEW s \in Seq(Msgs), s # <<>>, Matches(s, P, a)
  PROVE  /\ Len(s) \in Nat \ {0} /\ Head(s) \in Msgs /\ Tail(s) \in Seq(Msgs)
         /\ Head(s) = P[a + 1] /\ Len(Tail(s)) = Len(s) - 1 /\ Matches(Tail(s), P, a + 1)
<1>1. /\ Len(s) \in Nat \ {0} /\ Head(s) \in Msgs /\ Tail(s) \in Seq(Msgs)
      /\ Head(s) = s[1] /\ Len(Tail(s)) = Len(s) - 1
      /\ \A k \in 1 .. Len(s) - 1 : Tail(s)[k] = s[k + 1]
  BY HeadTailProperties, EmptySeq
<1>2. Head(s) = P[a + 1] BY <1>1 DEF Matches
<1>3. ASSUME NEW k \in 1 .. Len(s) - 1 PROVE Tail(s)[k] = P[a + 1 + k]
  <2>1. k + 1 \in 1 .. Len(s) /\ a + (k + 1) = a + 1 + k BY <1>1
  <2>2. Tail(s)[k] = s[k + 1] BY <1>1
  <2>3. s[k + 1] = P[a + (k + 1)] BY <2>1 DEF Matches
  <2>4. QED BY <2>1, <2>2, <2>3
<1>4. QED BY <1>1, <1>2, <1>3 DEF Matches

\* One message more.
LEMMA MatchesAppend ==
  ASSUME NEW P, NEW a \in Nat, NEW s \in Seq(Msgs), NEW m \in Msgs,
         Matches(s, P, a), m = P[a + Len(s) + 1]
  PROVE  Len(Append(s, m)) = Len(s) + 1 /\ Matches(Append(s, m), P, a)
<1>1. /\ Len(s) \in Nat /\ Len(Append(s, m)) = Len(s) + 1 /\ Append(s, m)[Len(s) + 1] = m
      /\ \A k \in 1 .. Len(s) : Append(s, m)[k] = s[k]
  BY LenProperties
<1>2. a + Len(s) + 1 = a + (Len(s) + 1) BY <1>1
<1>3. ASSUME NEW k \in 1 .. Len(s) + 1 PROVE Append(s, m)[k] = P[a + k]
  <2>1. CASE k \in 1 .. Len(s) BY <1>1, <2>1 DEF Matches
  <2>2. CASE k = Len(s) + 1 BY <1>1, <1>2, <2>2
  <2>3. QED BY <1>1, <2>1, <2>2
<1>4. QED BY <1>1, <1>3 DEF Matches

\* Where a rank stands in the history.
LEMMA Standing ==
  ASSUME LoopTypes, NEW P, NEW N, NEW O, NEW S, Told(P, N, O, S), NEW r \in Ranks
  PROVE  /\ P \in Seq(Msgs) /\ Len(P) \in Nat /\ N \in Nat /\ Len(taken[r]) \in 0 .. N
         /\ O[Len(taken[r])] \in Nat /\ S[Len(taken[r])] \in States
         /\ Len(taken[r]) < N => O[Len(taken[r]) + 1] \in Nat /\ S[Len(taken[r]) + 1] \in States
         /\ got[r] \in Seq(Msgs) /\ Len(got[r]) \in Nat /\ rest \in Seq(Msgs) /\ Len(rest) \in Nat
         /\ subs[r] \in Seq(Msgs) /\ Len(subs[r]) \in Nat
         /\ counts[r] \in Seq(Nat) /\ Len(counts[r]) \in Nat /\ left[r] \in Nat
         /\ RankAt(P, N, O, S, r) /\ 0 \in Ranks
<1>1. /\ P \in Seq(Msgs) /\ N \in Nat /\ O \in [0 .. N -> Nat] /\ S \in [0 .. N -> States]
      /\ RankAt(P, N, O, S, r)
  BY DEF Told, Story
<1>2. /\ taken[r] \in Seq(Seq(Msgs)) /\ got[r] \in Seq(Msgs) /\ rest \in Seq(Msgs)
      /\ subs[r] \in Seq(Msgs) /\ counts[r] \in Seq(Nat) /\ left[r] \in Nat /\ size \in Nat \ {0}
  BY DEF LoopTypes
<1>3. /\ Len(P) \in Nat /\ Len(taken[r]) \in Nat /\ Len(got[r]) \in Nat /\ Len(rest) \in Nat
      /\ Len(subs[r]) \in Nat /\ Len(counts[r]) \in Nat
  BY <1>1, <1>2, LenProperties
<1>4. Len(taken[r]) <= N BY <1>1 DEF RankAt
<1>5. 0 \in Ranks BY <1>2 DEF Ranks
<1>6. QED BY <1>1, <1>2, <1>3, <1>4, <1>5

\* A rank that goes on behind its iteration is where the history is then.
LEMMA IterationTold ==
  ASSUME LoopTypes, NEW P, NEW N, NEW O, NEW S, Told(P, N, O, S), NEW r \in Ranks,
         NEW where \in {"results", "closing"},
         pc[r] = "take" /\ Missing(r) = 0 /\ (r = 0 => rest = <<>>),
         /\ taken' = [taken EXCEPT ![r] = Append(@, got[r])] /\ got' = [got EXCEPT ![r] = <<>>]
         /\ pc' = [pc EXCEPT ![r] = where]
         /\ UNCHANGED <<rest, left, subs, counts, size>>,
         \A q \in Ranks \ {r} :
           todo'[q] = todo[q] /\ ran'[q] = ran[q] /\ cur'[q] = cur[q] /\ data'[q] = data[q],
         /\ todo'[r] = S[Len(taken[r]) + 1].todo /\ ran'[r] = S[Len(taken[r]) + 1].ran
         /\ (IF where = "results" THEN cur'[r] ELSE data'[r]) = S[Len(taken[r]) + 1].cur
  PROVE  Told(P, N, O, S)'
<1> DEFINE n == Len(taken[r])
<1>1. RankAt(P, N, O, S, r) /\ n < N /\ Len(got[r]) = O[n + 1] - O[n] /\ Matches(got[r], P, O[n])
  BY Standing DEF RankAt
<1>2. /\ taken'[r] = Append(taken[r], got[r]) /\ Len(taken'[r]) = n + 1
      /\ \A i \in 1 .. n : taken'[r][i] = taken[r][i]
      /\ taken'[r][n + 1] = got[r]
  BY DEF LoopTypes
<1>3. got'[r] = <<>> /\ pc'[r] = where /\ pc'[r] # "take" BY DEF LoopTypes
<1>4. n \in Nat /\ Counted(r) = n + 1 /\ Counted(r)' = n + 1
  <2>1. n \in Nat /\ pc[r] = "take" BY Standing
  <2> HIDE DEF n
  <2>2. Counted(r) = n + 1 BY <2>1 DEF Counted, n
  <2>3. Len(taken'[r]) + 0 = n + 1 BY <1>2, <2>1
  <2>4. QED BY <1>3, <2>1, <2>2, <2>3 DEF Counted
<1>5. RankAt(P, N, O, S, r)'
  <2>1. n + 1 <= N BY <1>1, Standing
  <2>2. \A i \in 1 .. n + 1 :
          Len(taken'[r][i]) = O[i] - O[i - 1] /\ Matches(taken'[r][i], P, O[i - 1])
    <3>1. \A i \in 1 .. n : Len(taken[r][i]) = O[i] - O[i - 1] /\ Matches(taken[r][i], P, O[i - 1])
      BY <1>1 DEF RankAt
    <3>2. n + 1 - 1 = n /\ \A i \in 1 .. n + 1 : i \in 1 .. n \/ i = n + 1 BY Standing
    <3>3. ASSUME NEW i \in 1 .. n PROVE taken'[r][i] = taken[r][i] BY <1>2
    <3>4. Matches(taken'[r][n + 1], P, O[n]) /\ Len(taken'[r][n + 1]) = O[n + 1] - O[n] BY <1>1, <1>2
    <3>5. ASSUME NEW i \in 1 .. n + 1
          PROVE  Len(taken'[r][i]) = O[i] - O[i - 1] /\ Matches(taken'[r][i], P, O[i - 1])
      <4>1. CASE i \in 1 .. n BY <3>1, <3>3, <4>1
      <4>2. CASE i = n + 1
        <5>1. i - 1 = n BY <3>2, <4>2
        <5>2. QED BY <3>4, <4>2, <5>1
      <4>3. QED BY <3>2, <4>1, <4>2
    <3>6. QED BY <3>5
  <2>3. O[n + 1] + 0 <= Len(P)
    <3>1. n + 1 \in 0 .. N BY <1>1, Standing
    <3>2. QED BY <3>1 DEF Told, Story
  <2>4. Len(<<>>) = 0 BY EmptySeq
  <2> DEFINE n2 == n + 1
  <2>5. /\ Len(taken'[r]) = n2 /\ n2 <= N /\ O[n2] + 0 <= Len(P)
        /\ todo'[r] = S[n2].todo /\ ran'[r] = S[n2].ran
        /\ (IF where = "results" THEN cur'[r] ELSE data'[r]) = S[n2].cur
        /\ \A i \in 1 .. n2 :
             Len(taken'[r][i]) = O[i] - O[i - 1] /\ Matches(taken'[r][i], P, O[i - 1])
    BY <1>2, <1>3, <2>1, <2>2, <2>3
  <2> HIDE DEF n, n2
  <2>6. QED BY <1>3, <2>4, <2>5 DEF RankAt, Matches
<1>6. ASSUME NEW q \in Ranks, q # r PROVE RankAt(P, N, O, S, q)'
  <2>1. /\ taken'[q] = taken[q] /\ todo'[q] = todo[q] /\ ran'[q] = ran[q] /\ pc'[q] = pc[q]
        /\ cur'[q] = cur[q] /\ data'[q] = data[q] /\ got'[q] = got[q]
        /\ rest' = rest /\ left'[q] = left[q]
    BY <1>6 DEF LoopTypes
  <2>2. QED BY <2>1, SameRank DEF Told
<1>7. Leads(P, N, O)'
  <2>1. CASE r = 0
    <3>1. Counted(r) = n + 1 /\ Counted(r)' = n + 1 BY <1>4
    <3>2. Leads(P, N, O) BY  DEF Told
    <3>3. rest' = <<>> /\ rest = <<>> /\ pc'[0] \in {"results", "closing"} /\ pc[0] = "take"
      BY <1>3, <2>1
    <3>4. QED BY <2>1, <3>1, <3>2, <3>3 DEF Leads, Matches
  <2>2. CASE r # 0
    <3>1. taken'[0] = taken[0] /\ pc'[0] = pc[0] /\ rest' = rest
      BY <2>2, Standing DEF LoopTypes
    <3>2. QED BY <3>1, SameLeader DEF Told
  <2>3. QED BY <2>1, <2>2
<1>8. ASSUME NEW q \in Followers PROVE Follows(P, N, O, S, q)'
  <2>1. q \in Ranks /\ Follows(P, N, O, S, q) BY  DEF Told, Followers
  <2>2. CASE q # r
    <3>1. /\ taken'[q] = taken[q] /\ pc'[q] = pc[q] /\ Len(got'[q]) = Len(got[q])
          /\ subs'[q] = subs[q] /\ counts'[q] = counts[q] /\ Len(rest') = Len(rest)
      BY <2>1, <2>2 DEF LoopTypes
    <3>2. QED BY <2>1, <3>1, SameFollower
  <2>3. CASE q = r
    <3>1. Counted(r) = n + 1 /\ Counted(r)' = n + 1 BY <1>4
    <3>2. O[n] + Len(got[r]) = O[n + 1] + 0 /\ Len(<<>>) = 0 BY <1>1, Standing, EmptySeq
    <3>3. subs'[r] = subs[r] /\ counts'[r] = counts[r] /\ rest' = rest OBVIOUS
    <3>4. Matches(subs[r], P, O[n + 1] + 0) BY <2>1, <2>3, <3>2 DEF Follows
    <3>5. Follows(P, N, O, S, r) BY <2>1, <2>3
    <3>6. /\ Len(taken'[r]) = n + 1 /\ Len(got'[r]) = 0 /\ got'[r] = <<>>
      BY <1>2, <1>3, <3>2
    <3>7. O[n] + Len(got[r]) + Len(subs[r]) + Len(rest) = Len(P) BY <3>5 DEF Follows
    <3>8. O[n + 1] + 0 + Len(subs[r]) + Len(rest) = Len(P) BY <3>2, <3>7
    <3>9. /\ Counted(r)' + Len(counts[r]) = N
          /\ \A k \in 1 .. Len(counts[r]) : counts[r][k] + First(S[Counted(r)' + k - 1])
               = O[Counted(r)' + k] - O[Counted(r)' + k - 1]
      BY <3>1, <3>5 DEF Follows
    <3> HIDE DEF n
    <3>10. Follows(P, N, O, S, r)' BY <3>3, <3>4, <3>6, <3>8, <3>9 DEF Follows, Matches
    <3>11. QED BY <2>3, <3>10
  <2>4. QED BY <2>2, <2>3
<1>9. QED
  <2>1. Ranks' = Ranks /\ Followers' = Followers BY DEF Ranks, Followers
  <2>2. QED BY <1>5, <1>6, <1>7, <1>8, <2>1, SameStory DEF Told

\* What one iteration adds to a rank's batches is what the history has.
LEMMA LaunchTold ==
  ASSUME LoopTypes, NEW P, NEW N, NEW O, NEW S, Told(P, N, O, S),
         policy # "wait_time", NEW r \in Ranks, Launch(r)
  PROVE  Told(P, N, O, S)'
<1> DEFINE n == Len(taken[r])
           jobs == [m \in Msgs |-> todo[r][m] + IF m \in ToSet(got[r]) THEN Work[m] ELSE 0]
           runnable == {m \in Msgs : jobs[m] > 0}
<1>1. /\ pc[r] = "take" /\ Missing(r) = 0 /\ (r = 0 => rest = <<>>) /\ Exit \notin ToSet(got[r])
  BY EmptySeq DEF Launch, AllTaken, At, Missing
<1>2. /\ todo' = [todo EXCEPT ![r] = [m \in Msgs |-> IF m \in runnable THEN jobs[m] - 1 ELSE jobs[m]]]
      /\ ran' = IF runnable = {} THEN ran ELSE [ran EXCEPT ![r] = Append(@, runnable)]
      /\ cur' = [cur EXCEPT ![r] = IF runnable = {} THEN 0 ELSE Len(ran[r]) + 1]
      /\ taken' = [taken EXCEPT ![r] = Append(@, got[r])] /\ got' = [got EXCEPT ![r] = <<>>]
      /\ pc' = [pc EXCEPT ![r] = "results"]
      /\ UNCHANGED <<rest, left, data, subs, counts, size>>
  BY DEF Launch, BatchChoices, Goto, io, config
<1>3. RankAt(P, N, O, S, r) /\ n < N /\ Len(got[r]) = O[n + 1] - O[n] /\ Matches(got[r], P, O[n])
      /\ todo[r] = S[n].todo /\ ran[r] = S[n].ran
  BY <1>1, Standing DEF RankAt
<1>4. ToSet(got[r]) = Slice(P, O[n], O[n + 1])
  <2>1. O[n] + Len(got[r]) = O[n + 1] BY <1>3, Standing
  <2>2. QED BY <1>3, <2>1, Standing, TakenAll
<1>5. /\ jobs = Jobs(S[n], Slice(P, O[n], O[n + 1]))
      /\ runnable = Runnable(S[n], Slice(P, O[n], O[n + 1]))
  BY <1>3, <1>4 DEF Jobs, Runnable
<1>6. S[n + 1] = After(S[n], Slice(P, O[n], O[n + 1]))
  <2>1. n \in 0 .. N - 1 BY <1>3, Standing
  <2>2. QED BY <2>1 DEF Told, Story
<1>7. /\ S[n + 1].todo = [m \in Msgs |-> IF m \in runnable THEN jobs[m] - 1 ELSE jobs[m]]
      /\ S[n + 1].ran = IF runnable = {} THEN ran[r] ELSE Append(ran[r], runnable)
      /\ S[n + 1].cur = IF runnable = {} THEN 0 ELSE Len(ran[r]) + 1
  <2> DEFINE M == Slice(P, O[n], O[n + 1])
             s == S[n]
  <2>1. Exit \notin M /\ jobs = Jobs(s, M) /\ runnable = Runnable(s, M) /\ S[n + 1] = After(s, M)
    BY <1>1, <1>4, <1>5, <1>6
  <2>2. ran[r] = s.ran BY <1>3
  <2> HIDE DEF M, s, jobs, runnable
  <2>3. After(s, M) = [todo |-> [m \in Msgs |-> IF m \in runnable THEN jobs[m] - 1 ELSE jobs[m]],
                       ran |-> IF runnable = {} THEN s.ran ELSE Append(s.ran, runnable),
                       cur |-> IF runnable = {} THEN 0 ELSE Len(s.ran) + 1]
    BY <2>1 DEF After
  <2>4. QED BY <2>1, <2>2, <2>3
<1> HIDE DEF jobs, runnable
<1>8. QED
  <2>1. /\ pc[r] = "take" /\ Missing(r) = 0 /\ (r = 0 => rest = <<>>) BY <1>1
  <2>2. /\ todo'[r] = S[n + 1].todo /\ ran'[r] = S[n + 1].ran /\ cur'[r] = S[n + 1].cur
        /\ \A q \in Ranks \ {r} :
             todo'[q] = todo[q] /\ ran'[q] = ran[q] /\ cur'[q] = cur[q] /\ data'[q] = data[q]
    BY <1>2, <1>7 DEF LoopTypes
  <2>3. QED BY <1>2, <2>1, <2>2, IterationTold

\* A rank that takes the ExitMsg launches nothing.
LEMMA InterruptTold ==
  ASSUME LoopTypes, NEW P, NEW N, NEW O, NEW S, Told(P, N, O, S), NEW r \in Ranks, Interrupt(r)
  PROVE  Told(P, N, O, S)'
<1> DEFINE n == Len(taken[r])
<1>1. /\ pc[r] = "take" /\ Missing(r) = 0 /\ (r = 0 => rest = <<>>) /\ Exit \in ToSet(got[r])
  BY EmptySeq DEF Interrupt, AllTaken, At, Missing
<1>2. /\ taken' = [taken EXCEPT ![r] = Append(@, got[r])] /\ got' = [got EXCEPT ![r] = <<>>]
      /\ pc' = [pc EXCEPT ![r] = "closing"]
      /\ UNCHANGED <<rest, left, todo, data, cur, ran, subs, counts, size>>
  BY DEF Interrupt, Goto, io, config
<1>3. /\ RankAt(P, N, O, S, r) /\ n < N /\ Len(got[r]) = O[n + 1] - O[n]
      /\ Matches(got[r], P, O[n]) /\ todo[r] = S[n].todo /\ ran[r] = S[n].ran /\ data[r] = S[n].cur
  BY <1>1, Standing DEF RankAt
<1>4. ToSet(got[r]) = Slice(P, O[n], O[n + 1])
  <2>1. O[n] + Len(got[r]) = O[n + 1] BY <1>3, Standing
  <2>2. QED BY <1>3, <2>1, Standing, TakenAll
<1>5. S[n + 1] = After(S[n], Slice(P, O[n], O[n + 1]))
  <2>1. n \in 0 .. N - 1 BY <1>3, Standing
  <2>2. QED BY <2>1 DEF Told, Story
<1>6. S[n + 1] = S[n] BY <1>1, <1>4, <1>5 DEF After
<1>7. QED BY <1>1, <1>2, <1>3, <1>6, IterationTold

-----------------------------------------------------------------------------
\* A step of one rank that leaves the others and what rank 0 leads alone.
LEMMA OneRank ==
  ASSUME LoopTypes, NEW P, NEW N, NEW O, NEW S, Told(P, N, O, S), NEW r \in Ranks,
         RankAt(P, N, O, S, r)', r = 0 => Leads(P, N, O)', r # 0 => Follows(P, N, O, S, r)',
         size' = size, rest' = rest,
         \A q \in Ranks \ {r} :
           /\ taken'[q] = taken[q] /\ todo'[q] = todo[q] /\ ran'[q] = ran[q] /\ pc'[q] = pc[q]
           /\ cur'[q] = cur[q] /\ data'[q] = data[q] /\ got'[q] = got[q] /\ left'[q] = left[q]
           /\ subs'[q] = subs[q] /\ counts'[q] = counts[q]
  PROVE  Told(P, N, O, S)'
<1>1. ASSUME NEW q \in Ranks, q # r PROVE RankAt(P, N, O, S, q)'
  BY <1>1, SameRank DEF Told
<1>2. ASSUME NEW q \in Followers, q # r PROVE Follows(P, N, O, S, q)'
  <2>1. q \in Ranks BY DEF Followers
  <2>2. /\ taken'[q] = taken[q] /\ pc'[q] = pc[q] /\ Len(got'[q]) = Len(got[q])
        /\ subs'[q] = subs[q] /\ counts'[q] = counts[q] /\ Len(rest') = Len(rest)
    BY <1>2, <2>1
  <2>3. QED BY <2>2, SameFollower DEF Told
<1>3. ASSUME r # 0 PROVE Leads(P, N, O)'
  <2>1. taken'[0] = taken[0] /\ pc'[0] = pc[0] BY <1>3, Standing
  <2>2. QED BY <2>1, SameLeader DEF Told
<1>4. Ranks' = Ranks /\ Followers' = Followers BY DEF Ranks, Followers
<1>5. \A q \in Followers : q # 0 BY DEF Followers
<1>6. QED BY <1>1, <1>2, <1>3, <1>4, <1>5, SameStory DEF Told

\* Between two iterations, and behind the last one, a rank takes nothing.
LEMMA MoveTold ==
  ASSUME LoopTypes, NEW P, NEW N, NEW O, NEW S, Told(P, N, O, S), NEW r \in Ranks,
         Results(r) \/ Synchronize(r) \/ Close(r)
  PROVE  Told(P, N, O, S)'
<1>1. /\ pc[r] \notin {"count", "take"} /\ pc'[r] \notin {"count", "take", "results"}
      /\ \A q \in Ranks \ {r} : pc'[q] = pc[q] /\ cur'[q] = cur[q] /\ data'[q] = data[q]
      /\ data'[r] = IF pc[r] = "results" THEN cur[r] ELSE data[r]
      /\ UNCHANGED <<got, rest, left, todo, taken, ran, subs, counts, size>>
  <2>1. CASE Results(r) BY <2>1 DEF Results, At, Goto, LoopTypes, io, config
  <2>2. CASE Synchronize(r) BY <2>2 DEF Synchronize, At, Goto, LoopTypes, io, config
  <2>3. CASE Close(r) BY <2>3 DEF Close, At, Goto, LoopTypes, io, config
  <2>4. QED BY <2>1, <2>2, <2>3
<1>2. RankAt(P, N, O, S, r)' BY <1>1, Standing DEF RankAt, Matches
<1>3. Counted(r)' = Counted(r) BY <1>1 DEF Counted
<1>4. r = 0 => Leads(P, N, O)' BY <1>1, <1>3 DEF Told, Leads, Matches
<1>5. ASSUME r # 0 PROVE Follows(P, N, O, S, r)'
  <2>1. Follows(P, N, O, S, r) BY <1>5 DEF Told, Followers
  <2>2. QED BY <1>1, <1>3, <2>1 DEF Follows, Matches
<1>6. QED BY <1>1, <1>2, <1>4, <1>5, OneRank

\* A follower finds what rank 0 found: first what it blocks for, ...
LEMMA FollowFirstTold ==
  ASSUME LoopTypes, NEW P, NEW N, NEW O, NEW S, Told(P, N, O, S), NEW r \in Ranks, FollowFirst(r)
  PROVE  Told(P, N, O, S)'
<1> DEFINE n == Len(taken[r])
<1>1. /\ r # 0 /\ pc[r] = "poll" /\ Idle(r) /\ subs[r] # <<>>
      /\ got' = [got EXCEPT ![r] = <<Head(subs[r])>>] /\ subs' = [subs EXCEPT ![r] = Tail(@)]
      /\ pc' = [pc EXCEPT ![r] = "count"]
      /\ UNCHANGED <<rest, left, todo, data, cur, taken, ran, counts, size>>
  BY DEF FollowFirst, At, Goto, config
<1>2. RankAt(P, N, O, S, r) /\ Follows(P, N, O, S, r) BY <1>1, Standing DEF Told, Followers
<1>3. /\ got[r] = <<>> /\ todo[r] = S[n].todo /\ data[r] = S[n].cur /\ n <= N
      /\ O[n] + Len(got[r]) + Len(subs[r]) + Len(rest) = Len(P)
      /\ Matches(subs[r], P, O[n] + Len(got[r])) /\ Counted(r) = n
  BY <1>1, <1>2, Standing DEF RankAt, Follows, Counted
<1>4. Blocks(S[n]) BY <1>1, <1>3 DEF Idle, Blocks
<1>5. O[n] \in Nat /\ Len(P) \in Nat /\ Len(rest) \in Nat /\ Len(<<>>) = 0 /\ Len(got[r]) = 0
  BY <1>3, Standing, EmptySeq
<1>6. /\ got'[r] = <<Head(subs[r])>> /\ subs'[r] = Tail(subs[r]) /\ pc'[r] = "count"
      /\ Len(got'[r]) = 1 /\ got'[r][1] = Head(subs[r])
  BY <1>1 DEF LoopTypes
<1> HIDE DEF n
<1>7. Matches(subs[r], P, O[n]) /\ subs[r] \in Seq(Msgs) BY <1>3, <1>5, Standing
<1>8. /\ Len(subs[r]) \in Nat \ {0} /\ Head(subs[r]) = P[O[n] + 1]
      /\ Len(Tail(subs[r])) = Len(subs[r]) - 1 /\ Matches(Tail(subs[r]), P, O[n] + 1)
  <2>1. subs[r] # <<>> /\ O[n] \in Nat BY <1>1, <1>5
  <2>2. QED BY <1>7, <2>1, MatchesTail
<1>9. RankAt(P, N, O, S, r)'
  <2>1. O[n] + 1 <= Len(P) BY <1>3, <1>5, <1>8
  <2>2. Matches(got'[r], P, O[n]) BY <1>6, <1>8 DEF Matches
  <2>3. QED BY <1>1, <1>2, <1>3, <1>4, <1>6, <2>1, <2>2 DEF RankAt, Matches, n
<1>10. Follows(P, N, O, S, r)'
  <2>1. O[n] + 1 + (Len(subs[r]) - 1) + Len(rest) = Len(P) BY <1>3, <1>5, <1>8
  <2>2. Counted(r)' = Counted(r) BY <1>1, <1>6 DEF Counted
  <2>3. QED BY <1>1, <1>2, <1>6, <1>8, <2>1, <2>2 DEF Follows, Matches, n
<1>11. QED BY <1>1, <1>9, <1>10, OneRank DEF LoopTypes

\* ... then the number of those that rank 0 read with it, ...
LEMMA FollowCountTold ==
  ASSUME LoopTypes, NEW P, NEW N, NEW O, NEW S, Told(P, N, O, S), NEW r \in Ranks, FollowCount(r)
  PROVE  Told(P, N, O, S)'
<1> DEFINE n == Len(taken[r])
<1>1. /\ r # 0 /\ MayCount(r) /\ counts[r] # <<>>
      /\ left' = [left EXCEPT ![r] = Head(counts[r])] /\ counts' = [counts EXCEPT ![r] = Tail(@)]
      /\ pc' = [pc EXCEPT ![r] = "take"]
      /\ UNCHANGED <<got, rest, todo, data, cur, taken, ran, subs, size>>
  BY DEF FollowCount, Goto, config
<1>2. RankAt(P, N, O, S, r) /\ Follows(P, N, O, S, r) BY <1>1, Standing DEF Told, Followers
<1>3. /\ pc[r] \in {"count", "poll"} /\ (pc[r] = "poll" => ~Idle(r))
      /\ todo[r] = S[n].todo /\ data[r] = S[n].cur /\ Counted(r) = n
  <2>1. pc[r] \in {"count", "poll"} /\ (pc[r] = "poll" => ~Idle(r)) BY <1>1 DEF MayCount, At
  <2>2. n \in Nat BY Standing
  <2>3. Counted(r) = n
    <3>1. pc[r] # "take" BY <2>1
    <3>2. Counted(r) = n + 0 BY <3>1 DEF Counted
    <3> HIDE DEF n
    <3>3. QED BY <2>2, <3>2
  <2>4. QED BY <1>2, <2>1, <2>3 DEF RankAt
<1>4. Len(got[r]) = First(S[n])
  <2>1. CASE pc[r] = "count" BY <1>2, <2>1 DEF RankAt, First
  <2>2. CASE pc[r] = "poll"
    <3>1. ~Blocks(S[n]) BY <1>3, <2>2 DEF Idle, Blocks
    <3>2. got[r] = <<>> /\ Len(<<>>) = 0 BY <1>2, <2>2, EmptySeq DEF RankAt
    <3>3. QED BY <3>1, <3>2 DEF First
  <2>3. QED BY <1>3, <2>1, <2>2
<1>5. /\ Len(counts[r]) \in Nat \ {0} /\ Head(counts[r]) = counts[r][1] /\ Head(counts[r]) \in Nat
      /\ Len(Tail(counts[r])) = Len(counts[r]) - 1
      /\ \A k \in 1 .. Len(counts[r]) - 1 : Tail(counts[r])[k] = counts[r][k + 1]
  BY <1>1, Standing, HeadTailProperties, EmptySeq
<1>6. left'[r] = Head(counts[r]) /\ counts'[r] = Tail(counts[r]) /\ pc'[r] = "take"
  BY <1>1 DEF LoopTypes
<1>7. /\ n + Len(counts[r]) = N
      /\ \A k \in 1 .. Len(counts[r]) : counts[r][k] + First(S[n + k - 1]) = O[n + k] - O[n + k - 1]
  BY <1>2, <1>3 DEF Follows
<1>8. n < N /\ n \in Nat /\ O[n] \in Nat /\ O[n + 1] \in Nat
  <2>1. n \in Nat /\ N \in Nat BY Standing
  <2>2. n < N
    <3> HIDE DEF n
    <3>1. QED BY <1>5, <1>7, <2>1
  <2>3. QED BY <2>1, <2>2, Standing
<1>9. Counted(r)' = n + 1 BY <1>1, <1>6, <1>8 DEF Counted
<1>10. First(S[n]) \in Nat BY DEF First
<1> HIDE DEF n
<1>11. Len(got[r]) + left'[r] = O[n + 1] - O[n]
  <2>1. n + 1 - 1 = n BY <1>8
  <2>2. Head(counts[r]) + First(S[n]) = O[n + 1] - O[n] BY <1>5, <1>7, <2>1
  <2>3. QED BY <1>4, <1>5, <1>6, <1>8, <1>10, <2>2
<1>12. RankAt(P, N, O, S, r)'
  <2>1. Missing(r)' = left'[r] BY <1>1 DEF Missing
  <2>2. QED BY <1>1, <1>2, <1>3, <1>6, <1>8, <1>11, <2>1 DEF RankAt, Matches, n
<1>13. Follows(P, N, O, S, r)'
  <2>1. n + 1 + (Len(counts[r]) - 1) = N BY <1>5, <1>7, <1>8
  <2>2. ASSUME NEW k \in 1 .. Len(counts[r]) - 1
        PROVE  Tail(counts[r])[k] + First(S[n + 1 + k - 1]) = O[n + 1 + k] - O[n + 1 + k - 1]
    <3>1. k + 1 \in 1 .. Len(counts[r]) /\ n + (k + 1) = n + 1 + k /\ n + (k + 1) - 1 = n + 1 + k - 1
      BY <1>5, <1>8
    <3>2. Tail(counts[r])[k] = counts[r][k + 1] BY <1>5
    <3>3. QED BY <1>7, <3>1, <3>2
  <2>3. QED BY <1>1, <1>2, <1>5, <1>6, <1>9, <2>1, <2>2 DEF Follows, Matches, n
<1>14. QED BY <1>1, <1>12, <1>13, OneRank DEF LoopTypes

\* ... then as many, from the same place of the history.
LEMMA FollowTakeTold ==
  ASSUME LoopTypes, NEW P, NEW N, NEW O, NEW S, Told(P, N, O, S), NEW r \in Ranks, FollowTake(r)
  PROVE  Told(P, N, O, S)'
<1> DEFINE n == Len(taken[r])
           a == O[n] + Len(got[r])
<1>1. /\ r # 0 /\ pc[r] = "take" /\ left[r] > 0 /\ subs[r] # <<>>
      /\ got' = [got EXCEPT ![r] = Append(@, Head(subs[r]))] /\ subs' = [subs EXCEPT ![r] = Tail(@)]
      /\ left' = [left EXCEPT ![r] = @ - 1]
      /\ UNCHANGED <<pc, rest, todo, data, cur, taken, ran, counts, size>>
  BY DEF FollowTake, At, config
<1>2. RankAt(P, N, O, S, r) /\ Follows(P, N, O, S, r) BY <1>1, Standing DEF Told, Followers
<1>3. /\ Matches(got[r], P, O[n]) /\ Matches(subs[r], P, a) /\ a + Len(subs[r]) + Len(rest) = Len(P)
      /\ n < N /\ Len(got[r]) + left[r] = O[n + 1] - O[n]
  BY <1>1, <1>2 DEF RankAt, Follows, Missing
<1>4. /\ n \in Nat /\ O[n] \in Nat /\ O[n + 1] \in Nat /\ Len(got[r]) \in Nat /\ a \in Nat
      /\ left[r] \in Nat /\ Len(P) \in Nat /\ Len(rest) \in Nat /\ subs[r] \in Seq(Msgs)
      /\ got[r] \in Seq(Msgs)
  BY <1>3, Standing
<1>5. /\ got'[r] = Append(got[r], Head(subs[r])) /\ subs'[r] = Tail(subs[r])
      /\ left'[r] = left[r] - 1
  BY <1>1 DEF LoopTypes
<1> HIDE DEF a
<1>6. /\ Len(subs[r]) \in Nat \ {0} /\ Head(subs[r]) = P[a + 1] /\ Head(subs[r]) \in Msgs
      /\ Len(Tail(subs[r])) = Len(subs[r]) - 1 /\ Matches(Tail(subs[r]), P, a + 1)
  <2>1. subs[r] # <<>> /\ a \in Nat /\ Matches(subs[r], P, a) /\ subs[r] \in Seq(Msgs)
    BY <1>1, <1>3, <1>4
  <2>2. QED BY <2>1, MatchesTail
<1>7. Len(got'[r]) = Len(got[r]) + 1 /\ Matches(got'[r], P, O[n])
  <2>1. Head(subs[r]) = P[O[n] + Len(got[r]) + 1] BY <1>6 DEF a
  <2> HIDE DEF n
  <2>2. /\ O[n] \in Nat /\ got[r] \in Seq(Msgs) /\ Head(subs[r]) \in Msgs /\ Matches(got[r], P, O[n])
    BY <1>3, <1>4, <1>6
  <2> DEFINE s == got[r]  m == Head(subs[r])
  <2>3. O[n] \in Nat /\ s \in Seq(Msgs) /\ m \in Msgs /\ Matches(s, P, O[n]) /\ m = P[O[n] + Len(s) + 1]
    BY <2>1, <2>2
  <2> HIDE DEF s, m
  <2>4. Len(Append(s, m)) = Len(s) + 1 /\ Matches(Append(s, m), P, O[n]) BY <2>3, MatchesAppend
  <2>5. QED BY <1>5, <2>4 DEF s, m
<1>8. /\ O[n] + Len(got'[r]) = a + 1
      /\ O[n] + Len(got'[r]) <= Len(P)
      /\ Len(got'[r]) + left'[r] = O[n + 1] - O[n]
      /\ O[n] + Len(got'[r]) + Len(subs'[r]) + Len(rest') = Len(P)
  <2> DEFINE g == Len(got[r])  u == Len(subs[r])  w == Len(rest)  e == O[n]  f == O[n + 1]
             p == Len(P)  g2 == Len(got'[r])  u2 == Len(subs'[r])
  <2>1. /\ a = e + g /\ g2 = g + 1 /\ u2 = u - 1 /\ a + u + w = p /\ g + left[r] = f - e
        /\ left'[r] = left[r] - 1 /\ rest' = rest
        /\ e \in Nat /\ f \in Nat /\ g \in Nat /\ u \in Nat \ {0} /\ w \in Nat /\ p \in Nat
        /\ left[r] \in Nat
    BY <1>1, <1>3, <1>4, <1>5, <1>6, <1>7 DEF a
  <2> HIDE DEF g, u, w, e, f, p, g2, u2
  <2>2. e + g2 = a + 1 /\ e + g2 <= p /\ g2 + left'[r] = f - e /\ e + g2 + u2 + w = p
    BY <2>1
  <2>3. QED BY <2>1, <2>2 DEF g, u, w, e, f, p, g2, u2
<1>9. RankAt(P, N, O, S, r)'
  <2>1. Missing(r)' = left'[r] BY <1>1 DEF Missing
  <2>2. QED BY <1>1, <1>2, <1>7, <1>8, <2>1 DEF RankAt, Matches
<1>10. Follows(P, N, O, S, r)'
  <2>1. Matches(subs'[r], P, O[n] + Len(got'[r])) BY <1>5, <1>6, <1>8
  <2>2. Counted(r)' = Counted(r) /\ taken' = taken /\ counts' = counts BY <1>1 DEF Counted
  <2>3. QED BY <1>2, <1>8, <2>1, <2>2 DEF Follows, Matches
<1>11. QED BY <1>1, <1>9, <1>10, OneRank DEF LoopTypes

-----------------------------------------------------------------------------
\* A history that goes on: what it was up to now stays.
Extends(P2, P) ==
  /\ P2 \in Seq(Msgs) /\ Len(P) <= Len(P2)
  /\ \A k \in 1 .. Len(P) : P2[k] = P[k]

LEMMA SameSlice ==
  ASSUME NEW P \in Seq(Msgs), NEW P2, Extends(P2, P), NEW a \in Nat, NEW b \in Nat, b <= Len(P)
  PROVE  Slice(P2, a, b) = Slice(P, a, b)
<1>1. Len(P) \in Nat BY LenProperties
<1>2. ASSUME NEW k \in a + 1 .. b PROVE P2[k] = P[k]
  <2>1. k \in 1 .. Len(P) BY <1>1
  <2>2. QED BY <2>1 DEF Extends
<1>3. QED BY <1>2 DEF Slice

LEMMA StillMatches ==
  ASSUME NEW P \in Seq(Msgs), NEW P2, Extends(P2, P), NEW a \in Nat, NEW T, NEW s \in Seq(T),
         a + Len(s) <= Len(P), Matches(s, P, a)
  PROVE  Matches(s, P2, a)
<1>1. Len(P) \in Nat /\ Len(s) \in Nat BY LenProperties
<1>2. ASSUME NEW k \in 1 .. Len(s) PROVE s[k] = P2[a + k]
  <2>1. a + k \in 1 .. Len(P) BY <1>1
  <2>2. QED BY <2>1 DEF Extends, Matches
<1>3. QED BY <1>2 DEF Matches

\* The ranks keep their places when the history goes on.
LEMMA LongerRank ==
  ASSUME LoopTypes, NEW P, NEW N, NEW O, NEW S, Told(P, N, O, S), NEW r \in Ranks,
         NEW P2, Extends(P2, P), NEW M \in Nat, N <= M, NEW O2, NEW S2,
         \A i \in 0 .. N : O2[i] = O[i] /\ S2[i] = S[i]
  PROVE  RankAt(P2, M, O2, S2, r)
<1> DEFINE n == Len(taken[r])
<1>1. /\ P \in Seq(Msgs) /\ Len(P) \in Nat /\ N \in Nat /\ n \in 0 .. N /\ RankAt(P, N, O, S, r)
      /\ O \in [0 .. N -> Nat] /\ (\A i \in 0 .. N : O[i] <= Len(P)) /\ Len(P2) \in Nat
      /\ Len(P) <= Len(P2) /\ got[r] \in Seq(Msgs) /\ taken[r] \in Seq(Seq(Msgs))
      /\ Len(got[r]) \in Nat
  BY Standing, LenProperties DEF Told, Story, Extends, LoopTypes
<1>2. ASSUME NEW i \in 1 .. n
      PROVE  Len(taken[r][i]) = O2[i] - O2[i - 1] /\ Matches(taken[r][i], P2, O2[i - 1])
  <2>1. i \in 0 .. N /\ i - 1 \in 0 .. N
    <3> HIDE DEF n
    <3>1. QED BY <1>1
  <2>2. Len(taken[r][i]) = O[i] - O[i - 1] /\ Matches(taken[r][i], P, O[i - 1]) BY <1>1 DEF RankAt
  <2>3. O[i - 1] \in Nat /\ O[i] \in Nat /\ O[i] <= Len(P) /\ taken[r][i] \in Seq(Msgs)
    BY <1>1, <2>1, ElementOfSeq
  <2>4. O[i - 1] + Len(taken[r][i]) <= Len(P) BY <2>2, <2>3
  <2>5. Matches(taken[r][i], P2, O[i - 1])
    <3> DEFINE s == taken[r][i]  a == O[i - 1]
    <3>1. P \in Seq(Msgs) /\ a \in Nat /\ s \in Seq(Msgs) /\ a + Len(s) <= Len(P) /\ Matches(s, P, a)
      BY <1>1, <2>2, <2>3, <2>4
    <3> HIDE DEF s, a
    <3>2. Matches(s, P2, a) BY <3>1, StillMatches
    <3>3. QED BY <3>2 DEF s, a
  <2>6. QED BY <2>1, <2>2, <2>5
<1>3. O2[n] = O[n] /\ S2[n] = S[n] /\ O[n] \in Nat BY <1>1
<1>4. O[n] + Len(got[r]) <= Len(P2) /\ Matches(got[r], P2, O[n])
  <2> DEFINE s == got[r]  a == O[n]
  <2>1. P \in Seq(Msgs) /\ a \in Nat /\ s \in Seq(Msgs) /\ a + Len(s) <= Len(P) /\ Matches(s, P, a)
    BY <1>1, <1>3 DEF RankAt
  <2> HIDE DEF s, a
  <2>2. Matches(s, P2, a) BY <2>1, StillMatches
  <2>3. a + Len(s) <= Len(P2) BY <1>1, <2>1, LenProperties
  <2>4. QED BY <2>2, <2>3 DEF s, a
<1>5. ASSUME n < N PROVE n < M /\ O2[n + 1] = O[n + 1]
  <2> HIDE DEF n
  <2>1. QED BY <1>1, <1>5
<1>6. n <= M
  <2> HIDE DEF n
  <2>1. QED BY <1>1
<1>7. QED BY <1>1, <1>2, <1>3, <1>4, <1>5, <1>6 DEF RankAt

\* A publication reaches every queue behind what was there.
LEMMA Published ==
  ASSUME LoopTypes, NEW m \in Msgs, Publish(m), ~lost', NEW q \in Followers
  PROVE  subs'[q] = Append(subs[q], m)
<1>1. q \in joined BY DEF Publish
<1>2. q \in Ranks BY DEF Followers
<1>3. QED BY <1>1, <1>2 DEF Publish

\* Rank 0 passes the rest of its iteration on, ...
LEMMA RootTakeTold ==
  ASSUME LoopTypes, NEW P, NEW N, NEW O, NEW S, Told(P, N, O, S), RootTake, ~lost'
  PROVE  Told(P, N, O, S)'
<1> DEFINE n == Len(taken[0])
           m == Head(rest)
           a == Len(P) - Len(rest)
<1>1. /\ pc[0] = "take" /\ rest # <<>> /\ got' = [got EXCEPT ![0] = Append(@, m)]
      /\ rest' = Tail(rest) /\ Publish(m)
      /\ UNCHANGED <<counts, pc, left, todo, data, cur, taken, ran, size>>
  BY DEF RootTake, At, config
<1>2. /\ 0 \in Ranks /\ RankAt(P, N, O, S, 0) /\ Leads(P, N, O) /\ n \in Nat /\ N \in Nat
      /\ Len(P) \in Nat /\ Len(rest) \in Nat /\ rest \in Seq(Msgs) /\ got[0] \in Seq(Msgs)
      /\ Len(got[0]) \in Nat
  <2>1. 0 \in Ranks BY DEF LoopTypes, Ranks
  <2>2. QED BY <2>1, Standing DEF Told
<1>3. /\ n < N /\ Len(got[0]) + Len(rest) = O[n + 1] - O[n] /\ Matches(got[0], P, O[n])
      /\ n + 1 = N /\ Len(P) = O[N] + 0 /\ Len(rest) <= Len(P) /\ Matches(rest, P, a)
  BY <1>1, <1>2 DEF RankAt, Missing, Leads, Counted
<1>4. O[n] \in Nat /\ O[n + 1] \in Nat /\ a \in Nat
  BY <1>2, <1>3, Standing
<1>5. /\ Len(rest) \in Nat \ {0} /\ m \in Msgs /\ rest' \in Seq(Msgs) /\ m = P[a + 1]
      /\ Len(rest') = Len(rest) - 1 /\ Matches(rest', P, a + 1)
  <2> HIDE DEF a, m
  <2>1. a \in Nat /\ rest \in Seq(Msgs) /\ rest # <<>> /\ Matches(rest, P, a) BY <1>1, <1>2, <1>3, <1>4
  <2>2. QED BY <1>1, <2>1, MatchesTail DEF m
<1> HIDE DEF m
<1>6. O[n] + Len(got[0]) = a
  <2> DEFINE g == Len(got[0])  w == Len(rest)  e == O[n]  f == O[n + 1]  p == Len(P)
  <2>1. /\ g + w = f - e /\ p = f + 0 /\ a = p - w
        /\ e \in Nat /\ f \in Nat /\ g \in Nat /\ w \in Nat /\ p \in Nat
    BY <1>2, <1>3, <1>4
  <2> HIDE DEF g, w, e, f, p, a
  <2>2. e + g = a BY <2>1
  <2>3. QED BY <2>2 DEF g, e
<1>7. got'[0] = Append(got[0], m) /\ Len(got'[0]) = Len(got[0]) + 1 /\ Matches(got'[0], P, O[n])
  <2>1. got'[0] = Append(got[0], m) BY <1>1, <1>2 DEF LoopTypes
  <2> DEFINE s == got[0]  b == O[n]
  <2>2. s \in Seq(Msgs) /\ b \in Nat /\ Matches(s, P, b) /\ m \in Msgs /\ m = P[b + Len(s) + 1]
    BY <1>2, <1>3, <1>4, <1>5, <1>6
  <2> HIDE DEF s, b
  <2>3. Len(Append(s, m)) = Len(s) + 1 /\ Matches(Append(s, m), P, b) BY <2>2, MatchesAppend
  <2>4. QED BY <2>1, <2>3 DEF s, b
<1>8. RankAt(P, N, O, S, 0)'
  <2>1. /\ O[n] + Len(got'[0]) <= Len(P)
        /\ Len(got'[0]) + Len(rest') = O[n + 1] - O[n]
    <3> DEFINE g == Len(got[0])  w == Len(rest)  e == O[n]  f == O[n + 1]  p == Len(P)
               g2 == Len(got'[0])  w2 == Len(rest')
    <3>1. /\ g2 = g + 1 /\ w2 = w - 1 /\ g + w = f - e /\ p = f + 0
          /\ e \in Nat /\ f \in Nat /\ g \in Nat /\ w \in Nat \ {0} /\ p \in Nat
      BY <1>2, <1>3, <1>4, <1>5, <1>7
    <3> HIDE DEF g, w, e, f, p, g2, w2
    <3>2. e + g2 <= p /\ g2 + w2 = f - e BY <3>1
    <3>3. QED BY <3>2 DEF g, w, e, f, p, g2, w2
  <2>2. QED BY <1>1, <1>2, <1>7, <2>1 DEF RankAt, Missing, Matches
<1>9. ASSUME NEW q \in Ranks, q # 0 PROVE RankAt(P, N, O, S, q)'
  <2>1. got'[q] = got[q] BY <1>1, <1>9 DEF LoopTypes
  <2>2. QED BY <1>1, <1>9, <2>1, SameRank DEF Told
<1>10. Leads(P, N, O)'
  <2>1. Counted(0)' = Counted(0) BY <1>1 DEF Counted
  <2>2. Len(P) - Len(rest') = a + 1 /\ Len(rest') <= Len(P) BY <1>2, <1>3, <1>5
  <2>3. Matches(rest', P, Len(P) - Len(rest')) BY <1>5, <2>2
  <2>4. QED BY <1>1, <1>2, <2>1, <2>2, <2>3 DEF Leads, Matches
<1>11. ASSUME NEW q \in Followers PROVE Follows(P, N, O, S, q)'
  <2>1. q \in Ranks /\ q # 0 /\ Follows(P, N, O, S, q) BY DEF Followers, Told
  <2>2. subs'[q] = Append(subs[q], m) /\ got'[q] = got[q]
    BY <1>1, <1>5, <2>1, Published DEF LoopTypes
  <2> DEFINE b == O[Len(taken[q])] + Len(got[q])
             s == subs[q]
  <2>3. b \in Nat /\ s \in Seq(Msgs) /\ Len(s) \in Nat BY <2>1, Standing
  <2>4. b + Len(s) + Len(rest) = Len(P) /\ Matches(s, P, b) BY <2>1 DEF Follows
  <2> HIDE DEF s, b
  <2>5. b + Len(s) = a /\ b + (Len(s) + 1) + (Len(rest) - 1) = Len(P)
    <3> DEFINE u == Len(s)  w == Len(rest)  p == Len(P)
    <3>1. b + u + w = p /\ a = p - w /\ b \in Nat /\ u \in Nat /\ w \in Nat /\ p \in Nat
      BY <1>2, <2>3, <2>4
    <3> HIDE DEF u, w, p, a
    <3>2. b + u = a /\ b + (u + 1) + (w - 1) = p BY <3>1
    <3>3. QED BY <3>2 DEF u, w, p
  <2>6. Len(Append(s, m)) = Len(s) + 1 /\ Matches(Append(s, m), P, b)
    <3>1. m = P[b + Len(s) + 1] BY <1>5, <2>5
    <3>2. QED BY <1>5, <2>3, <2>4, <3>1, MatchesAppend
  <2>7. /\ Len(subs'[q]) = Len(s) + 1 /\ Matches(subs'[q], P, b) /\ Len(got'[q]) = Len(got[q])
        /\ b + Len(subs'[q]) + Len(rest') = Len(P)
    BY <1>5, <2>2, <2>5, <2>6 DEF s
  <2>8. Counted(q)' = Counted(q) /\ taken' = taken /\ counts' = counts BY <1>1 DEF Counted
  <2>9. QED BY <2>1, <2>7, <2>8 DEF Follows, Matches, b
<1>12. Ranks' = Ranks /\ Followers' = Followers BY <1>1 DEF Ranks, Followers
<1>13. QED BY <1>8, <1>9, <1>10, <1>11, <1>12, SameStory DEF Told

\* ... and publishes what it has blocked for: the history goes on by a message.
LEMMA RootFirstTold ==
  ASSUME LoopTypes, NEW P, NEW N, NEW O, NEW S, Told(P, N, O, S), RootFirst, ~lost'
  PROVE  \E P2 : Told(P2, N, O, S)'
<1> DEFINE n == Len(taken[0])
           m == Head(inbox)
<1>1. /\ pc[0] = "poll" /\ Idle(0) /\ inbox # <<>> /\ got' = [got EXCEPT ![0] = <<m>>]
      /\ Publish(m) /\ pc' = [pc EXCEPT ![0] = "count"]
      /\ UNCHANGED <<counts, rest, left, todo, data, cur, taken, ran, size>>
  BY DEF RootFirst, At, Goto, config
<1>2. /\ 0 \in Ranks /\ RankAt(P, N, O, S, 0) /\ Leads(P, N, O) /\ n \in Nat /\ N \in Nat
      /\ P \in Seq(Msgs) /\ Len(P) \in Nat
  <2>1. 0 \in Ranks BY DEF LoopTypes, Ranks
  <2>2. QED BY <2>1, Standing DEF Told
<1>3. m \in Msgs BY <1>1, HeadTailProperties DEF LoopTypes
<1> HIDE DEF m
<1>0. PICK P2 : P2 = Append(P, m) OBVIOUS
<1>4. /\ P2 \in Seq(Msgs) /\ Len(P2) = Len(P) + 1 /\ P2[Len(P) + 1] = m
      /\ \A k \in 1 .. Len(P) : P2[k] = P[k]
  BY <1>0, <1>2, <1>3
<1>5. Extends(P2, P) BY <1>2, <1>4 DEF Extends
<1>6. /\ Counted(0) = n /\ n = N /\ rest = <<>> /\ Len(rest) = 0 /\ Len(P) = O[N]
      /\ O[n] \in Nat
  <2>1. pc[0] # "take" /\ pc[0] # "count" BY <1>1
  <2>2. Counted(0) = N /\ rest = <<>> /\ Len(P) = O[N] + 0 /\ Counted(0) = n + 0
    BY <1>2, <2>1 DEF Leads, Counted
  <2>3. O[n] \in Nat BY <1>2, Standing
  <2> HIDE DEF n
  <2>4. QED BY <1>2, <2>2, <2>3, EmptySeq
<1>7. /\ todo[0] = S[n].todo /\ ran[0] = S[n].ran /\ data[0] = S[n].cur
  BY <1>1, <1>2 DEF RankAt
<1>8. Story(P2, N, O, S)
  <2>1. /\ O \in [0 .. N -> Nat] /\ (\A i \in 0 .. N : O[i] <= Len(P))
        /\ \A i \in 0 .. N - 1 : S[i + 1] = After(S[i], Slice(P, O[i], O[i + 1]))
    BY DEF Told, Story
  <2>2. \A i \in 0 .. N : O[i] <= Len(P2) BY <1>2, <1>4, <2>1
  <2>3. ASSUME NEW i \in 0 .. N - 1 PROVE Slice(P2, O[i], O[i + 1]) = Slice(P, O[i], O[i + 1])
    <3>1. i \in 0 .. N /\ i + 1 \in 0 .. N BY <1>2
    <3>2. O[i] \in Nat /\ O[i + 1] \in Nat /\ O[i + 1] <= Len(P) BY <2>1, <3>1
    <3>3. QED BY <1>2, <1>5, <3>2, SameSlice
  <2>4. QED BY <1>4, <2>2, <2>3 DEF Told, Story
<1>9. ASSUME NEW q \in Ranks PROVE RankAt(P2, N, O, S, q)
  BY <1>2, <1>5, LongerRank
<1>10. got'[0] = <<m>> /\ pc'[0] = "count" /\ Len(<<m>>) = 1 /\ <<m>>[1] = m
  BY <1>1, <1>2 DEF LoopTypes
<1>11. RankAt(P2, N, O, S, 0)'
  <2>1. O[n] + 1 <= Len(P2) BY <1>4, <1>6
  <2>2. Blocks(S[n]) BY <1>1, <1>7 DEF Idle, Blocks
  <2>3. Matches(<<m>>, P2, O[n]) BY <1>4, <1>6, <1>10 DEF Matches
  <2>4. RankAt(P2, N, O, S, 0) BY <1>2, <1>9
  <2>5. QED BY <1>1, <1>7, <1>10, <2>1, <2>2, <2>3, <2>4 DEF RankAt, Matches
<1>12. ASSUME NEW q \in Ranks, q # 0 PROVE RankAt(P2, N, O, S, q)'
  <2>1. got'[q] = got[q] /\ pc'[q] = pc[q] BY <1>1, <1>12 DEF LoopTypes
  <2>2. QED BY <1>1, <1>9, <1>12, <2>1, SameRank
<1>13. Leads(P2, N, O)'
  <2>1. Counted(0)' = N
    <3>1. Counted(0)' = n + 0 BY <1>1, <1>10 DEF Counted
    <3>2. QED BY <1>2, <1>6, <3>1
  <2>2. Len(P2) = O[N] + 1 /\ 0 <= Len(P2) BY <1>2, <1>4, <1>6
  <2>3. QED BY <1>1, <1>6, <1>10, <2>1, <2>2 DEF Leads, Matches
<1>14. ASSUME NEW q \in Followers PROVE Follows(P2, N, O, S, q)'
  <2>1. q \in Ranks /\ q # 0 /\ Follows(P, N, O, S, q) BY DEF Followers, Told
  <2>2. subs'[q] = Append(subs[q], m) /\ got'[q] = got[q] /\ pc'[q] = pc[q]
    BY <1>1, <1>3, <2>1, Published DEF LoopTypes
  <2> DEFINE b == O[Len(taken[q])] + Len(got[q])
             s == subs[q]
  <2>3. b \in Nat /\ s \in Seq(Msgs) /\ Len(s) \in Nat BY <2>1, Standing
  <2>4. b + Len(s) + Len(rest) = Len(P) /\ Matches(s, P, b) BY <2>1 DEF Follows
  <2> HIDE DEF s, b
  <2>5. b + Len(s) = Len(P) /\ b + (Len(s) + 1) + Len(rest) = Len(P2)
    BY <1>2, <1>4, <1>6, <2>3, <2>4
  <2>6. Matches(s, P2, b)
    <3>1. b + Len(s) <= Len(P) BY <1>2, <2>5
    <3>2. QED BY <1>2, <1>5, <2>3, <2>4, <3>1, StillMatches
  <2>7. Len(Append(s, m)) = Len(s) + 1 /\ Matches(Append(s, m), P2, b)
    <3>1. m = P2[b + Len(s) + 1] BY <1>4, <2>5
    <3>2. QED BY <1>3, <2>3, <2>6, <3>1, MatchesAppend
  <2>8. /\ Matches(subs'[q], P2, b) /\ Len(got'[q]) = Len(got[q])
        /\ b + Len(subs'[q]) + Len(rest') = Len(P2)
    BY <1>1, <2>2, <2>5, <2>7 DEF s
  <2>9. Counted(q)' = Counted(q) /\ taken' = taken /\ counts' = counts
    BY <1>1, <2>2 DEF Counted
  <2>10. QED BY <2>1, <2>8, <2>9 DEF Follows, Matches, b
<1>15. Ranks' = Ranks /\ Followers' = Followers BY <1>1 DEF Ranks, Followers
<1>16. Told(P2, N, O, S)' BY <1>8, <1>11, <1>12, <1>13, <1>14, <1>15, SameStory DEF Told
<1>17. QED BY <1>16

LEMMA BeginsTransitive ==
  ASSUME NEW T, NEW r \in Seq(T), NEW s \in Seq(T), NEW t \in Seq(T), Begins(r, s), Begins(s, t)
  PROVE  Begins(r, t)
<1>1. Len(r) \in Nat /\ Len(s) \in Nat /\ Len(t) \in Nat /\ Len(r) <= Len(s) /\ Len(s) <= Len(t)
  BY LenProperties DEF Begins
<1>2. ASSUME NEW i \in 1 .. Len(r) PROVE r[i] = t[i]
  <2>1. i \in 1 .. Len(s) BY <1>1
  <2>2. QED BY <2>1 DEF Begins
<1>3. Len(r) <= Len(t) BY <1>1
<1>4. QED BY <1>2, <1>3 DEF Begins

\* One iteration more, with the messages up to e.
LEMMA StoryGoesOn ==
  ASSUME NEW P, NEW N, NEW O, NEW S, Story(P, N, O, S), NEW P2, Extends(P2, P),
         NEW e \in Nat, e <= Len(P2), O[N] + First(S[N]) <= e
  PROVE  \E O2, S2 :
           /\ Story(P2, N + 1, O2, S2)
           /\ O2[N + 1] = e /\ \A i \in 0 .. N : O2[i] = O[i] /\ S2[i] = S[i]
<1>0. PICK O2, S2 :
        /\ O2 = [i \in 0 .. N + 1 |-> IF i = N + 1 THEN e ELSE O[i]]
        /\ S2 = [i \in 0 .. N + 1 |->
                   IF i = N + 1 THEN After(S[N], Slice(P2, O[N], e)) ELSE S[i]]
  OBVIOUS
<1> DEFINE s2 == After(S[N], Slice(P2, O[N], e))
<1>1. /\ P \in Seq(Msgs) /\ N \in Nat /\ O \in [0 .. N -> Nat] /\ S \in [0 .. N -> States]
      /\ O[0] = 0 /\ S[0] = Fresh
      /\ (\A i \in 0 .. N : O[i] <= Len(P))
      /\ (\A i \in 0 .. N - 1 :
            O[i] + First(S[i]) <= O[i + 1] /\ S[i + 1] = After(S[i], Slice(P, O[i], O[i + 1])))
      /\ \A i, j \in 0 .. N : i <= j => Begins(S[i].ran, S[j].ran)
  BY DEF Story
<1>2. P2 \in Seq(Msgs) /\ Len(P) \in Nat /\ Len(P2) \in Nat /\ Len(P) <= Len(P2)
  BY <1>1, LenProperties DEF Extends
<1>3. s2 \in States /\ Begins(S[N].ran, s2.ran)
  <2>1. S[N] \in States BY <1>1
  <2>2. QED BY <2>1, AfterState
<1>4. O2[N + 1] = e /\ S2[N + 1] = s2 BY <1>0, <1>1
<1>5. ASSUME NEW i \in 0 .. N PROVE O2[i] = O[i] /\ S2[i] = S[i] /\ i \in 0 .. N + 1
  BY <1>0, <1>1
<1>6. ASSUME NEW i \in 0 .. N + 1, i # N + 1 PROVE i \in 0 .. N BY <1>1, <1>6
<1> HIDE DEF s2
<1>7. ASSUME NEW i \in 0 .. N + 1 PROVE O2[i] \in Nat /\ S2[i] \in States /\ O2[i] <= Len(P2)
  <2>1. CASE i = N + 1 BY <1>3, <1>4, <2>1
  <2>2. CASE i # N + 1
    <3>1. i \in 0 .. N BY <1>6, <2>2
    <3>2. O2[i] = O[i] /\ S2[i] = S[i] /\ O[i] \in Nat /\ S[i] \in States /\ O[i] <= Len(P)
      BY <1>1, <1>5, <3>1
    <3>3. QED BY <1>2, <3>2
  <2>3. QED BY <2>1, <2>2
<1>8. O2 \in [0 .. N + 1 -> Nat] /\ S2 \in [0 .. N + 1 -> States] BY <1>0, <1>7
<1>9. O2[0] = 0 /\ S2[0] = Fresh
  <2>1. 0 \in 0 .. N BY <1>1
  <2>2. QED BY <1>1, <1>5, <2>1
<1>10. ASSUME NEW i \in 0 .. N
       PROVE  /\ O2[i] + First(S2[i]) <= O2[i + 1]
              /\ S2[i + 1] = After(S2[i], Slice(P2, O2[i], O2[i + 1]))
  <2>1. CASE i = N
    <3>1. O2[i] = O[N] /\ S2[i] = S[N] BY <1>1, <1>5, <2>1
    <3>2. QED BY <1>4, <2>1, <3>1 DEF s2
  <2>2. CASE i # N
    <3>1. i \in 0 .. N - 1 /\ i \in 0 .. N /\ i + 1 \in 0 .. N BY <1>1, <2>2
    <3>2. O2[i] = O[i] /\ O2[i + 1] = O[i + 1] /\ S2[i] = S[i] /\ S2[i + 1] = S[i + 1]
      BY <1>5, <3>1
    <3>3. O[i] \in Nat /\ O[i + 1] \in Nat /\ O[i + 1] <= Len(P) BY <1>1, <3>1
    <3>4. Slice(P2, O[i], O[i + 1]) = Slice(P, O[i], O[i + 1]) BY <1>1, <3>3, SameSlice
    <3>5. QED BY <1>1, <3>1, <3>2, <3>4
  <2>3. QED BY <2>1, <2>2
<1>11. ASSUME NEW i \in 0 .. N + 1, NEW j \in 0 .. N + 1, i <= j PROVE Begins(S2[i].ran, S2[j].ran)
  <2>1. CASE j \in 0 .. N
    <3>1. i \in 0 .. N BY <1>1, <1>11, <2>1
    <3>2. QED BY <1>1, <1>5, <1>11, <2>1, <3>1
  <2>2. CASE j = N + 1 /\ i = N + 1
    BY <1>3, <1>4, <2>2, LenProperties DEF Begins, States
  <2>3. CASE j = N + 1 /\ i \in 0 .. N
    <3>1. N \in 0 .. N /\ i <= N BY <1>1, <2>3
    <3>2. Begins(S[i].ran, S[N].ran) BY <1>1, <2>3, <3>1
    <3>3. S[i].ran \in Seq(SUBSET Msgs) /\ S[N].ran \in Seq(SUBSET Msgs) /\ s2.ran \in Seq(SUBSET Msgs)
      BY <1>1, <1>3, <2>3, <3>1 DEF States
    <3>4. Begins(S[i].ran, s2.ran) BY <1>3, <3>2, <3>3, BeginsTransitive
    <3>5. QED BY <1>4, <1>5, <2>3, <3>4
  <2>4. QED BY <1>6, <2>1, <2>2, <2>3
<1>12. Story(P2, N + 1, O2, S2)
  <2> DEFINE M == N + 1
  <2>1. /\ M \in Nat /\ O2 \in [0 .. M -> Nat] /\ S2 \in [0 .. M -> States]
        /\ \A i \in 0 .. M : O2[i] <= Len(P2)
    BY <1>1, <1>7, <1>8
  <2>2. \A i \in 0 .. M - 1 : /\ O2[i] + First(S2[i]) <= O2[i + 1]
                             /\ S2[i + 1] = After(S2[i], Slice(P2, O2[i], O2[i + 1]))
    <3>1. 0 .. M - 1 = 0 .. N BY <1>1
    <3>2. QED BY <1>10, <3>1
  <2>3. \A i, j \in 0 .. M : i <= j => Begins(S2[i].ran, S2[j].ran) BY <1>11
  <2> HIDE DEF M
  <2>4. Story(P2, M, O2, S2) BY <1>2, <1>9, <2>1, <2>2, <2>3 DEF Story
  <2>5. QED BY <2>4 DEF M
<1>13. QED BY <1>4, <1>5, <1>12

\* Rank 0 counts what else it has: the history goes on by an iteration.
LEMMA RootCountTold ==
  ASSUME LoopTypes, LoopTypes', NEW P, NEW N, NEW O, NEW S, Told(P, N, O, S), RootCount
  PROVE  \E P2, N2, O2, S2 : Told(P2, N2, O2, S2)'
<1> DEFINE n == Len(taken[0])
<1>1. PICK k \in 0 .. Len(inbox) :
        /\ MayCount(0) /\ rest' = SubSeq(inbox, 1, k)
        /\ counts' = [r \in Ranks |-> IF r = 0 THEN <<>> ELSE Append(counts[r], k)]
        /\ pc' = [pc EXCEPT ![0] = "take"]
        /\ UNCHANGED <<subs, got, left, todo, data, cur, taken, ran, size>>
  BY DEF RootCount, Goto, config
<1>2. /\ 0 \in Ranks /\ RankAt(P, N, O, S, 0) /\ Leads(P, N, O) /\ n \in Nat /\ N \in Nat
      /\ P \in Seq(Msgs) /\ Len(P) \in Nat /\ inbox \in Seq(Msgs) /\ Len(inbox) \in Nat /\ k \in Nat
  <2>1. 0 \in Ranks BY DEF LoopTypes, Ranks
  <2>2. inbox \in Seq(Msgs) /\ Len(inbox) \in Nat BY LenProperties DEF LoopTypes
  <2>3. QED BY <2>1, <2>2, Standing DEF Told
<1>3. rest' \in Seq(Msgs) /\ Len(rest') = k
  <2>1. \A i \in 1 .. k : inbox[i] \in Msgs BY <1>2, ElementOfSeq
  <2>2. rest' \in Seq(Msgs) /\ Len(rest') = IF 1 <= k THEN k - 1 + 1 ELSE 0
    BY <1>1, <1>2, <2>1, SubSeqProperties
  <2>3. QED BY <1>2, <2>2
<1>4. PICK more : more = rest' OBVIOUS
<1>5. PICK P2 : P2 = P \o more OBVIOUS
<1>6. /\ P2 \in Seq(Msgs) /\ Len(P2) = Len(P) + k
      /\ \A i \in 1 .. Len(P) : P2[i] = P[i]
      /\ \A i \in 1 .. k : P2[Len(P) + i] = more[i]
  <2>1. /\ P2 \in Seq(Msgs) /\ Len(P2) = Len(P) + k
        /\ \A i \in 1 .. Len(P) + k : P2[i] = IF i <= Len(P) THEN P[i] ELSE more[i - Len(P)]
    BY <1>2, <1>3, <1>4, <1>5, ConcatProperties
  <2>2. ASSUME NEW i \in 1 .. k PROVE P2[Len(P) + i] = more[i]
    <3>1. Len(P) + i \in 1 .. Len(P) + k /\ ~(Len(P) + i <= Len(P)) /\ Len(P) + i - Len(P) = i
      BY <1>2
    <3>2. QED BY <2>1, <3>1
  <2>3. ASSUME NEW i \in 1 .. Len(P) PROVE P2[i] = P[i]
    <3>1. i \in 1 .. Len(P) + k /\ i <= Len(P) BY <1>2
    <3>2. QED BY <2>1, <3>1
  <2>4. QED BY <2>1, <2>2, <2>3
<1>7. Extends(P2, P) BY <1>2, <1>6 DEF Extends
<1>8. /\ pc[0] \in {"count", "poll"} /\ (pc[0] = "poll" => ~Idle(0))
      /\ n = N /\ rest = <<>> /\ Len(rest) = 0 /\ O[N] \in Nat
      /\ todo[0] = S[N].todo /\ data[0] = S[N].cur
  <2>1. pc[0] \in {"count", "poll"} /\ (pc[0] = "poll" => ~Idle(0)) BY <1>1 DEF MayCount, At
  <2>2. pc[0] # "take" /\ pc[0] # "results" BY <2>1
  <2>3. Counted(0) = n + 0 /\ Counted(0) = N /\ rest = <<>> BY <1>2, <2>2 DEF Counted, Leads
  <2>4. n = N
    <3> HIDE DEF n
    <3>1. QED BY <1>2, <2>3
  <2>5. todo[0] = S[n].todo /\ data[0] = S[n].cur BY <1>2, <2>2 DEF RankAt
  <2>6. O[n] \in Nat BY <1>2, Standing
  <2>7. QED BY <2>1, <2>3, <2>4, <2>5, <2>6, EmptySeq
<1>9. Len(P) = O[N] + First(S[N]) /\ Len(got[0]) = First(S[N]) /\ First(S[N]) \in Nat
  <2>1. CASE pc[0] = "count"
    BY <1>2, <1>8, <2>1 DEF Leads, RankAt, First
  <2>2. CASE pc[0] = "poll"
    <3>1. ~Blocks(S[N]) BY <1>8, <2>2 DEF Idle, Blocks
    <3>2. got[0] = <<>> /\ Len(<<>>) = 0 BY <1>2, <2>2, EmptySeq DEF RankAt
    <3>3. Len(P) = O[N] + 0 BY <1>2, <2>2 DEF Leads
    <3>4. QED BY <3>1, <3>2, <3>3 DEF First
  <2>3. QED BY <1>8, <2>1, <2>2
<1> DEFINE N2 == N + 1
<1>10. PICK e \in Nat : e = Len(P) + k BY <1>2
<1>11. e <= Len(P2) /\ O[N] + First(S[N]) <= e BY <1>2, <1>6, <1>9, <1>10
<1>12. Story(P, N, O, S) BY DEF Told
<1>13. PICK O2, S2 :
         /\ Story(P2, N2, O2, S2) /\ O2[N2] = e
         /\ \A i \in 0 .. N : O2[i] = O[i] /\ S2[i] = S[i]
  BY <1>7, <1>11, <1>12, StoryGoesOn
<1>14. N2 \in Nat /\ N <= N2 /\ N < N2 BY <1>2
<1>16. ASSUME NEW q \in Ranks PROVE RankAt(P2, N2, O2, S2, q)
  <2> HIDE DEF N2
  <2>1. QED BY <1>7, <1>13, <1>14, LongerRank
<1>17. RankAt(P2, N2, O2, S2, 0)'
  <2>1. RankAt(P2, N2, O2, S2, 0) BY <1>2, <1>16
  <2>2. pc'[0] = "take" BY <1>1, <1>2 DEF LoopTypes
  <2>3. n < N2 /\ n + 1 = N2 /\ O2[n] = O[N] /\ O2[n + 1] = e
    BY <1>2, <1>8, <1>13
  <2>4. Len(got[0]) + Len(rest') = O2[n + 1] - O2[n]
    <3>1. Len(got[0]) = First(S[N]) /\ Len(rest') = k BY <1>3, <1>9
    <3>2. First(S[N]) + k = e - O[N] BY <1>2, <1>8, <1>9, <1>10
    <3>3. Len(got[0]) + Len(rest') = First(S[N]) + k BY <3>1
    <3>4. O2[n + 1] - O2[n] = e - O[N] BY <2>3
    <3>5. QED BY <3>2, <3>3, <3>4
  <2>5. pc[0] # "results" BY <1>8
  <2> HIDE DEF n, N2
  <2>6. QED BY <1>1, <2>1, <2>2, <2>3, <2>4, <2>5 DEF RankAt, Missing, Matches, n
<1>18. ASSUME NEW q \in Ranks, q # 0 PROVE RankAt(P2, N2, O2, S2, q)'
  <2>1. pc'[q] = pc[q] BY <1>1, <1>18 DEF LoopTypes
  <2> HIDE DEF N2
  <2>2. QED BY <1>1, <1>16, <1>18, <2>1, SameRank
<1>19. Leads(P2, N2, O2)'
  <2>1. pc'[0] = "take" BY <1>1, <1>2 DEF LoopTypes
  <2>2. Counted(0)' = n + 1 BY <1>1, <2>1 DEF Counted
  <2>3. n + 1 = N2 /\ Len(P2) = O2[N2] + 0 /\ k <= Len(P2) /\ Len(P2) - k = Len(P)
    BY <1>2, <1>6, <1>8, <1>10, <1>13
  <2>4. Matches(rest', P2, Len(P)) BY <1>3, <1>4, <1>6 DEF Matches
  <2> HIDE DEF n, N2
  <2>5. QED BY <1>3, <2>1, <2>2, <2>3, <2>4 DEF Leads, Matches
<1>20. ASSUME NEW q \in Followers PROVE Follows(P2, N2, O2, S2, q)'
  <2>1. q \in Ranks /\ q # 0 /\ Follows(P, N, O, S, q) BY DEF Followers, Told
  <2>2. pc'[q] = pc[q] /\ counts'[q] = Append(counts[q], k) /\ got' = got /\ subs' = subs /\ taken' = taken
    BY <1>1, <2>1 DEF LoopTypes
  <2> DEFINE b == O[Len(taken[q])] + Len(got[q])
             s == subs[q]
             c == Counted(q)
             l == Len(counts[q])
  <2>3. /\ b \in Nat /\ s \in Seq(Msgs) /\ Len(s) \in Nat /\ c \in Nat /\ l \in Nat
        /\ counts[q] \in Seq(Nat) /\ Len(taken[q]) \in 0 .. N
    <3>1. /\ b \in Nat /\ s \in Seq(Msgs) /\ Len(s) \in Nat /\ l \in Nat
          /\ counts[q] \in Seq(Nat) /\ Len(taken[q]) \in 0 .. N
      BY <2>1, Standing
    <3>2. Len(taken[q]) \in Nat BY <3>1
    <3>3. Len(taken[q]) + 1 \in Nat /\ Len(taken[q]) + 0 \in Nat BY <3>2
    <3>4. c \in Nat BY <3>3 DEF Counted
    <3>5. QED BY <3>1, <3>4
  <2>4. /\ b + Len(s) + Len(rest) = Len(P) /\ Matches(s, P, b) /\ c + l = N
        /\ \A i \in 1 .. l : counts[q][i] + First(S[c + i - 1]) = O[c + i] - O[c + i - 1]
    BY <2>1 DEF Follows
  <2>5. O2[Len(taken[q])] = O[Len(taken[q])] BY <1>13, <2>3
  <2>6. Counted(q)' = c BY <2>2 DEF Counted
  <2>7. /\ Len(counts'[q]) = l + 1 /\ counts'[q][l + 1] = k
        /\ \A i \in 1 .. l : counts'[q][i] = counts[q][i]
    BY <1>2, <2>2, <2>3
  <2> HIDE DEF s, b, c, l
  <2>8. b + Len(s) + Len(rest') = Len(P2)
    <3> DEFINE u == Len(s)  p == Len(P)  p2 == Len(P2)  w == Len(rest')
    <3>1. b + u + 0 = p /\ p2 = p + k /\ w = k /\ b \in Nat /\ u \in Nat /\ p \in Nat /\ k \in Nat
      BY <1>2, <1>3, <1>6, <1>8, <2>3, <2>4
    <3> HIDE DEF u, p, p2, w
    <3>2. b + u + w = p2 BY <3>1
    <3>3. QED BY <3>2 DEF u, p2, w
  <2>9. Matches(s, P2, b)
    <3>1. b + Len(s) <= Len(P) BY <1>2, <1>8, <2>3, <2>4
    <3>2. QED BY <1>2, <1>7, <2>3, <2>4, <3>1, StillMatches
  <2>10. c + (l + 1) = N2 BY <1>2, <2>3, <2>4
  <2>11. ASSUME NEW i \in 1 .. l + 1
         PROVE  counts'[q][i] + First(S2[c + i - 1]) = O2[c + i] - O2[c + i - 1]
    <3>1. CASE i \in 1 .. l
      <4>0. N \in Nat /\ c \in Nat /\ l \in Nat /\ c + l = N BY <1>2, <2>3, <2>4
      <4>1. c + i \in 0 .. N /\ c + i - 1 \in 0 .. N BY <3>1, <4>0
      <4>2. QED BY <1>13, <2>4, <2>7, <3>1, <4>1
    <3>2. CASE i = l + 1
      <4>1. c + i = N2 /\ c + i - 1 = N /\ N \in 0 .. N BY <1>2, <2>3, <2>4, <3>2
      <4>2. k + First(S[N]) = e - O[N] BY <1>2, <1>8, <1>9, <1>10
      <4>3. /\ counts'[q][i] = k /\ S2[c + i - 1] = S[N]
            /\ O2[c + i] = e /\ O2[c + i - 1] = O[N]
        BY <1>13, <2>7, <3>2, <4>1
      <4>4. First(S2[c + i - 1]) = First(S[N]) BY <4>3
      <4>5. O2[c + i] - O2[c + i - 1] = e - O[N] BY <4>3
      <4>6. QED BY <4>2, <4>3, <4>4, <4>5
    <3>3. QED BY <2>3, <3>1, <3>2
  <2> HIDE DEF N2
  <2>12. QED BY <2>2, <2>5, <2>6, <2>7, <2>8, <2>9, <2>10, <2>11 DEF Follows, Matches, b, s
<1>21. Ranks' = Ranks /\ Followers' = Followers BY <1>1 DEF Ranks, Followers
<1> HIDE DEF N2
<1>22. Told(P2, N2, O2, S2)' BY <1>13, <1>17, <1>18, <1>19, <1>20, <1>21, SameStory DEF Told
<1>23. QED BY <1>22

-----------------------------------------------------------------------------
\* The loops keep the types of their variables.
LEMMA NextTypes == LoopTypes /\ [Next]_vars => LoopTypes'
<1> SUFFICES ASSUME LoopTypes, [Next]_vars PROVE LoopTypes' OBVIOUS
<1>1. /\ 0 \in Ranks /\ inbox \in Seq(Msgs) /\ rest \in Seq(Msgs) /\ Len(inbox) \in Nat
  BY LenProperties DEF LoopTypes, Ranks
<1>2. CASE UNCHANGED <<size, io, loop>>
  BY <1>2 DEF LoopTypes, Ranks, io, loop
<1>3. CASE RootFirst
  <2>1. Head(inbox) \in Msgs /\ Tail(inbox) \in Seq(Msgs) BY <1>1, <1>3, HeadTailProperties DEF RootFirst
  <2>2. <<Head(inbox)>> \in Seq(Msgs) BY <2>1
  <2>3. \A r \in Ranks : Append(subs[r], Head(inbox)) \in Seq(Msgs) BY <2>1 DEF LoopTypes
  <2>4. subs' \in [Ranks -> Seq(Msgs)] BY <1>3, <2>3 DEF RootFirst, Publish, LoopTypes
  <2>5. QED BY <1>1, <1>3, <2>1, <2>2, <2>4 DEF RootFirst, Goto, LoopTypes, Ranks, config
<1>4. CASE RootCount
  <2>1. PICK k \in 0 .. Len(inbox) :
          /\ rest' = SubSeq(inbox, 1, k) /\ inbox' = SubSeq(inbox, k + 1, Len(inbox))
          /\ counts' = [r \in Ranks |-> IF r = 0 THEN <<>> ELSE Append(counts[r], k)]
    BY <1>4 DEF RootCount
  <2>2. k \in Nat BY <1>1
  <2>3. rest' \in Seq(Msgs)
    <3>1. \A i \in 1 .. k : inbox[i] \in Msgs BY <1>1, ElementOfSeq
    <3>2. QED BY <2>1, <2>2, <3>1, SubSeqProperties
  <2>4. inbox' \in Seq(Msgs)
    <3>1. \A i \in k + 1 .. Len(inbox) : inbox[i] \in Msgs
      <4>1. \A i \in k + 1 .. Len(inbox) : i \in 1 .. Len(inbox) BY <1>1, <2>2
      <4>2. QED BY <1>1, <4>1, ElementOfSeq
    <3>2. k + 1 \in Int /\ Len(inbox) \in Int BY <1>1, <2>2
    <3>3. QED BY <2>1, <3>1, <3>2, SubSeqProperties
  <2>5. counts' \in [Ranks -> Seq(Nat)]
    <3>1. \A r \in Ranks : Append(counts[r], k) \in Seq(Nat) BY <2>2 DEF LoopTypes
    <3>2. <<>> \in Seq(Nat) BY EmptySeq
    <3>3. QED BY <2>1, <3>1, <3>2
  <2>6. QED BY <1>4, <2>3, <2>4, <2>5 DEF RootCount, Goto, LoopTypes, Ranks, config
<1>5. CASE RootTake
  <2>1. Head(rest) \in Msgs /\ Tail(rest) \in Seq(Msgs) BY <1>1, <1>5, HeadTailProperties DEF RootTake
  <2>2. \A r \in Ranks : Append(subs[r], Head(rest)) \in Seq(Msgs) /\ Append(got[r], Head(rest)) \in Seq(Msgs)
    BY <2>1 DEF LoopTypes
  <2>3. subs' \in [Ranks -> Seq(Msgs)] BY <1>5, <2>2 DEF RootTake, Publish, LoopTypes
  <2>4. QED BY <1>5, <2>1, <2>2, <2>3 DEF RootTake, LoopTypes, Ranks, config
<1>6. ASSUME NEW m \in Msgs, Arrive(m) PROVE LoopTypes'
  <2>1. inbox' = Append(inbox, m) /\ UNCHANGED <<size, subs, counts>> /\ UNCHANGED loop
    BY <1>6 DEF Arrive, config
  <2>2. inbox' \in Seq(Msgs) BY <1>1, <2>1
  <2>3. QED BY <2>1, <2>2 DEF LoopTypes, Ranks, loop
<1>7. ASSUME NEW r \in Ranks, RankLoop(r) PROVE LoopTypes'
  <2>1. CASE FollowFirst(r)
    <3>1. Head(subs[r]) \in Msgs /\ Tail(subs[r]) \in Seq(Msgs)
      BY <2>1, HeadTailProperties DEF FollowFirst, LoopTypes
    <3>2. <<Head(subs[r])>> \in Seq(Msgs) BY <3>1
    <3>3. QED BY <2>1, <3>1, <3>2 DEF FollowFirst, Goto, LoopTypes, Ranks, config
  <2>2. CASE FollowCount(r)
    <3>1. Head(counts[r]) \in Nat /\ Tail(counts[r]) \in Seq(Nat)
      BY <2>2, HeadTailProperties DEF FollowCount, LoopTypes
    <3>2. QED BY <2>2, <3>1 DEF FollowCount, Goto, LoopTypes, Ranks, config
  <2>3. CASE FollowTake(r)
    <3>1. Head(subs[r]) \in Msgs /\ Tail(subs[r]) \in Seq(Msgs)
      BY <2>3, HeadTailProperties DEF FollowTake, LoopTypes
    <3>2. Append(got[r], Head(subs[r])) \in Seq(Msgs) BY <3>1 DEF LoopTypes
    <3>3. left[r] \in Nat /\ left[r] > 0 BY <2>3 DEF FollowTake, LoopTypes
    <3>4. left[r] - 1 \in Nat BY <3>3
    <3>5. QED BY <2>3, <3>1, <3>2, <3>4 DEF FollowTake, LoopTypes, Ranks, config
  <2>4. CASE Launch(r)
    <3> DEFINE jobs == [m \in Msgs |-> todo[r][m] + IF m \in ToSet(got[r]) THEN Work[m] ELSE 0]
    <3>1. PICK b \in BatchChoices(jobs) :
            /\ todo' = [todo EXCEPT ![r] = [m \in Msgs |-> IF m \in b THEN jobs[m] - 1 ELSE jobs[m]]]
            /\ ran' = IF b = {} THEN ran ELSE [ran EXCEPT ![r] = Append(@, b)]
            /\ cur' = [cur EXCEPT ![r] = IF b = {} THEN 0 ELSE Len(ran[r]) + 1]
      BY <2>4 DEF Launch
    <3>2. \A m \in Msgs : jobs[m] \in Nat BY WorkAssumption DEF LoopTypes
    <3> HIDE DEF jobs
    <3>3. b \subseteq {m \in Msgs : jobs[m] > 0} BY DEF BatchChoices
    <3>4. \A m \in Msgs : (IF m \in b THEN jobs[m] - 1 ELSE jobs[m]) \in Nat BY <3>2, <3>3
    <3>5. todo' \in [Ranks -> [Msgs -> Nat]] BY <3>1, <3>4 DEF LoopTypes
    <3>6. Append(ran[r], b) \in Seq(SUBSET Msgs) /\ Len(ran[r]) \in Nat
      BY <3>3, LenProperties DEF LoopTypes
    <3>7. ran' \in [Ranks -> Seq(SUBSET Msgs)] /\ cur' \in [Ranks -> Nat]
      <4>1. ran \in [Ranks -> Seq(SUBSET Msgs)] /\ cur \in [Ranks -> Nat] BY DEF LoopTypes
      <4>2. [ran EXCEPT ![r] = Append(@, b)] \in [Ranks -> Seq(SUBSET Msgs)] BY <3>6, <4>1
      <4>3. (IF b = {} THEN 0 ELSE Len(ran[r]) + 1) \in Nat BY <3>6
      <4>4. cur' \in [Ranks -> Nat] BY <3>1, <4>1, <4>3
      <4>5. CASE b = {} BY <3>1, <4>1, <4>4, <4>5
      <4>6. CASE b # {} BY <3>1, <4>2, <4>4, <4>6
      <4>7. QED BY <4>5, <4>6
    <3>8. Append(taken[r], got[r]) \in Seq(Seq(Msgs)) /\ <<>> \in Seq(Msgs) BY EmptySeq DEF LoopTypes
    <3>9. QED BY <2>4, <3>5, <3>7, <3>8 DEF Launch, Goto, LoopTypes, Ranks, config, io
  <2>5. CASE Results(r) BY <2>5 DEF Results, Goto, LoopTypes, Ranks, config, io
  <2>6. CASE Interrupt(r)
    <3>1. Append(taken[r], got[r]) \in Seq(Seq(Msgs)) /\ <<>> \in Seq(Msgs) BY EmptySeq DEF LoopTypes
    <3>2. QED BY <2>6, <3>1 DEF Interrupt, Goto, LoopTypes, Ranks, config, io
  <2>7. CASE Synchronize(r) BY <2>7 DEF Synchronize, Goto, LoopTypes, Ranks, config, io
  <2>8. CASE Close(r) BY <2>8 DEF Close, Goto, LoopTypes, Ranks, config, io
  <2>9. QED BY <1>7, <2>1, <2>2, <2>3, <2>4, <2>5, <2>6, <2>7, <2>8 DEF RankLoop
<1>8. CASE LaunchServer
  BY <1>2, <1>8 DEF LaunchServer, OpenFrontend, Spawn, HearAck, config
<1>9. ASSUME NEW w \in Workers, WorkerReady(w) PROVE LoopTypes'
  BY <1>2, <1>9 DEF WorkerReady, config
<1>10. ASSUME NEW r \in Ranks, StartStep(r) PROVE LoopTypes'
  BY <1>2, <1>10 DEF StartStep, config
<1>11. ASSUME NEW r \in Ranks, Subscribe(r) PROVE LoopTypes'
  BY <1>11 DEF Subscribe, LoopTypes, Ranks, config, loop
<1>12. CASE UNCHANGED vars BY <1>2, <1>12 DEF vars, config
<1>13. QED
  BY <1>3, <1>4, <1>5, <1>6, <1>7, <1>8, <1>9, <1>10, <1>11, <1>12 DEF Next, RootLoop

-----------------------------------------------------------------------------
\* What happens outside the loops, and in the socket of the frontend, is no part of
\* their history.
LEMMA ApartTold ==
  ASSUME NEW P, NEW N, NEW O, NEW S, Told(P, N, O, S), UNCHANGED <<size, subs, counts, loop>>
  PROVE  Told(P, N, O, S)'
<1>1. /\ Ranks' = Ranks /\ Followers' = Followers
      /\ UNCHANGED <<pc, got, rest, left, todo, data, cur, taken, ran, subs, counts>>
  BY DEF Ranks, Followers, loop
<1>2. Story(P, N, O, S)' BY SameStory DEF Told
<1>3. Leads(P, N, O)' BY <1>1, SameLeader DEF Told
<1>4. \A r \in Ranks : RankAt(P, N, O, S, r)' BY <1>1, SameRank DEF Told
<1>5. \A r \in Followers : Follows(P, N, O, S, r)' BY <1>1, SameFollower DEF Told
<1>6. QED BY <1>1, <1>2, <1>3, <1>4, <1>5 DEF Told

\* Every step goes on with the history, or loses a publication.
LEMMA NextTold ==
  ASSUME LoopInv, LoopTypes', [Next]_vars, ~lost', size' # 1
  PROVE  \E P, N, O, S : Told(P, N, O, S)'
<1>1. size # 1 /\ ~lost
  <2>1. size' = size /\ (UNCHANGED lost \/ RootFirst \/ RootTake)
    BY DEF Next, vars, config, io, LaunchServer, OpenFrontend, Spawn, HearAck, WorkerReady, StartStep,
       Subscribe, Arrive, RootLoop, RootCount, RootFirst, RootTake, RankLoop, FollowFirst,
       FollowCount, FollowTake, Launch, Results, Interrupt, Synchronize, Close
  <2>2. lost => lost'
    BY <2>1 DEF RootFirst, RootTake, Publish
  <2>3. QED BY <2>1, <2>2
<1>2. PICK P, N, O, S : Told(P, N, O, S) BY <1>1 DEF LoopInv
<1>3. LoopTypes BY DEF LoopInv
<1>4. CASE UNCHANGED <<size, subs, counts, loop>> BY <1>2, <1>4, ApartTold
<1>5. CASE LaunchServer
  BY <1>4, <1>5 DEF LaunchServer, OpenFrontend, Spawn, HearAck, config, io
<1>6. ASSUME NEW w \in Workers, WorkerReady(w) PROVE UNCHANGED <<size, subs, counts, loop>>
  BY <1>6 DEF WorkerReady, config, io
<1>7. ASSUME NEW r \in Ranks, StartStep(r) \/ Subscribe(r) PROVE UNCHANGED <<size, subs, counts, loop>>
  BY <1>7 DEF StartStep, Subscribe, config, io
<1>8. ASSUME NEW m \in Msgs, Arrive(m) PROVE UNCHANGED <<size, subs, counts, loop>>
  BY <1>8 DEF Arrive, config
<1>9. CASE UNCHANGED vars BY <1>4, <1>9 DEF vars, config, io
<1>10. CASE RootFirst BY <1>2, <1>3, <1>10, RootFirstTold
<1>11. CASE RootCount BY <1>2, <1>3, <1>11, RootCountTold
<1>12. CASE RootTake BY <1>2, <1>3, <1>12, RootTakeTold
<1>13. ASSUME NEW r \in Ranks, RankLoop(r) PROVE \E P2, N2, O2, S2 : Told(P2, N2, O2, S2)'
  <2>1. CASE FollowFirst(r) BY <1>2, <1>3, <2>1, FollowFirstTold
  <2>2. CASE FollowCount(r) BY <1>2, <1>3, <2>2, FollowCountTold
  <2>3. CASE FollowTake(r) BY <1>2, <1>3, <2>3, FollowTakeTold
  <2>4. CASE Launch(r)
    <3>1. step[r] = Running BY <2>4 DEF Launch, AllTaken, At
    <3>2. policy # "wait_time" BY <1>1, <3>1 DEF LoopInv, Refused, Running
    <3>3. QED BY <1>2, <1>3, <2>4, <3>2, LaunchTold
  <2>5. CASE Results(r) \/ Synchronize(r) \/ Close(r) BY <1>2, <1>3, <2>5, MoveTold
  <2>6. CASE Interrupt(r) BY <1>2, <1>3, <2>6, InterruptTold
  <2>7. QED BY <1>13, <2>1, <2>2, <2>3, <2>4, <2>5, <2>6 DEF RankLoop
<1>14. QED
  BY <1>4, <1>5, <1>6, <1>7, <1>8, <1>9, <1>10, <1>11, <1>12, <1>13 DEF Next, RootLoop

LEMMA NextLoop == LoopInv /\ [Next]_vars => LoopInv'
<1> SUFFICES ASSUME LoopInv, [Next]_vars PROVE LoopInv' OBVIOUS
<1>1. LoopTypes' BY NextTypes DEF LoopInv
<1>2. UNCHANGED config
  BY DEF Next, vars, config, LaunchServer, OpenFrontend, Spawn, HearAck, WorkerReady, StartStep,
     Subscribe, Arrive, RootLoop, RootFirst, RootCount, RootTake, RankLoop, FollowFirst,
     FollowCount, FollowTake, Launch, Results, Interrupt, Synchronize, Close
<1>3. Ranks' = Ranks /\ Refused' = Refused /\ NumPages(0)' = NumPages(0)
  BY <1>2 DEF config, Ranks, Refused, NumPages, AvailableMemory, MaxFree, Max
<1>4. \A r : NumPages(r) = NumPages(0) BY DEF NumPages, AvailableMemory
<1>5. \/ UNCHANGED <<step, pages>>
      \/ \E r \in Ranks : StartStep(r)
  BY DEF Next, vars, start, LaunchServer, OpenFrontend, Spawn, HearAck, WorkerReady,
     Subscribe, Arrive, RootLoop, RootFirst, RootCount, RootTake, RankLoop, FollowFirst,
     FollowCount, FollowTake, Launch, Results, Interrupt, Synchronize, Close
<1>6. /\ step' \in [Ranks -> 0 .. Running] /\ (Refused => \A r \in Ranks : step'[r] = 0)
      /\ DOMAIN pages' = Ranks
      /\ \A r \in Ranks : pages'[r] # 0 => pages'[r] = NumPages(0)
  <2>1. CASE UNCHANGED <<step, pages>> BY <2>1 DEF LoopInv
  <2>2. ASSUME NEW r \in Ranks, StartStep(r), ~UNCHANGED <<step, pages>>
        PROVE  <1>6!:
    <3>1. /\ step[r] < Running /\ ~Raises(r) /\ step' = [step EXCEPT ![r] = @ + 1]
          /\ pages' = IF step[r] = 4 THEN [pages EXCEPT ![r] = NumPages(r)] ELSE pages
      BY <2>2 DEF StartStep
    <3>2. step' \in [Ranks -> 0 .. Running] BY <3>1 DEF LoopInv, Running
    <3>3. ~Refused BY <3>1 DEF LoopInv, Raises
    <3>4. /\ DOMAIN pages' = Ranks
          /\ \A q \in Ranks : pages'[q] # 0 => pages'[q] = NumPages(0)
      BY <1>4, <3>1 DEF LoopInv
    <3>5. QED BY <3>2, <3>3, <3>4
  <2>3. QED BY <1>5, <2>1, <2>2
<1>7. ASSUME ~lost', size' # 1 PROVE \E P, N, O, S : Told(P, N, O, S)'
  BY <1>1, <1>7, NextTold
<1>8. QED BY <1>1, <1>3, <1>6, <1>7 DEF LoopInv

-----------------------------------------------------------------------------
\* A sequence that begins another is its prefix.
LEMMA BeginsPrefix ==
  ASSUME NEW T, NEW s \in Seq(T), NEW t \in Seq(T), Begins(s, t)
  PROVE  IsPrefix(s, t)
<1> DEFINE n == Len(s)
<1>1. n \in Nat /\ Len(t) \in Nat /\ n <= Len(t) /\ \A i \in 1 .. n : s[i] = t[i]
  BY LenProperties DEF Begins
<1>2. \A i \in 1 .. n : s[i] \in T /\ t[i] \in T BY <1>1, ElementOfSeq
<1> DEFINE u == SubSeq(s, 1, n)
           v == SubSeq(t, 1, n)
<1>3. u \in Seq(T) /\ Len(u) = n /\ \A i \in 1 .. n : u[i] = s[i]
  <2> HIDE DEF n
  <2>1. /\ u \in Seq(T) /\ Len(u) = IF 1 <= n THEN n - 1 + 1 ELSE 0
        /\ \A i \in 1 .. n - 1 + 1 : u[i] = s[1 + i - 1]
    BY <1>1, <1>2, SubSeqProperties
  <2> HIDE DEF u
  <2>2. QED BY <1>1, <2>1
<1>4. v \in Seq(T) /\ Len(v) = n /\ \A i \in 1 .. n : v[i] = t[i]
  <2> HIDE DEF n
  <2>1. /\ v \in Seq(T) /\ Len(v) = IF 1 <= n THEN n - 1 + 1 ELSE 0
        /\ \A i \in 1 .. n - 1 + 1 : v[i] = t[1 + i - 1]
    BY <1>1, <1>2, SubSeqProperties
  <2> HIDE DEF v
  <2>2. QED BY <1>1, <2>1
<1>5. u = v
  <2> HIDE DEF u, v
  <2>1. Len(u) = Len(v) /\ \A i \in 1 .. Len(u) : u[i] = v[i] BY <1>1, <1>3, <1>4
  <2>2. QED BY <1>3, <1>4, <2>1, SeqEqual
<1>6. QED BY <1>1, <1>5 DEF IsPrefix

\* Two ranks in the same history have taken and launched the same, the one behind a
\* beginning of the other.
LEMMA ToldAgree ==
  ASSUME LoopTypes, NEW P, NEW N, NEW O, NEW S, Told(P, N, O, S),
         NEW q \in Ranks, NEW r \in Ranks, Len(taken[q]) <= Len(taken[r])
  PROVE  IsPrefix(taken[q], taken[r]) /\ IsPrefix(ran[q], ran[r])
<1> DEFINE a == Len(taken[q])
           b == Len(taken[r])
<1>1. /\ taken[q] \in Seq(Seq(Msgs)) /\ taken[r] \in Seq(Seq(Msgs))
      /\ ran[q] \in Seq(SUBSET Msgs) /\ ran[r] \in Seq(SUBSET Msgs)
  BY DEF LoopTypes
<1>2. a \in 0 .. N /\ b \in 0 .. N /\ a <= b /\ N \in Nat BY Standing
<1>3. /\ \A i \in 1 .. a : Len(taken[q][i]) = O[i] - O[i - 1] /\ Matches(taken[q][i], P, O[i - 1])
      /\ \A i \in 1 .. b : Len(taken[r][i]) = O[i] - O[i - 1] /\ Matches(taken[r][i], P, O[i - 1])
      /\ ran[q] = S[a].ran /\ ran[r] = S[b].ran
  BY DEF Told, RankAt
<1>4. \A i \in 1 .. a : taken[q][i] \in Seq(Msgs) /\ taken[r][i] \in Seq(Msgs)
  <2>1. \A i \in 1 .. a : i \in 1 .. b BY <1>2
  <2>2. QED BY <1>1, <2>1, ElementOfSeq
<1>5. Begins(ran[q], ran[r]) BY <1>2, <1>3 DEF Told, Story
<1>6. ASSUME NEW i \in 1 .. a PROVE taken[q][i] = taken[r][i]
  <2>1. i \in 1 .. b BY <1>2
  <2> DEFINE x == taken[q][i]
             y == taken[r][i]
  <2>2. x \in Seq(Msgs) /\ y \in Seq(Msgs) /\ Len(x) = Len(y) BY <1>3, <1>4, <2>1
  <2>3. Matches(x, P, O[i - 1]) /\ Matches(y, P, O[i - 1]) BY <1>3, <2>1
  <2> HIDE DEF x, y
  <2>4. \A k \in 1 .. Len(x) : x[k] = y[k] BY <2>2, <2>3 DEF Matches
  <2>5. x = y BY <2>2, <2>4, SeqEqual
  <2>6. QED BY <2>5 DEF x, y
<1>7. Begins(taken[q], taken[r]) BY <1>2, <1>6 DEF Begins
<1>8. QED BY <1>1, <1>5, <1>7, BeginsPrefix

LEMMA LoopAgrees == LoopInv => Lockstep
<1> SUFFICES ASSUME LoopInv PROVE Lockstep OBVIOUS
<1>1. LoopTypes BY DEF LoopInv
<1>2. ASSUME ~lost, NEW q \in Ranks, NEW r \in Ranks
      PROVE  Agree(taken[q], taken[r]) /\ Agree(ran[q], ran[r])
  <2>1. CASE size = 1
    <3>1. q = r BY <2>1 DEF Ranks
    <3>2. taken[q] \in Seq(Seq(Msgs)) /\ ran[q] \in Seq(SUBSET Msgs) BY <1>1 DEF LoopTypes
    <3>3. Len(taken[q]) \in Nat /\ Len(ran[q]) \in Nat BY <3>2, LenProperties
    <3>4. Begins(taken[q], taken[q]) /\ Begins(ran[q], ran[q]) BY <3>3 DEF Begins
    <3>5. QED BY <3>1, <3>2, <3>4, BeginsPrefix DEF Agree
  <2>2. CASE size # 1
    <3>1. PICK P, N, O, S : Told(P, N, O, S) BY <1>2, <2>2 DEF LoopInv
    <3>2. Len(taken[q]) \in Nat /\ Len(taken[r]) \in Nat
      <4>1. taken[q] \in Seq(Seq(Msgs)) /\ taken[r] \in Seq(Seq(Msgs)) BY <1>1 DEF LoopTypes
      <4>2. QED BY <4>1, LenProperties
    <3>3. CASE Len(taken[q]) <= Len(taken[r]) BY <1>1, <3>1, <3>3, ToldAgree DEF Agree
    <3>4. CASE Len(taken[r]) <= Len(taken[q]) BY <1>1, <3>1, <3>4, ToldAgree DEF Agree
    <3>5. QED BY <3>2, <3>3, <3>4
  <2>3. QED BY <2>1, <2>2
<1>3. ASSUME NEW q \in Ranks, NEW r \in Ranks, pages[q] > 0, pages[r] > 0
      PROVE  pages[q] = pages[r]
  BY <1>3 DEF LoopInv
<1>4. QED BY <1>2, <1>3 DEF Lockstep

\* Whatever the messages, the readings and the order of the steps: as long as every
\* publication has reached every rank, in the same iteration all ranks have taken the
\* same messages and launched the same batches, though each decides for itself whether
\* to block, how many messages to take and what to run (scheduler/io.py,
\* overlap_loop); and all ranks that know their number of pages have the same
\* (engine.py:148, 170).
THEOREM LockstepCorrect == Spec => []Lockstep
<1>1. QED BY InitLoop, NextLoop, LoopAgrees, PTL DEF Spec

=============================================================================
