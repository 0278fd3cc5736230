--------------------------- MODULE WebProofs ---------------------------
(***************************************************************************)
(* The two sides of the web interface.                                     *)
(*                                                                         *)
(* Page: however many discover() calls are under way, it posts only to a   *)
(* live engine, waits only for one that is booting, and sends logs to the  *)
(* server only once it has given the engine up.                            *)
(*                                                                         *)
(* Server: however many connections share the pool of compressors, each    *)
(* client gets its own whole reply, coded as its header says.              *)
(*                                                                         *)
(* Answers: whatever a pattern captures on a line, its segments are the    *)
(* line with every field in it, under the name and with the primitive the  *)
(* pattern's expansion gives it.                                           *)
(***************************************************************************)
EXTENDS WebClient, WebServer, FiniteSetTheorems, SequenceTheorems, WellFoundedInduction, TLAPS

ClientInv == ClientTypeOK /\ WaitersHaveEngine /\ ServerOnlyWithoutEngine

Steps == {"idle", "await startEngine", "await wasmDiscover", "await fetch"}

-----------------------------------------------------------------------------
(***************************************************************************)
(* Sequences of calls                                                      *)
(***************************************************************************)
\* The calls in some order, each once.
LEMMA SetToSeqOrders ==
  ASSUME NEW S \in SUBSET Calls
  PROVE  SetToSeq(S) \in Seq(S) /\ IsInjective(SetToSeq(S))
<1>1. IsFiniteSet(S)
  BY CallsAssumption, FS_Subset
<1>2. Cardinality(S) \in Nat /\ ExistsBijection(1 .. Cardinality(S), S)
  BY <1>1, FS_CardinalityType
<1>3. \E f \in [1 .. Cardinality(S) -> S] : IsInjective(f)
  BY <1>2 DEF ExistsBijection, Bijection, Injection
<1>4. SetToSeq(S) \in [1 .. Cardinality(S) -> S] /\ IsInjective(SetToSeq(S))
  BY <1>3 DEF SetToSeq
<1>. QED
  BY <1>2, <1>4, SeqDef

LEMMA AppendOnce ==
  ASSUME NEW S, NEW s \in Seq(S), IsInjective(s), NEW c, c \notin S
  PROVE  Append(s, c) \in Seq(S \cup {c}) /\ IsInjective(Append(s, c)) /\ Append(s, c) # <<>>
<1>1. s \in Seq(S \cup {c}) /\ Len(s) \in Nat /\ DOMAIN s = 1 .. Len(s)
  BY SeqMonotonic, LenProperties
<1>2. /\ Append(s, c) \in Seq(S \cup {c}) /\ Append(s, c) # <<>>
      /\ Len(Append(s, c)) = Len(s) + 1
      /\ \A i \in 1 .. Len(s) : Append(s, c)[i] = s[i]
      /\ Append(s, c)[Len(s) + 1] = c
  BY <1>1, AppendProperties
<1>3. DOMAIN Append(s, c) = 1 .. Len(s) + 1
  BY <1>2, LenProperties
<1>4. \A i \in 1 .. Len(s) : s[i] \in S
  BY ElementOfSeq
<1>. HIDE DEF IsInjective
<1>5. ASSUME NEW i \in 1 .. Len(s) + 1, NEW j \in 1 .. Len(s) + 1,
             Append(s, c)[i] = Append(s, c)[j]
      PROVE  i = j
  <2>1. CASE i \in 1 .. Len(s) /\ j \in 1 .. Len(s)
    BY <1>1, <1>2, <1>5, <2>1 DEF IsInjective
  <2>2. CASE i = Len(s) + 1 /\ j \in 1 .. Len(s)
    BY <1>2, <1>4, <1>5, <2>2
  <2>3. CASE i \in 1 .. Len(s) /\ j = Len(s) + 1
    BY <1>2, <1>4, <1>5, <2>3
  <2>. QED
    BY <1>1, <2>1, <2>2, <2>3
<1>. QED
  BY <1>2, <1>3, <1>5 DEF IsInjective

LEMMA TailOnce ==
  ASSUME NEW S, NEW s \in Seq(S), IsInjective(s), s # <<>>
  PROVE  Head(s) \in S /\ Tail(s) \in Seq(S \ {Head(s)}) /\ IsInjective(Tail(s))
<1>1. /\ Len(s) \in Nat \ {0} /\ DOMAIN s = 1 .. Len(s)
      /\ Head(s) \in S /\ Head(s) = s[1] /\ Tail(s) \in Seq(S)
      /\ Len(Tail(s)) = Len(s) - 1
      /\ \A i \in 1 .. Len(Tail(s)) : Tail(s)[i] = s[i + 1]
  BY EmptySeq, LenProperties, HeadTailProperties
<1>2. DOMAIN Tail(s) = 1 .. Len(s) - 1 /\ Tail(s) \in [1 .. Len(s) - 1 -> S]
  BY <1>1, LenProperties
<1>3. \A i, j \in 1 .. Len(s) : s[i] = s[j] => i = j
  BY <1>1 DEF IsInjective
<1>4. \A i \in 1 .. Len(s) - 1 : Tail(s)[i] # Head(s)
  BY <1>1, <1>3
<1>5. Tail(s) \in [1 .. Len(s) - 1 -> S \ {Head(s)}]
  BY <1>2, <1>4
<1>6. Len(s) - 1 \in Nat
  BY <1>1
<1>7. Tail(s) \in Seq(S \ {Head(s)})
  <2>. DEFINE rest == S \ {Head(s)}
              n == Len(s) - 1
  <2>1. n \in Nat /\ Tail(s) \in [1 .. n -> rest]
    BY <1>5, <1>6
  <2>. HIDE DEF rest, n
  <2>2. Tail(s) \in UNION {[1 .. m -> rest] : m \in Nat}
    BY ONLY <2>1
  <2>3. Tail(s) \in Seq(rest)
    BY ONLY <2>2, SeqDef
  <2>. QED
    BY ONLY <2>3 DEF rest
<1>8. IsInjective(Tail(s))
  BY <1>1, <1>2, <1>3 DEF IsInjective
<1>. QED
  BY <1>1, <1>7, <1>8

-----------------------------------------------------------------------------
(***************************************************************************)
(* The actions                                                             *)
(***************************************************************************)
LEMMA InitClientInv == ClientInit => ClientInv
<1>. SUFFICES ASSUME ClientInit PROVE ClientInv
  OBVIOUS
<1>1. <<>> \in Seq(Pending) /\ IsInjective(<<>>)
  BY EmptySeq DEF IsInjective
<1>2. ClientTypeOK
  BY <1>1 DEF ClientInit, ClientTypeOK, Texts
<1>3. WaitersHaveEngine /\ ServerOnlyWithoutEngine
  BY DEF ClientInit, WaitersHaveEngine, ServerOnlyWithoutEngine, Awaiting
<1>. QED
  BY <1>2, <1>3 DEF ClientInv

\* A move takes every call moved to its new step and leaves the others.
LEMMA Moves ==
  ASSUME ClientTypeOK, NEW moved \in SUBSET Calls, NEW where \in Steps, Move(moved, where)
  PROVE  /\ at' \in [Calls -> Steps]
         /\ \A c \in Calls : at'[c] = IF c \in moved THEN where ELSE at[c]
BY DEF ClientTypeOK, Move, Steps

LEMMA MovesOne ==
  ASSUME ClientInv, NEW c \in Calls, NEW where \in Steps, Move({c}, where)
  PROVE  /\ at' \in [Calls -> Steps]
         /\ \A d \in Calls : at'[d] = IF d \in {c} THEN where ELSE at[d]
<1>1. {c} \in SUBSET Calls /\ ClientTypeOK
  BY DEF ClientInv
<1>. QED
  BY <1>1, Moves

\* What the invariant asks for after a step, in one place.
LEMMA Kept ==
  ASSUME text' \in Texts, busy' \in BOOLEAN, note' \in BOOLEAN, usable' \in BOOLEAN,
         worker' \in {NoWorker, "booting", "ready"},
         at' \in [Calls -> Steps],
         inbox' \in Seq(Pending'), IsInjective(inbox'),
         inbox' # <<>> => worker' = "ready",
         Awaiting' # {} => worker' = "booting",
         ~ usable' => worker' = NoWorker,
         (\E c \in Calls : at'[c] = "await fetch") => ~ usable'
  PROVE  ClientInv'
BY DEF ClientInv, ClientTypeOK, WaitersHaveEngine, ServerOnlyWithoutEngine, Steps

LEMMA UseServerClientInv ==
  ASSUME ClientInv, NEW c \in Calls, at[c] = "idle", UseServer(c),
         text' \in Texts, busy' \in BOOLEAN, note' \in BOOLEAN
  PROVE  ClientInv'
<1>. USE DEF ClientInv
<1>1. /\ at' \in [Calls -> Steps]
      /\ \A d \in Calls : at'[d] = IF d \in {c} THEN "await fetch" ELSE at[d]
  <2>1. Move({c}, "await fetch") /\ "await fetch" \in Steps
    BY DEF UseServer, Steps
  <2>. QED
    BY ONLY <2>1, ClientInv, c \in Calls, MovesOne
<1>2. Pending' = Pending /\ Awaiting' = Awaiting
  BY <1>1 DEF Pending, Awaiting
<1>. QED
  <2>1. /\ worker' = worker /\ inbox' = inbox /\ usable' = usable /\ ~ usable
        /\ worker \in {NoWorker, "booting", "ready"} /\ usable \in BOOLEAN
        /\ inbox \in Seq(Pending) /\ IsInjective(inbox)
        /\ (inbox # <<>> => worker = "ready") /\ (Awaiting # {} => worker = "booting")
        /\ (~ usable => worker = NoWorker)
    BY DEF UseServer, ClientTypeOK, WaitersHaveEngine
  <2>. QED
    BY ONLY ClientInv, text' \in Texts, busy' \in BOOLEAN, note' \in BOOLEAN, <1>1, <1>2, <2>1, Kept, ZenonT(60)

\* A call is posted once, behind those that are there.
LEMMA UseEngineClientInv ==
  ASSUME ClientInv, NEW c \in Calls, at[c] = "idle", UseEngine(c),
         text' \in Texts, busy' \in BOOLEAN, note' \in BOOLEAN
  PROVE  ClientInv'
<1>. USE DEF ClientInv
<1>1. /\ at' \in [Calls -> Steps]
      /\ \A d \in Calls : at'[d] = IF d \in {c} THEN "await wasmDiscover" ELSE at[d]
  <2>1. Move({c}, "await wasmDiscover") /\ "await wasmDiscover" \in Steps
    BY DEF UseEngine, Steps
  <2>. QED
    BY ONLY <2>1, ClientInv, c \in Calls, MovesOne
<1>2. Pending' = Pending \cup {c} /\ Awaiting' = Awaiting /\ c \notin Pending
  BY <1>1 DEF Pending, Awaiting
<1>3. inbox' \in Seq(Pending') /\ IsInjective(inbox')
  BY <1>2, AppendOnce DEF UseEngine, ClientTypeOK
<1>4. (\E d \in Calls : at'[d] = "await fetch") => ~ usable'
  BY <1>1 DEF ServerOnlyWithoutEngine, UseEngine
<1>. QED
  <2>1. /\ worker' = "ready" /\ worker = "ready" /\ usable' = TRUE
        /\ (Awaiting # {} => worker = "booting")
    BY DEF UseEngine, ClientTypeOK, WaitersHaveEngine
  <2>2. worker' \in {NoWorker, "booting", "ready"} /\ usable' \in BOOLEAN
        /\ Awaiting' = {}
    BY ONLY <1>2, <2>1, ClientTypeOK DEF ClientTypeOK
  <2>3. Awaiting' # {} => worker' = "booting"
    BY ONLY <2>2
  <2>. QED
    BY <1>1, <1>2, <1>3, <1>4, <2>1, <2>2, <2>3, Kept, ZenonT(60)

LEMMA AwaitEngineClientInv ==
  ASSUME ClientInv, NEW c \in Calls, at[c] = "idle", AwaitEngine(c),
         text' \in Texts, busy' \in BOOLEAN, note' \in BOOLEAN
  PROVE  ClientInv'
<1>. USE DEF ClientInv
<1>1. /\ at' \in [Calls -> Steps]
      /\ \A d \in Calls : at'[d] = IF d \in {c} THEN "await startEngine" ELSE at[d]
  <2>1. Move({c}, "await startEngine") /\ "await startEngine" \in Steps
    BY DEF AwaitEngine, Steps
  <2>. QED
    BY ONLY <2>1, ClientInv, c \in Calls, MovesOne
<1>2. Pending' = Pending
  BY <1>1 DEF Pending
<1>3. (\E d \in Calls : at'[d] = "await fetch") => ~ usable'
  BY <1>1 DEF ServerOnlyWithoutEngine, AwaitEngine
<1>. QED
  <2>1. /\ worker' = "booting" /\ usable' = TRUE /\ inbox' = inbox
        /\ inbox \in Seq(Pending) /\ IsInjective(inbox) /\ (inbox # <<>> => worker = "ready")
        /\ worker # "ready"
    BY DEF AwaitEngine, ClientTypeOK
  <2>2. inbox' \in Seq(Pending') /\ IsInjective(inbox') /\ (inbox' # <<>> => worker' = "ready")
        /\ worker' \in {NoWorker, "booting", "ready"} /\ usable' \in BOOLEAN
    BY ONLY <1>2, <2>1
  <2>. QED
    BY <1>1, <1>3, <2>1, <2>2, Kept, ZenonT(60)

\* A worker that cannot be made has nobody waiting for it yet.
LEMMA EngineThrowsClientInv ==
  ASSUME ClientInv, NEW c \in Calls, at[c] = "idle", EngineThrows(c),
         text' \in Texts, busy' \in BOOLEAN, note' \in BOOLEAN
  PROVE  ClientInv'
<1>. USE DEF ClientInv
<1>1. /\ at' \in [Calls -> Steps]
      /\ \A d \in Calls : at'[d] = IF d \in {c} THEN "await fetch" ELSE at[d]
  <2>1. Move({c}, "await fetch") /\ "await fetch" \in Steps
    BY DEF EngineThrows, Steps
  <2>. QED
    BY ONLY <2>1, ClientInv, c \in Calls, MovesOne
<1>2. Pending' = Pending /\ Awaiting' = Awaiting
  BY <1>1 DEF Pending, Awaiting
<1>. QED
  <2>1. /\ worker' = NoWorker /\ usable' = FALSE /\ inbox' = inbox /\ worker = NoWorker
        /\ inbox \in Seq(Pending) /\ IsInjective(inbox) /\ (inbox # <<>> => worker = "ready")
        /\ (Awaiting # {} => worker = "booting")
    BY DEF EngineThrows, ClientTypeOK, WaitersHaveEngine
  <2>2. /\ inbox' \in Seq(Pending') /\ IsInjective(inbox') /\ (inbox' # <<>> => worker' = "ready")
        /\ (Awaiting' # {} => worker' = "booting")
        /\ worker' \in {NoWorker, "booting", "ready"} /\ usable' \in BOOLEAN
    BY ONLY <1>2, <2>1
  <2>. QED
    BY <1>1, <2>1, <2>2, Kept, ZenonT(60)

LEMMA UserClientInv ==
  ASSUME ClientInv, User
  PROVE  ClientInv'
<1>. USE DEF ClientInv
<1>1. ASSUME NEW c \in Calls, NEW t \in Texts, Discover(c, t)
      PROVE  ClientInv'
  <2>1. at[c] = "idle" /\ text' \in Texts /\ note' \in BOOLEAN
    BY <1>1 DEF Discover, ClientTypeOK
  <2>2. CASE RefuseText(t)
    <3>1. busy' \in BOOLEAN
      BY <2>2 DEF RefuseText, ClientTypeOK
    <3>2. Pending' = Pending /\ Awaiting' = Awaiting
      BY <2>2 DEF RefuseText, Pending, Awaiting
    <3>3. (\E d \in Calls : at'[d] = "await fetch") => ~ usable'
      BY <2>2 DEF RefuseText, ServerOnlyWithoutEngine
    <3>. QED
      BY <2>1, <2>2, <3>1, <3>2, <3>3, Kept DEF RefuseText, ClientTypeOK, WaitersHaveEngine, Steps
  <2>3. CASE busy' = TRUE /\ (UseServer(c) \/ UseEngine(c) \/ AwaitEngine(c) \/ EngineThrows(c))
    <3>1. busy' \in BOOLEAN
      BY <2>3
    <3>. QED
      BY <2>1, <2>3, <3>1, UseServerClientInv, UseEngineClientInv, AwaitEngineClientInv, EngineThrowsClientInv
  <2>. QED
    BY <1>1, <2>2, <2>3 DEF Discover
<1>2. ASSUME NEW t \in Texts, Edit(t)
      PROVE  ClientInv'
  <2>1. Pending' = Pending /\ Awaiting' = Awaiting
    BY <1>2 DEF Edit, Pending, Awaiting
  <2>2. (\E d \in Calls : at'[d] = "await fetch") => ~ usable'
    BY <1>2 DEF Edit, ServerOnlyWithoutEngine
  <2>. QED
    BY <1>2, <2>1, <2>2, Kept DEF Edit, ClientTypeOK, WaitersHaveEngine, Steps
<1>3. text \in Texts /\ "lines" \in Texts
  BY DEF ClientTypeOK, Texts
<1>. QED
  BY <1>1, <1>2, <1>3 DEF User, ClickDiscover, CtrlEnter, ClickExample

LEMMA EmptyOrder == \A S : <<>> \in Seq(S) /\ IsInjective(<<>>)
BY EmptySeq DEF IsInjective

\* While a worker boots nothing is posted, so its first messages are the calls
\* that waited.
LEMMA WorkerReadyClientInv ==
  ASSUME ClientInv, WorkerReady
  PROVE  ClientInv'
<1>. USE DEF ClientInv
<1>0. Awaiting \in SUBSET Calls
  BY DEF Awaiting
<1>1. /\ at' \in [Calls -> Steps]
      /\ \A d \in Calls : at'[d] = IF d \in Awaiting THEN "await wasmDiscover" ELSE at[d]
  BY <1>0, Moves DEF WorkerReady, Steps
<1>2. Awaiting \subseteq Pending' /\ Awaiting' = {}
  BY <1>1 DEF Pending, Awaiting
<1>3. inbox' \in Seq(Pending') /\ IsInjective(inbox')
  BY <1>0, <1>2, SetToSeqOrders, SeqMonotonic DEF WorkerReady
<1>4. (\E d \in Calls : at'[d] = "await fetch") => ~ usable'
  BY <1>1 DEF ServerOnlyWithoutEngine, WorkerReady
<1>5. usable'
  BY CallsAssumption DEF WaitersHaveEngine, WorkerReady
<1>. QED
  BY <1>1, <1>2, <1>3, <1>4, <1>5, Kept DEF WorkerReady, ClientTypeOK

\* A boot that ends badly sends whoever waited for it to the server, for good.
LEMMA BootFailsClientInv ==
  ASSUME ClientInv, WorkerFailed \/ BootError
  PROVE  ClientInv'
<1>. USE DEF ClientInv
<1>. DEFINE quitting == IF WorkerFailed THEN Awaiting ELSE Awaiting \cup Pending
<1>0. quitting \in SUBSET Calls /\ Awaiting \subseteq quitting
  BY DEF Awaiting, Pending
<1>1. Move(quitting, "await fetch") /\ usable' = FALSE /\ ResetEngine /\ UNCHANGED <<text, busy, note>>
  BY DEF WorkerFailed, BootError
<1>. HIDE DEF quitting
<1>2. /\ at' \in [Calls -> Steps]
      /\ \A d \in Calls : at'[d] = IF d \in quitting THEN "await fetch" ELSE at[d]
  BY <1>0, <1>1, Moves DEF Steps
<1>3. Awaiting' = {}
  BY <1>0, <1>2 DEF Awaiting
<1>. QED
  BY <1>1, <1>2, <1>3, Kept, EmptyOrder DEF ResetEngine, ClientTypeOK

\* After a worker died, nobody waits for a boot: the next call starts one.
LEMMA EngineGoneClientInv ==
  ASSUME ClientInv, worker = "ready", NEW quitting \in SUBSET Calls, Move(quitting, "idle"),
         ResetEngine, busy' \in BOOLEAN, UNCHANGED <<text, note, usable>>
  PROVE  ClientInv'
<1>. USE DEF ClientInv
<1>1. /\ at' \in [Calls -> Steps]
      /\ \A d \in Calls : at'[d] = IF d \in quitting THEN "idle" ELSE at[d]
  BY Moves DEF Steps
<1>2. Awaiting' = {}
  BY <1>1 DEF Awaiting, WaitersHaveEngine
<1>3. (\E d \in Calls : at'[d] = "await fetch") => ~ usable'
  BY <1>1 DEF ServerOnlyWithoutEngine
<1>. QED
  BY <1>1, <1>2, <1>3, Kept, EmptyOrder DEF ResetEngine, ClientTypeOK

\* The worker answers the first call posted to it, which waits for it.
LEMMA AnswersFirst ==
  ASSUME ClientInv, inbox # <<>>
  PROVE  /\ Head(inbox) \in Pending /\ worker = "ready"
         /\ Tail(inbox) \in Seq(Pending \ {Head(inbox)}) /\ IsInjective(Tail(inbox))
BY TailOnce DEF ClientInv, ClientTypeOK

LEMMA EngineClientInv ==
  ASSUME ClientInv, Engine
  PROVE  ClientInv'
<1>. USE DEF ClientInv
<1>1. CASE Result
  <2>. DEFINE c == Head(inbox)
  <2>1. inbox # <<>>
    BY <1>1 DEF Result
  <2>2. /\ c \in Pending /\ worker = "ready"
        /\ Tail(inbox) \in Seq(Pending \ {c}) /\ IsInjective(Tail(inbox))
    BY <2>1, AnswersFirst
  <2>3. c \in Calls /\ {c} \in SUBSET Calls /\ Move({c}, "idle")
    BY <1>1, <2>2 DEF Pending, Result
  <2>4. /\ at' \in [Calls -> Steps]
        /\ \A d \in Calls : at'[d] = IF d \in {c} THEN "idle" ELSE at[d]
    BY <2>3, Moves DEF Steps
  <2>5. Pending' = Pending \ {c}
    BY <2>4 DEF Pending
  <2>6. Awaiting' = Awaiting
    BY <2>2, <2>4 DEF Pending, Awaiting
  <2>7. (\E d \in Calls : at'[d] = "await fetch") => ~ usable'
    BY <1>1, <2>4 DEF ServerOnlyWithoutEngine, Result
  <2>. QED
    BY <1>1, <2>2, <2>4, <2>5, <2>6, <2>7, Kept DEF Result, ClientTypeOK, WaitersHaveEngine
<1>2. CASE Panic
  <2>1. worker = "ready" /\ {Head(inbox)} \in SUBSET Calls
    BY <1>2, AnswersFirst DEF Panic, Pending
  <2>. QED
    BY <1>2, <2>1, EngineGoneClientInv DEF Panic
<1>3. CASE EngineStops
  <2>1. Pending \in SUBSET Calls
    BY DEF Pending
  <2>2. busy' \in BOOLEAN
    BY <1>3 DEF EngineStops, ClientTypeOK
  <2>. QED
    BY <1>3, <2>1, <2>2, EngineGoneClientInv DEF EngineStops
<1>. QED
  BY <1>1, <1>2, <1>3 DEF Engine

LEMMA FetchedClientInv ==
  ASSUME ClientInv, NEW c \in Calls, Fetched(c)
  PROVE  ClientInv'
<1>. USE DEF ClientInv
<1>1. /\ at' \in [Calls -> Steps]
      /\ \A d \in Calls : at'[d] = IF d \in {c} THEN "idle" ELSE at[d]
  BY ZenonT(60), Moves DEF Fetched, Steps
<1>2. Pending' = Pending /\ Awaiting' = Awaiting
  BY <1>1 DEF Pending, Awaiting, Fetched
<1>3. (\E d \in Calls : at'[d] = "await fetch") => ~ usable'
  BY <1>1 DEF ServerOnlyWithoutEngine, Fetched
<1>. QED
  BY <1>1, <1>2, <1>3, Kept DEF Fetched, ClientTypeOK, WaitersHaveEngine

LEMMA StutterClientInv == ClientInv /\ UNCHANGED clientVars => ClientInv'
<1>. SUFFICES ASSUME ClientInv, UNCHANGED clientVars PROVE ClientInv'
  OBVIOUS
<1>. USE DEF clientVars, ClientInv
<1>1. Pending' = Pending /\ Awaiting' = Awaiting
  BY DEF Pending, Awaiting
<1>2. ClientTypeOK'
  BY <1>1 DEF ClientTypeOK
<1>3. WaitersHaveEngine' /\ ServerOnlyWithoutEngine'
  BY <1>1 DEF WaitersHaveEngine, ServerOnlyWithoutEngine
<1>. QED
  BY <1>2, <1>3

-----------------------------------------------------------------------------
(***************************************************************************)
(* The theorems                                                            *)
(***************************************************************************)
\* The page, its engine and the calls under way fit together in every reachable
\* state (app.js 300-416).
THEOREM ClientInvariant == ClientSpec => []ClientInv
<1>1. ClientInit => ClientInv
  BY InitClientInv
<1>2. ClientInv /\ [ClientNext]_clientVars => ClientInv'
  BY UserClientInv, WorkerReadyClientInv, BootFailsClientInv, EngineClientInv, FetchedClientInv, StutterClientInv
     DEF ClientNext, Boot
<1>. QED
  BY <1>1, <1>2, PTL DEF ClientSpec

\* Messages are posted to a live worker only, and whoever waits for an engine
\* waits for one that is booting (app.js 312-389).
THEOREM ClientEngineSound == ClientSpec => []EngineSound
<1>1. ClientInv => EngineSound
  BY DEF ClientInv, EngineSound
<1>. QED
  BY <1>1, ClientInvariant, PTL

\* Logs go to the server only when the engine could not be started
\* (app.js 386-400).
THEOREM ClientServerOnlyWithoutEngine == ClientSpec => []ServerOnlyWithoutEngine
<1>1. ClientInv => ServerOnlyWithoutEngine
  BY DEF ClientInv
<1>. QED
  BY <1>1, ClientInvariant, PTL

-----------------------------------------------------------------------------
(***************************************************************************)
(* The server: what a text must hold to be answered                        *)
(***************************************************************************)
LEMMA LeastOf ==
  ASSUME NEW S \in SUBSET Nat, S # {}
  PROVE  \E m \in S : \A k \in S : m <= k
<1>. DEFINE R == {ss \in Nat \X Nat : ss[1] < ss[2]}
<1>1. IsWellFoundedOn(R, Nat)
  BY NatLessThanWellFounded DEF OpToRel
<1>. HIDE DEF R
<1>2. PICK m \in S : \A k \in S : ~ (<<k, m>> \in R)
  BY <1>1, WFMin
<1>3. \A k \in S : m <= k
  <2>. TAKE k \in S
  <2>1. k \in Nat /\ m \in Nat /\ <<k, m>> \notin R
    BY <1>2
  <2>2. <<k, m>> \in R <=> k < m
    BY <2>1 DEF R
  <2>. QED
    BY <2>1, <2>2
<1>. QED
  BY <1>3

LEMMA GreatestOf ==
  ASSUME NEW n \in Nat, NEW S \in SUBSET (1 .. n), S # {}
  PROVE  \E m \in S : \A k \in S : m >= k
<1>. DEFINE below == {j \in Nat : n - j \in S}
<1>1. below \in SUBSET Nat /\ below # {}
  <2>1. PICK k \in S : TRUE
    OBVIOUS
  <2>2. n - k \in Nat /\ n - (n - k) = k
    OBVIOUS
  <2>. QED
    BY <2>1, <2>2
<1>2. PICK j \in below : \A i \in below : j <= i
  BY <1>1, LeastOf
<1>. WITNESS n - j \in S
<1>3. ASSUME NEW k \in S
      PROVE  n - j >= k
  <2>1. n - k \in Nat /\ n - (n - k) = k
    OBVIOUS
  <2>2. n - k \in below /\ j \in Nat
    BY <2>1
  <2>. QED
    BY <1>2, <2>2
<1>. QED
  BY <1>3

LEMMA LastKept ==
  ASSUME NEW n \in Nat, NEW kept \in SUBSET (1 .. n)
  PROVE  LET m == IF kept = {} THEN 0 ELSE Max(kept) IN m \in 0 .. n /\ \A i \in kept : i <= m
<1>1. CASE kept = {}
  BY <1>1
<1>2. CASE kept # {}
  <2>1. \E x \in kept : \A y \in kept : x >= y
    BY <1>2, GreatestOf
  <2>2. Max(kept) \in kept /\ \A y \in kept : Max(kept) >= y
    BY <2>1 DEF Max
  <2>. DEFINE g == Max(kept)
  <2>3. g \in 1 .. n /\ \A i \in kept : i \in 1 .. n /\ g >= i
    BY <2>2
  <2>. HIDE DEF g
  <2>4. g \in 0 .. n /\ \A i \in kept : i <= g
    BY <2>3
  <2>. QED
    BY <1>2, <2>4 DEF g
<1>. QED
  BY <1>1, <1>2

LEMMA Prefix ==
  ASSUME NEW S, NEW s \in Seq(S), NEW m \in 0 .. Len(s)
  PROVE  /\ DOMAIN SubSeq(s, 1, m) = 1 .. m
         /\ \A i \in 1 .. m : SubSeq(s, 1, m)[i] = s[i]
<1>1. /\ Len(s) \in Nat /\ m \in Int /\ 1 \in Int /\ m \in Nat
      /\ \A i \in 1 .. m : s[i] \in S
  BY LenProperties, ElementOfSeq
<1>2. /\ SubSeq(s, 1, m) \in Seq(S)
      /\ Len(SubSeq(s, 1, m)) = IF 1 <= m THEN m - 1 + 1 ELSE 0
      /\ \A i \in 1 .. m - 1 + 1 : SubSeq(s, 1, m)[i] = s[1 + i - 1]
  BY <1>1, SubSeqProperties
<1>3. Len(SubSeq(s, 1, m)) = m /\ m - 1 + 1 = m
  BY <1>1, <1>2
<1>4. \A i \in 1 .. m : 1 + i - 1 = i
  BY <1>1
<1>. QED
  BY <1>2, <1>3, <1>4, LenProperties

\* Dropping the empty lines at the end changes neither condition of NoContent.
LEMMA TrimKeeps ==
  ASSUME NEW n \in Nat, NEW m \in 0 .. n, NEW lines, NEW split,
         DOMAIN split = 1 .. m, \A i \in 1 .. m : split[i] = lines[i],
         \A i \in 1 .. n : lines[i] # "empty" => i <= m
  PROVE  /\ HasContent(split) <=> \E i \in 1 .. n : lines[i] \notin {"blank", "empty"}
         /\ Considered(split) # {} <=> \E i \in 1 .. n : lines[i] \notin {"empty", "bom"}
BY DEF HasContent, Considered

LEMMA ContentIsLogs ==
  ASSUME NEW logs \in Seq(LineKinds)
  PROVE  NoContent(logs) <=> ~ HasLogs(logs)
<1>. DEFINE bare(kind) == CASE kind = "cr" -> "empty" [] kind = "textcr" -> "text" [] OTHER -> kind
            n == Len(logs)
            lines == [i \in DOMAIN logs |-> bare(logs[i])]
            kept == {i \in DOMAIN lines : lines[i] # "empty"}
            m == IF kept = {} THEN 0 ELSE Max(kept)
            split == SubSeq(lines, 1, m)
<1>1. n \in Nat /\ DOMAIN logs = 1 .. n /\ \A i \in 1 .. n : logs[i] \in LineKinds
  BY LenProperties, ElementOfSeq
<1>2. SplitLines(logs) = split
  BY DEF SplitLines
<1>3. \A i \in 1 .. n :
        /\ lines[i] = bare(logs[i])
        /\ bare(logs[i]) \in LineKinds
        /\ lines[i] \notin {"blank", "empty"} <=> logs[i] \in {"text", "textcr", "bomtext", "bom"}
        /\ lines[i] \notin {"empty", "bom"} <=> logs[i] \in {"text", "textcr", "bomtext", "blank"}
  BY <1>1 DEF LineKinds
<1>4. lines \in Seq(LineKinds) /\ Len(lines) = n /\ DOMAIN lines = 1 .. n
  <2>1. lines \in [1 .. n -> LineKinds]
    BY <1>1, <1>3
  <2>. HIDE DEF lines
  <2>. QED
    BY <1>1, <2>1, SeqDef, LenProperties
<1>5. kept \in SUBSET (1 .. n) /\ \A i \in 1 .. n : lines[i] # "empty" => i \in kept
  BY <1>4
<1>. HIDE DEF lines, kept
<1>6. m \in 0 .. n /\ \A i \in kept : i <= m
  BY <1>1, <1>5, LastKept
<1>. HIDE DEF m
<1>7. DOMAIN split = 1 .. m /\ \A i \in 1 .. m : split[i] = lines[i]
  BY <1>4, <1>6, Prefix
<1>. HIDE DEF split
<1>8. /\ HasContent(split) <=> \E i \in 1 .. n : lines[i] \notin {"blank", "empty"}
      /\ Considered(split) # {} <=> \E i \in 1 .. n : lines[i] \notin {"empty", "bom"}
  BY ONLY <1>1, <1>5, <1>6, <1>7, TrimKeeps
<1>9. NoContent(logs) <=>
        ~ ( /\ \E i \in 1 .. n : logs[i] \in {"text", "textcr", "bomtext", "bom"}
            /\ \E i \in 1 .. n : logs[i] \in {"text", "textcr", "bomtext", "blank"} )
  BY <1>2, <1>3, <1>8 DEF NoContent
<1>10. HasLogs(logs) <=>
         \/ \E i \in 1 .. n : logs[i] \in {"text", "textcr", "bomtext"}
         \/ (\E i \in 1 .. n : logs[i] = "bom") /\ (\E i \in 1 .. n : logs[i] = "blank")
  BY <1>1 DEF HasLogs
<1>. QED
  BY <1>9, <1>10

-----------------------------------------------------------------------------
(***************************************************************************)
(* The server's invariant: what a connection has sent, by the step its     *)
(* goroutine is at, and who has which compressor                           *)
(***************************************************************************)
Replies == [status : Nat, type : MediaTypes, length : BOOLEAN]
Busy == {"reply", "write", "close", "put"}

ServerShapes ==
  /\ library = None \/ library \subseteq Entries
  /\ pc \in [Conns -> Waiting \cup {"handle"} \cup Busy]
  /\ request \in [Conns -> RequestSet \cup {None}]
  /\ \A c \in Conns : request[c] \in Requests[c] \cup {None}
  /\ DOMAIN todo = Conns /\ DOMAIN wire = Conns
  /\ sent \in [Conns -> Headers \cup {None}]
  /\ gz \in [Conns -> [started : BOOLEAN, zw : Compressors \cup {None}]]
  /\ DOMAIN held = Compressors /\ \A z \in Compressors : DOMAIN held[z] = {"to", "buffer"}
  /\ gone \subseteq Conns /\ pool \subseteq Compressors

\* A compressor that is in use is not in the pool, writes to the connection that
\* uses it, and to no other one.
Using(c) == pc[c] \in Busy /\ gz[c].zw # None

OneUser ==
  \A c \in Conns : Using(c) =>
    /\ gz[c].zw \notin pool /\ held[gz[c].zw].to = c
    /\ \A d \in Conns \ {c} : Using(d) => gz[d].zw # gz[c].zw

Accepted(r) == r.method = "POST" /\ r.body = "json" /\ HasLogs(r.text)
Owes(c, status) == request[c].path = "discover" => (status = 200 <=> Accepted(request[c]))

Untouched(c) == sent[c] = None /\ wire[c] = <<>>
Begins(c) == request[c] \in Requests[c] /\ Untouched(c) /\ gz[c] = Fresh /\ c \notin gone

Headed(c) ==
  /\ request[c] \in Requests[c] /\ sent[c] \in Headers /\ Owes(c, sent[c].status)
  /\ sent[c].encoding = "gzip" <=> gz[c].zw # None
  /\ gz[c].zw # None => request[c].gzip /\ ~ sent[c].length

Buffer(c) == held[gz[c].zw].buffer
PlainPart(c) == <<Chunk(c, "plain")>>
PackedPart(c) == <<Chunk(c, "gzip")>>
PackedWhole(c) == <<Chunk(c, "gzip"), Chunk(c, "end")>>

PlainSent(c) == wire[c] = PlainPart(c) \/ (c \in gone /\ wire[c] = <<>>)

\* Before the compressor is closed, the document is on the wire or held back.
Unclosed(c) ==
  /\ Headed(c)
  /\ gz[c].zw = None => PlainSent(c)
  /\ gz[c].zw # None => \/ wire[c] = <<>> /\ Buffer(c) = PackedPart(c)
                        \/ wire[c] = PackedPart(c) /\ Buffer(c) = <<>>
                        \/ c \in gone /\ wire[c] = <<>> /\ Buffer(c) = <<>>

Ended(c) ==
  /\ Headed(c)
  /\ gz[c].zw = None => PlainSent(c)
  /\ gz[c].zw # None => \/ wire[c] = PackedWhole(c)
                        \/ c \in gone /\ wire[c] \in {<<>>, PackedPart(c)}

OneDue(c) == Head(todo[c]) \in Replies /\ todo[c] = <<Head(todo[c])>>

ConnInv(c) ==
  /\ pc[c] \in {"idle", "aborted"} => Untouched(c)
  /\ pc[c] = "handle" => Begins(c)
  /\ pc[c] = "reply" /\ todo[c] # <<>> =>
       Begins(c) /\ OneDue(c) /\ Owes(c, Head(todo[c]).status)
  /\ pc[c] = "write" =>
       /\ Headed(c) /\ OneDue(c) /\ wire[c] = <<>> /\ c \notin gone
       /\ gz[c].zw # None => Buffer(c) = <<>>
  /\ pc[c] = "reply" /\ todo[c] = <<>> => Unclosed(c)
  /\ pc[c] = "close" => Unclosed(c) /\ gz[c].zw # None
  /\ pc[c] = "put" => Ended(c) /\ gz[c].zw # None
  /\ pc[c] = "done" => Ended(c)

ServerInv == ServerShapes /\ OneUser /\ \A c \in Conns : ConnInv(c)

-----------------------------------------------------------------------------
(***************************************************************************)
(* Its steps                                                               *)
(***************************************************************************)
LEMMA SmallTuples ==
  ASSUME NEW S, NEW x \in S, NEW y \in S
  PROVE  /\ <<x>> # <<>> /\ Head(<<x>>) = x /\ Tail(<<x>>) = <<>>
         /\ Append(<<>>, x) = <<x>> /\ Append(<<x>>, y) = <<x, y>>
         /\ <<>> \o <<x>> = <<x>> /\ <<x>> \o <<y>> = <<x, y>> /\ <<>> \o <<x, y>> = <<x, y>>
<1>. DEFINE appended == Append(<<x>>, y)
            joined == <<x>> \o <<y>>
            pair == <<x, y>>
<1>1. <<x>> \in Seq(S) /\ <<y>> \in Seq(S) /\ pair \in Seq(S) /\ Len(<<x>>) = 1 /\ Len(<<y>>) = 1
  OBVIOUS
<1>2. Len(pair) = 2 /\ pair[1] = x /\ pair[2] = y
  OBVIOUS
<1>3. appended \in Seq(S) /\ Len(appended) = 2 /\ appended[1] = x /\ appended[2] = y
  BY <1>1, AppendProperties
<1>4. joined \in Seq(S) /\ Len(joined) = 2 /\ joined[1] = x /\ joined[2] = y
  BY <1>1, ConcatProperties
<1>. HIDE DEF appended, joined, pair
<1>5. appended = pair /\ joined = pair
  BY <1>1, <1>2, <1>3, <1>4, SeqEqual
<1>6. Append(<<x>>, y) = <<x, y>> /\ <<x>> \o <<y>> = <<x, y>>
  BY <1>5 DEF appended, joined, pair
<1>7. <<x>> # <<>> /\ Head(<<x>>) = x /\ Tail(<<x>>) = <<>> /\ Append(<<>>, x) = <<x>>
  OBVIOUS
<1>8. <<>> \o <<x>> = <<x>>
  OBVIOUS
<1>9. <<>> \o <<x, y>> = <<x, y>>
  OBVIOUS
<1>. QED
  BY <1>6, <1>7, <1>8, <1>9

\* A connection no step touches, with its compressor, keeps what it has.
LEMMA Undisturbed ==
  ASSUME NEW d \in Conns, ConnInv(d),
         pc'[d] = pc[d], request'[d] = request[d], todo'[d] = todo[d], sent'[d] = sent[d],
         wire'[d] = wire[d], gz'[d] = gz[d], d \in gone' <=> d \in gone,
         Using(d) => held'[gz[d].zw] = held[gz[d].zw]
  PROVE  ConnInv(d)'
<1>1. /\ Untouched(d)' <=> Untouched(d)
      /\ Begins(d)' <=> Begins(d)
      /\ Headed(d)' <=> Headed(d)
      /\ OneDue(d)' <=> OneDue(d)
      /\ PlainSent(d)' <=> PlainSent(d)
      /\ Owes(d, Head(todo[d]).status)' <=> Owes(d, Head(todo[d]).status)
  BY DEF Untouched, Begins, Headed, Owes, OneDue, PlainSent, PlainPart
<1>2. Ended(d)' <=> Ended(d)
  BY <1>1 DEF Ended, PackedPart, PackedWhole
<1>3. CASE ~ Using(d)
  BY <1>1, <1>2, <1>3 DEF ConnInv, Unclosed, Using, Busy
<1>4. CASE Using(d)
  <2>1. Buffer(d)' = Buffer(d)
    BY <1>4 DEF Buffer
  <2>2. Unclosed(d)' <=> Unclosed(d)
    BY <1>1, <2>1 DEF Unclosed, PackedPart
  <2>. QED
    BY <1>1, <1>2, <2>1, <2>2 DEF ConnInv
<1>. QED
  BY <1>3, <1>4

\* No compressor comes into use, and none in use changes hands.
LEMMA UsersStay ==
  ASSUME OneUser,
         \A d \in Conns : Using(d)' =>
           /\ Using(d) /\ gz'[d] = gz[d] /\ gz[d].zw \notin pool'
           /\ held'[gz[d].zw].to = held[gz[d].zw].to
  PROVE  OneUser'
BY DEF OneUser

LEMMA InitServerInv == Init => ServerInv
BY DEF Init, ServerInv, ServerShapes, OneUser, ConnInv, Using, Busy, Untouched, Waiting, Fresh

LEMMA AcceptServerInv ==
  ASSUME ServerInv, NEW c \in Conns, Accept(c)
  PROVE  ServerInv'
<1>. USE DEF ServerInv
<1>1. /\ pc[c] \in Waiting /\ pc' = [pc EXCEPT ![c] = "handle"]
      /\ sent' = [sent EXCEPT ![c] = None] /\ wire' = [wire EXCEPT ![c] = <<>>]
      /\ gone' = gone \ {c} /\ gz' = [gz EXCEPT ![c] = Fresh]
      /\ UNCHANGED <<library, todo, held, pool, answer>>
  BY DEF Accept
<1>2. PICK r \in Requests[c] : request' = [request EXCEPT ![c] = r]
  BY DEF Accept
<1>3. r \in RequestSet
  BY ServerAssumption
<1>4. ServerShapes'
  BY <1>1, <1>2, <1>3 DEF ServerShapes, Fresh
<1>5. OneUser'
  BY <1>1, UsersStay DEF ServerShapes, OneUser, Using, Busy
<1>6. ConnInv(c)'
  BY <1>1, <1>2 DEF ServerShapes, ConnInv, Begins, Untouched
<1>7. ASSUME NEW d \in Conns, d # c
      PROVE  ConnInv(d)'
  BY <1>1, <1>2, <1>7, Undisturbed DEF ServerShapes
<1>. QED
  BY <1>4, <1>5, <1>6, <1>7

LEMMA HandledServerInv ==
  ASSUME ServerInv, NEW c \in Conns, pc[c] = "handle", NEW reply \in Replies,
         Owes(c, reply.status), Handled(c, <<reply>>),
         library' = None \/ library' \subseteq Entries
  PROVE  ServerInv'
<1>. USE DEF ServerInv
<1>1. /\ todo' = [todo EXCEPT ![c] = <<reply>>] /\ pc' = [pc EXCEPT ![c] = "reply"]
      /\ UNCHANGED <<request, sent, wire, gone, gz, held, pool>>
  BY DEF Handled
<1>2. ServerShapes'
  BY <1>1 DEF ServerShapes, Busy
<1>3. Begins(c)
  BY DEF ConnInv
<1>4. OneUser'
  BY <1>1, <1>3, UsersStay DEF ServerShapes, OneUser, Using, Busy, Begins, Fresh
<1>5. todo'[c] = <<reply>> /\ Head(todo'[c]) = reply /\ todo'[c] # <<>> /\ pc'[c] = "reply"
  BY <1>1, SmallTuples DEF ServerShapes
<1>6. Begins(c)' /\ OneDue(c)' /\ Owes(c, Head(todo[c]).status)'
  BY <1>1, <1>3, <1>5 DEF Begins, Untouched, OneDue, Owes
<1>7. ConnInv(c)'
  BY <1>5, <1>6 DEF ConnInv
<1>8. ASSUME NEW d \in Conns, d # c
      PROVE  ConnInv(d)'
  BY <1>1, <1>8, Undisturbed DEF ServerShapes
<1>. QED
  BY <1>2, <1>4, <1>7, <1>8

LEMMA ReplyTyped ==
  ASSUME NEW status \in Nat, NEW type \in MediaTypes, NEW length \in BOOLEAN
  PROVE  Reply(status, type, length) \in Replies /\ Reply(status, type, length).status = status
BY DEF Reply, Replies

LEMMA JsonTyped ==
  ASSUME NEW status \in Nat
  PROVE  Json(status) \in Replies /\ Json(status).status = status
<1>1. "json" \in MediaTypes /\ FALSE \in BOOLEAN
  BY DEF MediaTypes
<1>. QED
  BY <1>1, ReplyTyped DEF Json

\* Every handler has one reply to write, with the status the request is owed.
LEMMA PageServerInv ==
  ASSUME ServerInv, NEW c \in Conns, ServePage(c)
  PROVE  ServerInv'
<1>. USE DEF ServerInv
<1>1. /\ pc[c] = "handle" /\ request[c].path # "discover"
      /\ Handled(c, PageReplies(request[c].path)) /\ library' = library
  BY DEF ServePage
<1>2. request[c] \in RequestSet
  BY <1>1, ServerAssumption DEF ConnInv, Begins
<1>3. request[c].path \in {"index", "missing", "healthz", "styles.css", "image"}
  BY <1>1, <1>2 DEF RequestSet
<1>4. PICK reply \in Replies : PageReplies(request[c].path) = <<reply>>
  <2>1. /\ Reply(200, "html", FALSE) \in Replies /\ Reply(404, "html", FALSE) \in Replies
        /\ Reply(200, "plain", FALSE) \in Replies /\ Reply(200, "css", TRUE) \in Replies
        /\ Reply(200, "png", TRUE) \in Replies
    <3>1. "html" \in MediaTypes /\ "plain" \in MediaTypes /\ "css" \in MediaTypes /\ "png" \in MediaTypes
      BY DEF MediaTypes
    <3>2. FALSE \in BOOLEAN /\ TRUE \in BOOLEAN /\ 200 \in Nat /\ 404 \in Nat
      OBVIOUS
    <3>3. Reply(200, "html", FALSE) \in Replies
      BY ONLY <3>1, <3>2, ReplyTyped, ZenonT(60)
    <3>4. Reply(404, "html", FALSE) \in Replies
      BY ONLY <3>1, <3>2, ReplyTyped, ZenonT(60)
    <3>5. Reply(200, "plain", FALSE) \in Replies
      BY ONLY <3>1, <3>2, ReplyTyped, ZenonT(60)
    <3>6. Reply(200, "css", TRUE) \in Replies
      BY ONLY <3>1, <3>2, ReplyTyped, ZenonT(60)
    <3>7. Reply(200, "png", TRUE) \in Replies
      BY ONLY <3>1, <3>2, ReplyTyped, ZenonT(60)
    <3>. QED
      BY <3>3, <3>4, <3>5, <3>6, <3>7
  <2>. DEFINE path == request[c].path
  <2>2. path = "index" => PageReplies(path) = <<Reply(200, "html", FALSE)>>
    BY DEF PageReplies
  <2>3. path = "missing" => PageReplies(path) = <<Reply(404, "html", FALSE)>>
    BY DEF PageReplies
  <2>4. path = "healthz" => PageReplies(path) = <<Reply(200, "plain", FALSE)>>
    BY DEF PageReplies
  <2>5. path = "styles.css" => PageReplies(path) = <<Reply(200, "css", TRUE)>>
    BY DEF PageReplies
  <2>6. path = "image" => PageReplies(path) = <<Reply(200, "png", TRUE)>>
    BY DEF PageReplies
  <2>. HIDE DEF path
  <2>7. path \in {"index", "missing", "healthz", "styles.css", "image"}
    BY <1>3 DEF path
  <2>8. \E reply \in Replies : PageReplies(path) = <<reply>>
    BY ONLY <2>1, <2>2, <2>3, <2>4, <2>5, <2>6, <2>7, ZenonT(60)
  <2>. QED
    BY <2>8 DEF path
<1>. QED
  BY <1>1, <1>4, HandledServerInv DEF Owes, ServerShapes

LEMMA RefusedOrAccepted ==
  ASSUME NEW c \in Conns, request[c] \in Requests[c], request[c].path = "discover"
  PROVE  /\ Refusals(request[c]) = <<>> => Accepted(request[c])
         /\ Refusals(request[c]) # <<>> =>
              \E reply \in Replies :
                Refusals(request[c]) = <<reply>> /\ Owes(c, reply.status)
<1>. DEFINE r == request[c]
<1>1. r \in RequestSet /\ (r.method = "POST" => r.body # "none") /\ r.text \in Seq(LineKinds)
  BY ServerAssumption DEF RequestSet
<1>2. NoContent(r.text) <=> ~ HasLogs(r.text)
  BY <1>1, ContentIsLogs
<1>3. \A status \in {400, 405, 413} :
        Json(status) \in Replies /\ Json(status).status = status /\ status # 200
  BY JsonTyped
<1>4. CASE r.method # "POST"
  <2>1. Refusals(r) = <<Json(405)>> /\ ~ Accepted(r)
    BY <1>4 DEF Refusals, Accepted
  <2>. QED
    BY <1>3, <2>1 DEF Owes
<1>5. CASE r.method = "POST" /\ r.body = "too large"
  <2>1. Refusals(r) = <<Json(413)>> /\ ~ Accepted(r)
    BY <1>5 DEF Refusals, Accepted
  <2>. QED
    BY <1>3, <2>1 DEF Owes
<1>6. CASE r.method = "POST" /\ r.body \in {"cut off", "not UTF-8", "not JSON"}
  <2>1. Refusals(r) = <<Json(400)>> /\ ~ Accepted(r)
    BY ZenonT(60), <1>6 DEF Refusals, Accepted
  <2>. QED
    BY <1>3, <2>1 DEF Owes
<1>7. CASE r.method = "POST" /\ r.body = "json" /\ NoContent(r.text)
  <2>1. Refusals(r) = <<Json(400)>> /\ ~ Accepted(r)
    BY <1>2, <1>7 DEF Refusals, Accepted
  <2>. QED
    BY <1>3, <2>1 DEF Owes
<1>8. CASE r.method = "POST" /\ r.body = "json" /\ ~ NoContent(r.text)
  BY <1>2, <1>8 DEF Refusals, Accepted
<1>. QED
  BY <1>1, <1>4, <1>5, <1>6, <1>7, <1>8 DEF RequestSet

LEMMA DiscoverServerInv ==
  ASSUME ServerInv, NEW c \in Conns, RefuseDiscover(c) \/ RunDiscover(c)
  PROVE  ServerInv'
<1>. USE DEF ServerInv
<1>1. /\ pc[c] = "handle" /\ request[c].path = "discover"
      /\ request[c] \in Requests[c]
  BY DEF RefuseDiscover, RunDiscover, ConnInv, Begins
<1>2. CASE RefuseDiscover(c)
  <2>1. PICK reply \in Replies :
          Refusals(request[c]) = <<reply>> /\ Owes(c, reply.status)
    BY <1>1, <1>2, RefusedOrAccepted DEF RefuseDiscover
  <2>. QED
    BY <1>1, <1>2, <2>1, HandledServerInv DEF RefuseDiscover, ServerShapes
<1>3. CASE RunDiscover(c)
  <2>1. Refusals(request[c]) = <<>> /\ library' = Compiled /\ Handled(c, <<Json(200)>>)
    BY <1>3 DEF RunDiscover
  <2>2. Json(200) \in Replies /\ Json(200).status = 200
    BY JsonTyped
  <2>3. Owes(c, Json(200).status)
    BY <1>1, <2>1, <2>2, RefusedOrAccepted DEF Owes
  <2>4. library' \subseteq Entries
    BY <2>1 DEF Compiled
  <2>. QED
    BY <1>1, <2>1, <2>2, <2>3, <2>4, HandledServerInv
<1>. QED
  BY <1>2, <1>3

LEMMA PanicServerInv ==
  ASSUME ServerInv, NEW c \in Conns, DiscoverPanics(c)
  PROVE  ServerInv'
<1>. USE DEF ServerInv
<1>1. /\ pc[c] = "handle" /\ library' = Compiled /\ pc' = [pc EXCEPT ![c] = "aborted"]
      /\ UNCHANGED <<request, todo, sent, wire, gone, gz, held, pool>>
  BY DEF DiscoverPanics
<1>2. ServerShapes'
  BY <1>1 DEF ServerShapes, Waiting, Compiled
<1>3. OneUser'
  BY <1>1, UsersStay DEF ServerShapes, OneUser, Using, Busy
<1>4. ConnInv(c)'
  BY <1>1 DEF ServerShapes, ConnInv, Begins, Untouched
<1>5. ASSUME NEW d \in Conns, d # c
      PROVE  ConnInv(d)'
  BY <1>1, <1>5, Undisturbed DEF ServerShapes
<1>. QED
  BY <1>2, <1>3, <1>4, <1>5

LEMMA HeaderTyped ==
  ASSUME NEW reply \in Replies, NEW coding \in {"gzip", None}
  PROVE  LET header == Header(reply, coding) IN
         /\ header \in Headers /\ header.status = reply.status /\ header.encoding = coding
         /\ coding = "gzip" => ~ header.length
BY ServerAssumption DEF Header, Headers, Replies

\* What a connection has once its header left.
LEMMA HeaderSent ==
  ASSUME ServerInv, NEW c \in Conns, pc[c] = "reply", todo[c] # <<>>,
         NEW coding \in {"gzip", None}, SendHeader(c, coding),
         coding = "gzip" => request[c].gzip
  PROVE  /\ sent' \in [Conns -> Headers \cup {None}] /\ pc' \in [Conns -> Waiting \cup {"handle"} \cup Busy]
         /\ pc'[c] = "write" /\ sent'[c] \in Headers /\ Owes(c, sent[c].status)'
         /\ sent'[c].encoding = coding /\ (coding = "gzip" => ~ sent'[c].length)
         /\ OneDue(c)'
         /\ \A d \in Conns \ {c} : pc'[d] = pc[d] /\ sent'[d] = sent[d]
<1>. USE DEF ServerInv
<1>. DEFINE reply == Head(todo[c])
            header == Header(reply, coding)
<1>1. Begins(c) /\ OneDue(c) /\ Owes(c, reply.status)
  BY DEF ConnInv
<1>2. /\ header \in Headers /\ header.status = reply.status /\ header.encoding = coding
      /\ coding = "gzip" => ~ header.length
  BY <1>1, HeaderTyped DEF OneDue
<1>. HIDE DEF header
<1>3. /\ sent' = [sent EXCEPT ![c] = header] /\ pc' = [pc EXCEPT ![c] = "write"]
      /\ UNCHANGED <<request, todo>>
  BY <1>1 DEF SendHeader, ServerShapes, Begins, Untouched, header
<1>4. sent'[c] = header /\ pc'[c] = "write"
  BY <1>3 DEF ServerShapes
<1>5. Owes(c, sent[c].status)' /\ OneDue(c)'
  BY <1>1, <1>2, <1>3, <1>4 DEF Owes, OneDue
<1>. QED
  BY <1>2, <1>3, <1>4, <1>5 DEF ServerShapes, Busy

LEMMA WriteHeaderServerInv ==
  ASSUME ServerInv, NEW c \in Conns, WriteHeader(c)
  PROVE  ServerInv'
<1>. USE DEF ServerInv
<1>1. /\ pc[c] = "reply" /\ todo[c] # <<>>
      /\ gz[c].started = FALSE /\ gz[c].zw = None
      /\ request[c] \in Requests[c] /\ wire[c] = <<>> /\ c \notin gone
  BY DEF WriteHeader, ConnInv, Begins, Untouched, Fresh
<1>2. "gzip" \in {"gzip", None} /\ None \in {"gzip", None} /\ None # "gzip" /\ None \notin Compressors
  BY ServerAssumption
<1>3. CASE request[c].gzip /\ Compressible(Head(todo[c]).type)
  <2>1. PICK z \in pool \cup Unused :
          /\ pool' = pool \ {z}
          /\ gz' = [gz EXCEPT ![c] = [started |-> TRUE, zw |-> z]]
          /\ held' = [held EXCEPT ![z] = [to |-> c, buffer |-> <<>>]]
    BY <1>1, <1>3 DEF WriteHeader
  <2>2. SendHeader(c, "gzip") /\ UNCHANGED <<library, request, todo, wire, gone>>
    BY <1>1, <1>3 DEF WriteHeader, SendHeader
  <2>3. /\ sent' \in [Conns -> Headers \cup {None}] /\ pc' \in [Conns -> Waiting \cup {"handle"} \cup Busy]
        /\ pc'[c] = "write" /\ sent'[c] \in Headers /\ Owes(c, sent[c].status)'
        /\ sent'[c].encoding = "gzip" /\ ~ sent'[c].length /\ OneDue(c)'
        /\ \A d \in Conns \ {c} : pc'[d] = pc[d] /\ sent'[d] = sent[d]
    BY <1>1, <1>2, <1>3, <2>2, HeaderSent
  <2>4. z \in Compressors /\ z # None /\ \A d \in Conns : Using(d) => gz[d].zw # z
    BY <1>2 DEF Unused, OneUser, ServerShapes
  <2>5. gz'[c] = [started |-> TRUE, zw |-> z] /\ held'[z] = [to |-> c, buffer |-> <<>>]
    BY <2>1, <2>4 DEF ServerShapes
  <2>6. ServerShapes'
    BY <2>1, <2>2, <2>3, <2>4 DEF ServerShapes
  <2>7. \A d \in Conns \ {c} : (Using(d)' <=> Using(d)) /\ gz'[d] = gz[d]
    BY <2>1, <2>3 DEF Using, ServerShapes
  <2>8. \A d \in Conns : Using(d) => held'[gz[d].zw] = held[gz[d].zw]
    BY <2>1, <2>4 DEF ServerShapes, Using
  <2>9. OneUser'
    <3>1. ASSUME NEW d \in Conns \ {c}, Using(d)'
          PROVE  /\ gz'[d].zw \notin pool' /\ held'[gz'[d].zw].to = d /\ gz'[d].zw # z
                 /\ \A e \in Conns \ {d} : Using(e)' => gz'[e].zw # gz'[d].zw
      BY <2>1, <2>4, <2>5, <2>7, <2>8, <3>1 DEF OneUser
    <3>2. z \notin pool' /\ held'[z].to = c /\ gz'[c].zw = z
      BY <2>1, <2>5
    <3>. QED
      BY <3>1, <3>2 DEF OneUser
  <2>10. ConnInv(c)'
    <3>1. Headed(c)'
      BY <1>1, <1>3, <2>2, <2>3, <2>4, <2>5 DEF Headed
    <3>2. Buffer(c)' = <<>>
      BY <2>5 DEF Buffer
    <3>3. pc'[c] = "write" /\ OneDue(c)' /\ wire'[c] = <<>> /\ c \notin gone'
      BY <1>1, <2>2, <2>3
    <3>. QED
      BY <3>1, <3>2, <3>3 DEF ConnInv
  <2>11. ASSUME NEW d \in Conns, d # c
         PROVE  ConnInv(d)'
    BY <2>2, <2>3, <2>7, <2>8, <2>11, Undisturbed
  <2>. QED
    BY <2>6, <2>9, <2>10, <2>11
<1>4. CASE ~ (request[c].gzip /\ Compressible(Head(todo[c]).type))
  <2>1. /\ gz' = [gz EXCEPT ![c].started = @ \/ (request[c].gzip /\ ~ gz[c].started)]
        /\ SendHeader(c, None) /\ UNCHANGED <<held, pool>>
    BY <1>1, <1>4 DEF WriteHeader
  <2>2. UNCHANGED <<library, request, todo, wire, gone>>
    BY <2>1 DEF SendHeader
  <2>3. /\ sent' \in [Conns -> Headers \cup {None}] /\ pc' \in [Conns -> Waiting \cup {"handle"} \cup Busy]
        /\ pc'[c] = "write" /\ sent'[c] \in Headers /\ Owes(c, sent[c].status)'
        /\ sent'[c].encoding = None /\ OneDue(c)'
        /\ \A d \in Conns \ {c} : pc'[d] = pc[d] /\ sent'[d] = sent[d]
    BY <1>1, <1>2, <2>1, HeaderSent
  <2>4. request[c].gzip \in BOOLEAN
    BY <1>1, ServerAssumption DEF RequestSet
  <2>5. /\ gz' \in [Conns -> [started : BOOLEAN, zw : Compressors \cup {None}]]
        /\ gz'[c].zw = None
        /\ \A d \in Conns \ {c} : gz'[d] = gz[d]
    BY <1>1, <2>1, <2>4 DEF ServerShapes
  <2>6. ServerShapes'
    BY <2>1, <2>2, <2>3, <2>5 DEF ServerShapes
  <2>7. OneUser'
    BY <2>1, <2>3, <2>5, UsersStay DEF OneUser, Using
  <2>8. ConnInv(c)'
    <3>1. Headed(c)'
      BY <1>1, <1>2, <2>2, <2>3, <2>5 DEF Headed
    <3>2. pc'[c] = "write" /\ OneDue(c)' /\ wire'[c] = <<>> /\ c \notin gone' /\ gz'[c].zw = None
      BY <1>1, <2>2, <2>3, <2>5
    <3>. QED
      BY <3>1, <3>2 DEF ConnInv
  <2>9. ASSUME NEW d \in Conns, d # c
        PROVE  ConnInv(d)'
    BY <2>1, <2>2, <2>3, <2>5, <2>9, Undisturbed
  <2>. QED
    BY <2>6, <2>7, <2>8, <2>9
<1>. QED
  BY <1>3, <1>4

LEMMA ArrivesOrLost ==
  ASSUME ServerShapes, NEW c \in Conns, NEW chunks, Arrives(c, chunks)
  PROVE  /\ DOMAIN wire' = Conns /\ gone' \in SUBSET Conns
         /\ \A d \in Conns \ {c} : wire'[d] = wire[d] /\ (d \in gone' <=> d \in gone)
         /\ \/ c \notin gone /\ c \notin gone' /\ wire'[c] = wire[c] \o chunks
            \/ c \in gone' /\ wire'[c] = wire[c]
BY DEF Arrives, ServerShapes

\* A document is written once, with nothing before it.
LEMMA WriteServerInv ==
  ASSUME ServerInv, NEW c \in Conns, Write(c)
  PROVE  ServerInv'
<1>. USE DEF ServerInv
<1>. DEFINE z == gz[c].zw
            S == {Chunk(c, "plain"), Chunk(c, "gzip"), Chunk(c, "end")}
<1>1. /\ pc[c] = "write" /\ Headed(c) /\ OneDue(c) /\ wire[c] = <<>> /\ c \notin gone
      /\ z # None => Buffer(c) = <<>>
  BY DEF Write, ConnInv
<1>2. /\ todo' = [todo EXCEPT ![c] = Tail(@)] /\ pc' = [pc EXCEPT ![c] = "reply"]
      /\ UNCHANGED <<library, request, sent, gz, pool, answer>>
  BY DEF Write
<1>3. todo'[c] = <<>> /\ pc'[c] = "reply"
  <2>1. Tail(todo[c]) = <<>>
    BY <1>1, SmallTuples DEF OneDue
  <2>. QED
    BY <1>2, <2>1 DEF ServerShapes
<1>4. /\ <<>> \o PlainPart(c) = PlainPart(c) /\ <<>> \o PackedPart(c) = PackedPart(c)
      /\ Append(<<>>, Chunk(c, "gzip")) = PackedPart(c)
  BY SmallTuples DEF PlainPart, PackedPart
<1>5. /\ ServerShapes'
      /\ \A d \in Conns \ {c} : wire'[d] = wire[d] /\ (d \in gone' <=> d \in gone)
      /\ \A d \in Conns : Using(d) => held'[gz[d].zw].to = held[gz[d].zw].to
      /\ \A d \in Conns \ {c} : Using(d) => held'[gz[d].zw] = held[gz[d].zw]
      /\ Unclosed(c)'
  <2>1. Headed(c)'
    BY <1>1, <1>2 DEF Headed, Owes
  <2>2. CASE z = None
    <3>1. Arrives(c, PlainPart(c)) /\ held' = held
      BY <2>2 DEF Write, PlainPart
    <3>2. /\ DOMAIN wire' = Conns /\ gone' \in SUBSET Conns
          /\ \A d \in Conns \ {c} : wire'[d] = wire[d] /\ (d \in gone' <=> d \in gone)
          /\ \/ wire'[c] = PlainPart(c)
             \/ c \in gone' /\ wire'[c] = <<>>
      BY <1>1, <1>4, <3>1, ArrivesOrLost
    <3>3. ServerShapes'
      BY <1>2, <3>1, <3>2 DEF ServerShapes, Busy
    <3>4. Unclosed(c)'
      BY <1>2, <2>1, <2>2, <3>2 DEF Unclosed, PlainSent, PlainPart
    <3>. QED
      BY <3>1, <3>2, <3>3, <3>4
  <2>3. CASE z # None
    <3>1. z \in Compressors /\ Using(c) /\ held[z].to = c
      BY <1>1, <2>3 DEF ServerShapes, Using, Busy, OneUser
    <3>2. \A d \in Conns \ {c} : Using(d) => gz[d].zw # z
      BY <3>1 DEF OneUser
    <3>3. Append(held[z].buffer, Chunk(c, "gzip")) = PackedPart(c)
      BY <1>1, <1>4, <2>3 DEF Buffer
    <3>4. CASE held' = [held EXCEPT ![z].buffer = PackedPart(c)] /\ UNCHANGED <<wire, gone>>
      <4>1. held'[z].buffer = PackedPart(c) /\ held'[z].to = held[z].to
        BY <3>1, <3>4 DEF ServerShapes
      <4>2. ServerShapes'
        BY <1>2, <3>1, <3>4 DEF ServerShapes, Busy
      <4>3. \A d \in Conns : Using(d) => held'[gz[d].zw].to = held[gz[d].zw].to
        BY <3>1, <3>4 DEF ServerShapes, Using
      <4>4. \A d \in Conns \ {c} : Using(d) => held'[gz[d].zw] = held[gz[d].zw]
        BY <3>1, <3>2, <3>4 DEF ServerShapes, Using
      <4>5. wire'[c] = <<>> /\ Buffer(c)' = PackedPart(c) /\ gz'[c].zw # None
        BY <1>1, <1>2, <2>3, <3>4, <4>1 DEF Buffer
      <4>6. Unclosed(c)'
        BY <2>1, <4>5 DEF Unclosed, PackedPart
      <4>. QED
        BY <3>4, <4>2, <4>3, <4>4, <4>6
    <3>5. CASE held' = [held EXCEPT ![z].buffer = <<>>] /\ Arrives(c, PackedPart(c))
      <4>1. held'[z].buffer = <<>> /\ held'[z].to = held[z].to
        BY <3>1, <3>5 DEF ServerShapes
      <4>2. /\ DOMAIN wire' = Conns /\ gone' \in SUBSET Conns
            /\ \A d \in Conns \ {c} : wire'[d] = wire[d] /\ (d \in gone' <=> d \in gone)
            /\ \/ wire'[c] = PackedPart(c)
               \/ c \in gone' /\ wire'[c] = <<>>
        BY <1>1, <1>4, <3>5, ArrivesOrLost
      <4>3. ServerShapes'
        BY <1>2, <3>1, <3>5, <4>2 DEF ServerShapes, Busy
      <4>4. \A d \in Conns : Using(d) => held'[gz[d].zw].to = held[gz[d].zw].to
        BY <3>1, <3>5 DEF ServerShapes, Using
      <4>5. \A d \in Conns \ {c} : Using(d) => held'[gz[d].zw] = held[gz[d].zw]
        BY <3>1, <3>2, <3>5 DEF ServerShapes, Using
      <4>6. Buffer(c)' = <<>> /\ gz'[c].zw # None
        BY <1>2, <2>3, <4>1 DEF Buffer
      <4>7. Unclosed(c)'
        BY <2>1, <4>2, <4>6 DEF Unclosed, PackedPart
      <4>. QED
        BY <4>2, <4>3, <4>4, <4>5, <4>7
    <3>. QED
      BY <2>3, <3>1, <3>3, <3>4, <3>5 DEF Write
  <2>. QED
    BY <2>2, <2>3
<1>6. OneUser'
  BY <1>1, <1>2, <1>5, UsersStay DEF OneUser, Using, Busy, ServerShapes
<1>7. ConnInv(c)'
  BY <1>3, <1>5 DEF ConnInv
<1>8. ASSUME NEW d \in Conns, d # c
      PROVE  ConnInv(d)'
  <2>1. pc'[d] = pc[d] /\ todo'[d] = todo[d]
    BY <1>2, <1>8 DEF ServerShapes
  <2>. QED
    BY <1>2, <1>5, <1>8, <2>1, Undisturbed
<1>. QED
  BY <1>5, <1>6, <1>7, <1>8

LEMMA ReturnServerInv ==
  ASSUME ServerInv, NEW c \in Conns, Return(c)
  PROVE  ServerInv'
<1>. USE DEF ServerInv
<1>1. /\ pc[c] = "reply" /\ todo[c] = <<>>
      /\ pc' = [pc EXCEPT ![c] = IF gz[c].zw = None THEN "done" ELSE "close"]
      /\ UNCHANGED <<library, request, todo, sent, wire, gone, gz, held, pool, answer>>
  BY DEF Return, CloseOrder
<1>2. Unclosed(c)
  BY <1>1 DEF ConnInv
<1>3. ServerShapes'
  BY <1>1 DEF ServerShapes, Waiting, Busy
<1>4. pc'[c] = IF gz[c].zw = None THEN "done" ELSE "close"
  BY <1>1 DEF ServerShapes
<1>5. OneUser'
  BY <1>1, UsersStay DEF ServerShapes, OneUser, Using, Busy
<1>6. /\ Unclosed(c)' <=> Unclosed(c)
      /\ Ended(c)' <=> Ended(c)
  BY <1>1 DEF Unclosed, Ended, Headed, Owes, PlainSent, PlainPart, Buffer, PackedPart, PackedWhole
<1>7. gz[c].zw = None => Ended(c)
  BY <1>2 DEF Unclosed, Ended
<1>8. ConnInv(c)'
  BY <1>1, <1>2, <1>4, <1>6, <1>7 DEF ConnInv
<1>9. ASSUME NEW d \in Conns, d # c
      PROVE  ConnInv(d)'
  BY <1>1, <1>9, Undisturbed DEF ServerShapes
<1>. QED
  BY <1>3, <1>5, <1>8, <1>9

\* What the compressor held back arrives before its end.
LEMMA CloseServerInv ==
  ASSUME ServerInv, NEW c \in Conns, CloseCompressor(c)
  PROVE  ServerInv'
<1>. USE DEF ServerInv
<1>. DEFINE z == gz[c].zw
            end == Chunk(c, "end")
<1>1. pc[c] = "close" /\ Unclosed(c) /\ z # None
  BY DEF CloseCompressor, ConnInv
<1>2. z \in Compressors /\ Using(c) /\ held[z].to = c /\ z \notin pool
  BY <1>1 DEF ServerShapes, Using, Busy, OneUser
<1>3. /\ Arrives(c, Append(Buffer(c), end))
      /\ held' = [held EXCEPT ![z].buffer = <<>>] /\ pc' = [pc EXCEPT ![c] = "put"]
      /\ UNCHANGED <<library, request, todo, sent, gz, pool, answer>>
  BY <1>2 DEF CloseCompressor, AfterClosing, CloseOrder, Buffer
<1>4. /\ DOMAIN wire' = Conns /\ gone' \in SUBSET Conns
      /\ \A d \in Conns \ {c} : wire'[d] = wire[d] /\ (d \in gone' <=> d \in gone)
      /\ \/ c \notin gone /\ c \notin gone' /\ wire'[c] = wire[c] \o Append(Buffer(c), end)
         \/ c \in gone' /\ wire'[c] = wire[c]
  BY <1>3, ArrivesOrLost
<1>5. Headed(c)'
  BY <1>1, <1>3 DEF Unclosed, Headed, Owes
<1>6. Ended(c)'
  <2>1. /\ Append(<<>>, end) = <<end>> /\ PackedPart(c) \o <<end>> = PackedWhole(c)
        /\ Append(PackedPart(c), end) = PackedWhole(c) /\ <<>> \o PackedWhole(c) = PackedWhole(c)
    <3>. DEFINE chunk == Chunk(c, "gzip")
    <3>1. end \in {end, chunk} /\ chunk \in {end, chunk}
      OBVIOUS
    <3>. HIDE DEF end, chunk
    <3>2. /\ Append(<<>>, end) = <<end>> /\ <<chunk>> \o <<end>> = <<chunk, end>>
          /\ Append(<<chunk>>, end) = <<chunk, end>> /\ <<>> \o <<chunk, end>> = <<chunk, end>>
      BY <3>1, SmallTuples
    <3>. QED
      BY <3>2 DEF end, chunk, PackedPart, PackedWhole
  <2>. HIDE DEF end
  <2>2. \/ wire[c] = <<>> /\ Buffer(c) = PackedPart(c)
        \/ wire[c] = PackedPart(c) /\ Buffer(c) = <<>>
        \/ c \in gone /\ wire[c] = <<>> /\ Buffer(c) = <<>>
    BY <1>1 DEF Unclosed
  <2>3. \/ wire'[c] = PackedWhole(c)
        \/ c \in gone' /\ wire'[c] \in {<<>>, PackedPart(c)}
    BY <1>4, <2>1, <2>2
  <2>. QED
    BY <1>1, <1>3, <1>5, <2>3 DEF Ended, PackedWhole, PackedPart
<1>7. ServerShapes'
  BY <1>2, <1>3, <1>4 DEF ServerShapes, Busy
<1>8. OneUser'
  <2>1. \A d \in Conns : Using(d) => held'[gz[d].zw].to = held[gz[d].zw].to
    BY <1>2, <1>3 DEF ServerShapes, Using
  <2>. QED
    BY <1>2, <1>3, <2>1, UsersStay DEF ServerShapes, OneUser, Using, Busy
<1>9. ConnInv(c)'
  BY <1>1, <1>3, <1>6 DEF ConnInv, ServerShapes
<1>10. ASSUME NEW d \in Conns, d # c
       PROVE  ConnInv(d)'
  <2>1. Using(d) => held'[gz[d].zw] = held[gz[d].zw]
    BY <1>2, <1>3, <1>10 DEF ServerShapes, Using, OneUser
  <2>2. pc'[d] = pc[d]
    BY <1>3, <1>10 DEF ServerShapes
  <2>. QED
    BY <1>3, <1>4, <1>10, <2>1, <2>2, Undisturbed
<1>. QED
  BY <1>7, <1>8, <1>9, <1>10

LEMMA PutServerInv ==
  ASSUME ServerInv, NEW c \in Conns, PutCompressor(c)
  PROVE  ServerInv'
<1>. USE DEF ServerInv
<1>. DEFINE z == gz[c].zw
<1>1. /\ pc[c] = "put" /\ pool' = pool \cup {z} /\ pc' = [pc EXCEPT ![c] = "done"]
      /\ UNCHANGED <<library, request, todo, sent, wire, gone, gz, held, answer>>
  BY DEF PutCompressor, AfterClosing, CloseOrder
<1>2. Ended(c) /\ z \in Compressors /\ Using(c)
  BY <1>1 DEF ConnInv, ServerShapes, Using, Busy
<1>3. ServerShapes'
  BY <1>1, <1>2 DEF ServerShapes, Waiting
<1>4. OneUser'
  BY <1>1, <1>2, UsersStay DEF ServerShapes, OneUser, Using, Busy
<1>5. Ended(c)'
  BY <1>1, <1>2 DEF Ended, Headed, Owes, PlainSent, PlainPart, PackedPart, PackedWhole
<1>6. ConnInv(c)'
  BY <1>1, <1>5 DEF ConnInv, ServerShapes
<1>7. ASSUME NEW d \in Conns, d # c
      PROVE  ConnInv(d)'
  BY <1>1, <1>7, Undisturbed DEF ServerShapes
<1>. QED
  BY <1>3, <1>4, <1>6, <1>7

LEMMA IdleServerInv ==
  ASSUME ServerInv, Collect \/ UNCHANGED vars
  PROVE  ServerInv'
<1>. USE DEF ServerInv
<1>1. pool' \in SUBSET pool /\ UNCHANGED <<library, pc, request, todo, sent, wire, gone, gz, held>>
  BY DEF Collect, vars
<1>2. ServerShapes'
  BY <1>1 DEF ServerShapes
<1>3. OneUser'
  BY <1>1, UsersStay DEF OneUser, Using
<1>4. ASSUME NEW d \in Conns
      PROVE  ConnInv(d)'
  BY <1>1, <1>4, Undisturbed
<1>. QED
  BY <1>2, <1>3, <1>4

-----------------------------------------------------------------------------
(***************************************************************************)
(* The theorems about the server                                           *)
(***************************************************************************)
\* In every reachable state a connection has sent what the step its goroutine
\* is at lets it have sent, and a compressor has one user
\* (server.go 44-121, middleware.go 62-130).
THEOREM ServerInvariant == Spec => []ServerInv
<1>1. Init => ServerInv
  BY InitServerInv
<1>2. ServerInv /\ [Next]_vars => ServerInv'
  <2>. SUFFICES ASSUME ServerInv, [Next]_vars
                PROVE  ServerInv'
    OBVIOUS
  <2>1. ASSUME NEW c \in Conns, ConnStep(c)
        PROVE  ServerInv'
    BY <2>1, AcceptServerInv, PageServerInv, DiscoverServerInv, PanicServerInv,
       WriteHeaderServerInv, WriteServerInv, ReturnServerInv, CloseServerInv, PutServerInv
       DEF ConnStep
  <2>. QED
    BY <2>1, IdleServerInv DEF Next
<1>. QED
  BY <1>1, <1>2, PTL DEF Spec

\* Where a connection is, of what is on its wire.
LEMMA OnTheWire ==
  ASSUME ServerInv, NEW c \in Conns
  PROVE  /\ wire[c] \in {<<>>, PlainPart(c), PackedPart(c), PackedWhole(c)}
         /\ sent[c] # None => /\ Headed(c)
                              /\ wire[c] \in IF sent[c].encoding = "gzip"
                                             THEN {<<>>, PackedPart(c), PackedWhole(c)}
                                             ELSE {<<>>, PlainPart(c)}
<1>1. pc[c] \in {"idle", "done", "aborted", "handle", "reply", "write", "close", "put"} /\ ConnInv(c)
  BY DEF ServerInv, ServerShapes, Waiting, Busy
<1>2. \/ Untouched(c)
      \/ Headed(c) /\ wire[c] = <<>>
      \/ Unclosed(c)
      \/ Ended(c)
  BY <1>1 DEF ConnInv, Begins
<1>3. CASE Untouched(c)
  BY <1>3 DEF Untouched
<1>4. CASE Headed(c) /\ wire[c] = <<>>
  BY <1>4
<1>5. CASE Unclosed(c)
  BY <1>5 DEF Unclosed, Headed, PlainSent
<1>6. CASE Ended(c)
  BY <1>6 DEF Ended, Headed, PlainSent
<1>. QED
  BY <1>2, <1>3, <1>4, <1>5, <1>6

LEMMA ForeignBytesNever == ServerInv => NoForeignBytes
<1>. SUFFICES ASSUME ServerInv, NEW c \in Conns, NEW k \in DOMAIN wire[c]
              PROVE  wire[c][k].of = c
  BY DEF NoForeignBytes
<1>1. wire[c] \in {<<>>, PlainPart(c), PackedPart(c), PackedWhole(c)}
  BY OnTheWire
<1>. QED
  BY <1>1 DEF PlainPart, PackedPart, PackedWhole, Chunk

LEMMA CodedAsDeclared == ServerInv => AsDeclared
<1>. SUFFICES ASSUME ServerInv, NEW c \in Conns, sent[c] # None
              PROVE  /\ sent[c].encoding = "gzip" => request[c].gzip /\ ~sent[c].length
                     /\ \A k \in DOMAIN wire[c] :
                          wire[c][k].coding \in IF sent[c].encoding = "gzip"
                                                THEN {"gzip", "end"} ELSE {"plain"}
  BY DEF AsDeclared
<1>1. /\ Headed(c)
      /\ wire[c] \in IF sent[c].encoding = "gzip"
                     THEN {<<>>, PackedPart(c), PackedWhole(c)} ELSE {<<>>, PlainPart(c)}
  BY OnTheWire
<1>2. sent[c].encoding = "gzip" => request[c].gzip /\ ~sent[c].length
  BY <1>1 DEF Headed
<1>3. CASE sent[c].encoding = "gzip"
  BY <1>1, <1>2, <1>3 DEF PackedPart, PackedWhole, Chunk
<1>4. CASE sent[c].encoding # "gzip"
  BY <1>1, <1>4 DEF PlainPart, Chunk
<1>. QED
  BY <1>2, <1>3, <1>4

LEMMA RepliesWhole == ServerInv => OneWholeReply
<1>. SUFFICES ASSUME ServerInv, NEW c \in Conns, pc[c] = "done", c \notin gone
              PROVE  /\ [k \in DOMAIN wire[c] |-> wire[c][k].coding] =
                          IF sent[c].encoding = "gzip" THEN <<"gzip", "end">> ELSE <<"plain">>
                     /\ request[c].path = "discover" =>
                          (sent[c].status = 200 <=>
                             /\ request[c].method = "POST" /\ request[c].body = "json"
                             /\ HasLogs(request[c].text))
  BY DEF OneWholeReply
<1>1. Ended(c) /\ Headed(c)
  BY DEF ServerInv, ConnInv, Ended
<1>2. wire[c] = IF sent[c].encoding = "gzip" THEN PackedWhole(c) ELSE PlainPart(c)
  BY <1>1 DEF Ended, Headed, PlainSent
<1>3. [k \in DOMAIN PackedWhole(c) |-> PackedWhole(c)[k].coding] = <<"gzip", "end">>
  BY DEF PackedWhole, Chunk
<1>4. [k \in DOMAIN PlainPart(c) |-> PlainPart(c)[k].coding] = <<"plain">>
  BY DEF PlainPart, Chunk
<1>5. [k \in DOMAIN wire[c] |-> wire[c][k].coding] =
        IF sent[c].encoding = "gzip" THEN <<"gzip", "end">> ELSE <<"plain">>
  BY <1>2, <1>3, <1>4
<1>. QED
  BY <1>1, <1>5 DEF Headed, Owes, Accepted

LEMMA ServerTyped == ServerInv => TypeOK
<1>. SUFFICES ASSUME ServerInv PROVE TypeOK
  OBVIOUS
<1>1. /\ library = None \/ library \subseteq Entries
      /\ \A c \in Conns : request[c] \in Requests[c] \cup {None}
      /\ \A c \in Conns : gz[c].zw \in Compressors \cup {None} /\ gz[c].started \in BOOLEAN
      /\ gone \subseteq Conns /\ pool \subseteq Compressors
  BY DEF ServerInv, ServerShapes
<1>2. pc \in [Conns -> Waiting \cup {"handle", "reply", "write", "close", "put"}]
  BY DEF ServerInv, ServerShapes, Busy
<1>3. \A c \in Conns : pc[c] = "write" => todo[c] # <<>>
  BY SmallTuples DEF ServerInv, ConnInv, OneDue
<1>4. \A c \in Conns : pc[c] \in {"close", "put"} => gz[c].zw # None
  BY DEF ServerInv, ConnInv
<1>. QED
  BY <1>1, <1>2, <1>3, <1>4 DEF TypeOK

\* For every set of connections and compressors and all requests: a client gets
\* its own whole reply under the status of its request, coded as the header
\* says, and nothing of another client's (middleware.go 62-130, server.go
\* 44-121).
THEOREM ServerRepliesOwnWhole == Spec => []OwnWholeReply
<1>1. ServerInv => OwnWholeReply
  BY ServerTyped, ForeignBytesNever, CodedAsDeclared, RepliesWhole DEF OwnWholeReply
<1>. QED
  BY <1>1, ServerInvariant, PTL

-----------------------------------------------------------------------------
(***************************************************************************)
(* Loops: a recursive function that walks 1 .. n has a value after each    *)
(* of its steps                                                            *)
(***************************************************************************)
\* Induction, for a set of numbers.
LEMMA UpFromZero ==
  ASSUME NEW S, 0 \in S, \A n \in Nat : n \in S => n + 1 \in S
  PROVE  Nat \subseteq S
<1>1. SUFFICES ASSUME Nat \ S # {} PROVE FALSE
  OBVIOUS
<1>2. PICK m \in Nat \ S : \A k \in Nat \ S : m <= k
  BY <1>1, LeastOf
<1>3. m # 0 /\ m - 1 \in Nat /\ m - 1 \notin Nat \ S
  BY <1>2
<1>. QED
  BY <1>2, <1>3

\* A loop over 1 .. n has a value after each of its steps.
HasLoop(A, base, n, step) ==
  \E f \in [0 .. n -> A] : f[0] = base /\ \A k \in 1 .. n : f[k] = step[<<f[k - 1], k>>]

LEMMA LoopExists ==
  ASSUME NEW A, NEW base \in A, NEW n \in Nat, NEW step \in [A \X (1 .. n) -> A]
  PROVE  HasLoop(A, base, n, step)
<1>. DEFINE Runs(m) == \E f \in [0 .. m -> A] :
                         f[0] = base /\ \A k \in 1 .. m : f[k] = step[<<f[k - 1], k>>]
            S == {m \in Nat : m <= n => Runs(m)}
<1>1. 0 \in S
  <2>. DEFINE f == [k \in 0 .. 0 |-> base]
  <2>1. f \in [0 .. 0 -> A] /\ f[0] = base /\ \A k \in 1 .. 0 : f[k] = step[<<f[k - 1], k>>]
    OBVIOUS
  <2>2. Runs(0)
    BY <2>1
  <2>. QED
    BY <2>2
<1>2. ASSUME NEW m \in Nat, m \in S PROVE m + 1 \in S
  <2>1. SUFFICES ASSUME m + 1 <= n PROVE Runs(m + 1)
    BY <1>2
  <2>2. PICK f \in [0 .. m -> A] :
          f[0] = base /\ \A k \in 1 .. m : f[k] = step[<<f[k - 1], k>>]
    BY <1>2, <2>1
  <2>. DEFINE g == [k \in 0 .. m + 1 |-> IF k = m + 1 THEN step[<<f[m], m + 1>>] ELSE f[k]]
  <2>3. f[m] \in A /\ m + 1 \in 1 .. n
    BY <2>1, <2>2
  <2>4. step[<<f[m], m + 1>>] \in A
    BY <2>3
  <2>5. g \in [0 .. m + 1 -> A]
    BY <2>2, <2>4
  <2>6. g[0] = base
    BY <2>2
  <2>7. \A k \in 1 .. m + 1 : g[k] = step[<<g[k - 1], k>>]
    <3>. TAKE k \in 1 .. m + 1
    <3>1. CASE k = m + 1
      <4>1. g[k] = step[<<f[m], m + 1>>] /\ g[k - 1] = f[m]
        BY <3>1
      <4>. HIDE DEF g
      <4>. QED
        BY <3>1, <4>1
    <3>2. CASE k # m + 1
      <4>1. k \in 1 .. m /\ g[k] = f[k] /\ g[k - 1] = f[k - 1]
        BY <3>2
      <4>. HIDE DEF g
      <4>. QED
        BY <2>2, <4>1
    <3>. QED
      BY <3>1, <3>2
  <2>. HIDE DEF g
  <2>. QED
    BY <2>5, <2>6, <2>7
<1>. HIDE DEF S
<1>3. n \in S
  BY <1>1, <1>2, UpFromZero
<1>4. n <= n
  OBVIOUS
<1>5. Runs(n)
  BY <1>3, <1>4 DEF S
<1>. QED
  BY <1>5 DEF HasLoop

\* What holds before the loop and after each step holds after all of them.
LEMMA AlongLoop ==
  ASSUME NEW n \in Nat, NEW P, P \subseteq 0 .. n, 0 \in P,
         \A k \in 1 .. n : k - 1 \in P => k \in P
  PROVE  n \in P
<1>. DEFINE S == {m \in Nat : m <= n => m \in P}
<1>1. 0 \in S
  OBVIOUS
<1>2. \A m \in Nat : m \in S => m + 1 \in S
  <2>1. SUFFICES ASSUME NEW m \in Nat, m \in S, m + 1 <= n PROVE m + 1 \in P
    OBVIOUS
  <2>2. m + 1 \in 1 .. n /\ (m + 1) - 1 = m /\ m \in P
    BY <2>1
  <2>. QED
    BY <2>2
<1>. HIDE DEF S
<1>3. n \in S
  BY <1>1, <1>2, UpFromZero
<1>. QED
  BY <1>3 DEF S

IsOrder(S, R) ==
  /\ \A x \in S : <<x, x>> \notin R
  /\ \A x, y \in S : x # y => <<x, y>> \in R \/ <<y, x>> \in R
  /\ \A x, y, z \in S : <<x, y>> \in R /\ <<y, z>> \in R => <<x, z>> \in R

Rank(S, R, x) == Cardinality({y \in S : <<y, x>> \in R})

LEMMA RankBelow ==
  ASSUME NEW S, IsFiniteSet(S), NEW R, IsOrder(S, R), NEW x \in S
  PROVE  /\ Rank(S, R, x) \in 0 .. Cardinality(S) - 1
         /\ \A y \in S : <<y, x>> \in R => Rank(S, R, y) < Rank(S, R, x)
<1>. DEFINE Below(y) == {z \in S : <<z, y>> \in R}
<1>1. \A T \in SUBSET S : /\ IsFiniteSet(T) /\ Cardinality(T) \in Nat
                          /\ Cardinality(T) <= Cardinality(S)
                          /\ Cardinality(S) = Cardinality(T) => S = T
  BY FS_Subset, FS_CardinalityType
<1>2. Cardinality(S) \in Nat
  BY FS_CardinalityType
<1>3. Below(x) # S /\ Below(x) \in SUBSET S
  BY DEF IsOrder
<1>4. Rank(S, R, x) = Cardinality(Below(x))
  BY DEF Rank
<1>5. Rank(S, R, x) \in 0 .. Cardinality(S) - 1
  <2>. HIDE DEF Below
  <2>. QED
    BY <1>1, <1>2, <1>3, <1>4
<1>6. ASSUME NEW y \in S, <<y, x>> \in R
      PROVE  Rank(S, R, y) < Rank(S, R, x)
  <2>1. Below(y) \in SUBSET Below(x) /\ y \in Below(x) /\ y \notin Below(y)
    BY <1>6 DEF IsOrder
  <2>2. Rank(S, R, y) = Cardinality(Below(y))
    BY DEF Rank
  <2>3. Below(y) \in SUBSET S
    OBVIOUS
  <2>. HIDE DEF Below
  <2>4. IsFiniteSet(Below(x))
    BY <1>1, <1>3
  <2>5. Cardinality(Below(y)) <= Cardinality(Below(x)) /\ Cardinality(Below(x)) # Cardinality(Below(y))
    BY <2>1, <2>4, FS_Subset
  <2>6. Cardinality(Below(x)) \in Nat /\ Cardinality(Below(y)) \in Nat
    BY <1>1, <1>3, <2>3
  <2>. QED
    BY <1>4, <2>2, <2>5, <2>6
<1>. QED
  BY <1>5, <1>6

\* Every place of the order is taken by one member, and every member has one.
LEMMA InOrderRanks ==
  ASSUME NEW S, IsFiniteSet(S), NEW R, IsOrder(S, R)
  PROVE  /\ Cardinality(S) \in Nat
         /\ InOrder(S, R) \in [1 .. Cardinality(S) -> S]
         /\ \A k \in 1 .. Cardinality(S) : Rank(S, R, InOrder(S, R)[k]) = k - 1
         /\ \A x \in S : \E k \in 1 .. Cardinality(S) : InOrder(S, R)[k] = x
<1>. DEFINE n == Cardinality(S)
            rank == [x \in S |-> Rank(S, R, x)]
            o == InOrder(S, R)
<1>1. n \in Nat
  BY FS_CardinalityType
<1>2. \A x \in S : Rank(S, R, x) \in 0 .. n - 1
  BY RankBelow
<1>3. \A x, y \in S : <<y, x>> \in R => Rank(S, R, y) < Rank(S, R, x)
  BY RankBelow
<1>4. \A x, y \in S : Rank(S, R, x) = Rank(S, R, y) => x = y
  <2>. SUFFICES ASSUME NEW x \in S, NEW y \in S, Rank(S, R, x) = Rank(S, R, y), x # y
                PROVE  FALSE
    OBVIOUS
  <2>1. <<x, y>> \in R \/ <<y, x>> \in R
    BY DEF IsOrder
  <2>2. Rank(S, R, x) \in Int /\ Rank(S, R, y) \in Int
    BY <1>1, <1>2
  <2>. QED
    BY <1>3, <2>1, <2>2
<1>5. IsFiniteSet(0 .. n - 1) /\ Cardinality(0 .. n - 1) = n
  <2>1. 0 \in Int /\ n - 1 \in Int /\ (IF 0 > n - 1 THEN 0 ELSE (n - 1) - 0 + 1) = n
    BY <1>1
  <2>. QED
    BY ONLY <2>1, FS_Interval
<1>6. rank \in Injection(S, 0 .. n - 1)
  BY <1>2, <1>4 DEF Injection, IsInjective
<1>. HIDE DEF rank
<1>7. rank \in Surjection(S, 0 .. n - 1)
  BY ONLY <1>5, <1>6, FS_Injection, n = Cardinality(S)
<1>8. \A k \in 1 .. n : \E x \in S : Rank(S, R, x) = k - 1
  <2>. TAKE k \in 1 .. n
  <2>1. k - 1 \in 0 .. n - 1
    BY <1>1
  <2>2. \A t \in 0 .. n - 1 : \E x \in S : rank[x] = t
    BY <1>7 DEF Surjection
  <2>3. PICK x \in S : rank[x] = k - 1
    BY <2>1, <2>2
  <2>4. rank[x] = Rank(S, R, x)
    BY DEF rank
  <2>. QED
    BY <2>3, <2>4
<1>9. o = [k \in 1 .. n |-> CHOOSE x \in S : Rank(S, R, x) = k - 1]
  BY DEF InOrder, Rank
<1>. HIDE DEF o
<1>10. \A k \in 1 .. n : o[k] \in S /\ Rank(S, R, o[k]) = k - 1
  BY <1>8, <1>9
<1>11. o \in [1 .. n -> S]
  BY <1>9, <1>10
<1>12. ASSUME NEW x \in S PROVE \E k \in 1 .. n : o[k] = x
  <2>. DEFINE k == Rank(S, R, x) + 1
  <2>1. k \in 1 .. n /\ k - 1 = Rank(S, R, x)
    BY <1>1, <1>2
  <2>. HIDE DEF k
  <2>2. o[k] = x
    BY <1>4, <1>10, <2>1
  <2>. QED
    BY <2>1, <2>2
<1>. QED
  BY <1>1, <1>10, <1>11, <1>12 DEF o

-----------------------------------------------------------------------------
(***************************************************************************)
(* The segments of a line                                                  *)
(***************************************************************************)
Interval(i) == i \in Nat \X Nat /\ i[1] < i[2]

\* The order of sort.SliceStable: the longer of two with one start is first.
Earlier(spans, g, h) ==
  \/ spans[g][1] < spans[h][1]
  \/ spans[g][1] = spans[h][1] /\ spans[g][2] > spans[h][2]
  \/ spans[g] = spans[h] /\ g < h

LEMMA EarlierIsOrder ==
  ASSUME NEW n \in Nat, NEW spans, NEW S \in SUBSET (1 .. n),
         \A g \in S : Interval(spans[g])
  PROVE  IsOrder(S, {p \in S \X S : Earlier(spans, p[1], p[2])})
<1>. DEFINE R == {p \in S \X S : Earlier(spans, p[1], p[2])}
<1>1. \A g, h \in S : <<g, h>> \in R <=> Earlier(spans, g, h)
  OBVIOUS
<1>. HIDE DEF R
<1>2. \A g \in S : /\ g \in Nat /\ spans[g] = <<spans[g][1], spans[g][2]>>
                   /\ spans[g][1] \in Nat /\ spans[g][2] \in Nat
  BY DEF Interval
<1>3. \A g \in S : ~ Earlier(spans, g, g)
  BY <1>2 DEF Earlier
<1>4. ASSUME NEW g \in S, NEW h \in S, g # h
      PROVE  Earlier(spans, g, h) \/ Earlier(spans, h, g)
  <2>1. spans[g][1] = spans[h][1] /\ spans[g][2] = spans[h][2] => spans[g] = spans[h]
    BY <1>2
  <2>. QED
    BY <1>2, <1>4, <2>1 DEF Earlier
<1>5. ASSUME NEW g \in S, NEW h \in S, NEW i \in S, Earlier(spans, g, h), Earlier(spans, h, i)
      PROVE  Earlier(spans, g, i)
  <2>1. /\ spans[g] = spans[h] => spans[g][1] = spans[h][1] /\ spans[g][2] = spans[h][2]
        /\ spans[h] = spans[i] => spans[h][1] = spans[i][1] /\ spans[h][2] = spans[i][2]
    OBVIOUS
  <2>. QED
    BY <1>2, <1>5, <2>1 DEF Earlier
<1>. QED
  BY <1>1, <1>3, <1>4, <1>5 DEF IsOrder, R

LEMMA SpansInOrder ==
  ASSUME NEW n \in Nat, NEW spans, DOMAIN spans = 1 .. n,
         \A g \in Captured(spans) : Interval(spans[g])
  PROVE  LET m == Len(Spans(spans)) IN
         /\ m \in Nat /\ Spans(spans) \in [1 .. m -> Captured(spans)]
         /\ \A g \in Captured(spans) : \E k \in 1 .. m : Spans(spans)[k] = g
         /\ \A j, k \in 1 .. m : j < k => Earlier(spans, Spans(spans)[j], Spans(spans)[k])
<1>. DEFINE S == Captured(spans)
            R == {p \in S \X S : Earlier(spans, p[1], p[2])}
            o == InOrder(S, R)
            c == Cardinality(S)
<1>1. Spans(spans) = o
  BY DEF Spans, Earlier
<1>2. S \in SUBSET (1 .. n)
  BY DEF Captured
<1>3. IsFiniteSet(S)
  <2>1. IsFiniteSet(1 .. n)
    BY FS_Interval
  <2>. QED
    BY <1>2, <2>1, FS_Subset
<1>4. IsOrder(S, R)
  BY <1>2, EarlierIsOrder
<1>5. \A g, h \in S : <<g, h>> \in R <=> Earlier(spans, g, h)
  OBVIOUS
<1>. HIDE DEF S, R
<1>6. /\ c \in Nat /\ o \in [1 .. c -> S]
      /\ \A k \in 1 .. c : Rank(S, R, o[k]) = k - 1
      /\ \A x \in S : \E k \in 1 .. c : o[k] = x
  BY <1>3, <1>4, InOrderRanks
<1>7. \A x \in S : \A y \in S : <<y, x>> \in R => Rank(S, R, y) < Rank(S, R, x)
  BY <1>3, <1>4, RankBelow
<1>. HIDE DEF o, c
<1>8. Len(o) = c
  BY <1>6, LenProperties, SeqDef
<1>9. ASSUME NEW j \in 1 .. c, NEW k \in 1 .. c, j < k
      PROVE  Earlier(spans, o[j], o[k])
  <2>1. o[j] \in S /\ o[k] \in S /\ Rank(S, R, o[j]) = j - 1 /\ Rank(S, R, o[k]) = k - 1
    BY <1>6
  <2>2. o[j] # o[k] /\ ~ (<<o[k], o[j]>> \in R)
    BY <1>6, <1>7, <1>9, <2>1
  <2>. QED
    BY <1>4, <1>5, <2>1, <2>2 DEF IsOrder
<1>. QED
  BY <1>1, <1>6, <1>8, <1>9 DEF S

Shows(spans, tokens, groups, g) ==
  Segment(spans[g][1], spans[g][2], tokens[g], groups[g].name)

SegmentsOf(tokens, groups, D) ==
  [from : Nat, to : Nat, token : {None} \cup {tokens[g] : g \in D},
   field : {None} \cup {groups[g].name : g \in D}]

Emits(order, spans, tokens, groups, f) ==
  /\ f[0] = [segs |-> <<>>, pos |-> 0]
  /\ \A k \in 1 .. Len(order) :
       f[k] = Emit(f[k - 1], spans[order[k]], tokens[order[k]], groups[order[k]].name)

Closed(size, all) ==
  IF all.pos < size \/ all.segs = <<>> THEN Append(all.segs, Plain(all.pos, size)) ELSE all.segs

LEMMA EmitType ==
  ASSUME NEW X, NEW d \in [segs : Seq(X), pos : Nat], NEW span, Interval(span),
         NEW token, NEW field,
         \A a, b \in Nat : Plain(a, b) \in X /\ Segment(a, b, token, field) \in X
  PROVE  Emit(d, span, token, field) \in [segs : Seq(X), pos : Nat]
<1>. DEFINE gap == IF span[1] > d.pos THEN <<Plain(d.pos, span[1])>> ELSE <<>>
            own == <<Segment(span[1], span[2], token, field)>>
<1>1. span[1] \in Nat /\ span[2] \in Nat /\ d.pos \in Nat /\ d.segs \in Seq(X)
  BY DEF Interval
<1>2. Plain(d.pos, span[1]) \in X /\ Segment(span[1], span[2], token, field) \in X
  BY <1>1
<1>3. gap \in Seq(X) /\ own \in Seq(X)
  BY <1>2
<1>4. Emit(d, span, token, field) =
        IF span[1] < d.pos THEN d ELSE [segs |-> d.segs \o gap \o own, pos |-> span[2]]
  BY DEF Emit
<1>. HIDE DEF gap, own
<1>5. d.segs \o gap \o own \in Seq(X)
  BY <1>1, <1>3, ConcatProperties
<1>. QED
  BY <1>1, <1>4, <1>5

LEMMA SegmentsUnfold ==
  ASSUME NEW size, NEW spans, NEW tokens, NEW groups, NEW D,
         LET order == Spans(spans) IN
           Len(order) \in Nat /\ \A k \in 1 .. Len(order) : order[k] \in D /\ Interval(spans[order[k]])
  PROVE  LET order == Spans(spans) IN
         \E f :
            /\ Emits(order, spans, tokens, groups, f)
            /\ SegmentsFor(size, spans, groups, tokens) = Closed(size, f[Len(order)])
<1>. DEFINE order == Spans(spans)
            n == Len(order)
            X == SegmentsOf(tokens, groups, D)
            A == [segs : Seq(X), pos : Nat]
            base == [segs |-> <<>>, pos |-> 0]
            body(a, k) == Emit(a, spans[order[k]], tokens[order[k]], groups[order[k]].name)
            step == [p \in A \X (1 .. n) |-> body(p[1], p[2])]
            IsLoop(g) == g = [k \in 0 .. n |-> IF k = 0 THEN base ELSE body(g[k - 1], k)]
            cur == CHOOSE g : IsLoop(g)
<1>1. n \in Nat
  OBVIOUS
<1>2. base \in A
  OBVIOUS
<1>3. \A a \in A, k \in 1 .. n : body(a, k) \in A
  <2>. TAKE a \in A, k \in 1 .. n
  <2>1. order[k] \in D /\ Interval(spans[order[k]])
    OBVIOUS
  <2>2. \A i, j \in Nat : /\ Plain(i, j) \in X
                          /\ Segment(i, j, tokens[order[k]], groups[order[k]].name) \in X
    BY <2>1 DEF Plain, Segment, SegmentsOf
  <2>. HIDE DEF X, order
  <2>. QED
    BY <2>1, <2>2, EmitType
<1>4. step \in [A \X (1 .. n) -> A]
  <2>. HIDE DEF A, body
  <2>. QED
    BY <1>3
<1>. HIDE DEF A, body
<1>5. PICK f \in [0 .. n -> A] :
        f[0] = base /\ \A k \in 1 .. n : f[k] = step[<<f[k - 1], k>>]
  <2>. HIDE DEF step, n, base
  <2>1. HasLoop(A, base, n, step)
    BY <1>1, <1>2, <1>4, LoopExists
  <2>. QED
    BY <2>1 DEF HasLoop
<1>. HIDE DEF n, base
<1>6. \A k \in 1 .. n : f[k] = body(f[k - 1], k)
  <2>. TAKE k \in 1 .. n
  <2>1. k - 1 \in 0 .. n
    BY <1>1
  <2>2. <<f[k - 1], k>> \in A \X (1 .. n)
    BY <1>5, <2>1
  <2>. QED
    BY <1>5, <2>2
<1>7. IsLoop(f)
  <2>1. f = [k \in 0 .. n |-> f[k]]
    BY <1>5
  <2>2. \A k \in 0 .. n : f[k] = IF k = 0 THEN base ELSE body(f[k - 1], k)
    <3>. TAKE k \in 0 .. n
    <3>1. k = 0 \/ (k # 0 /\ k \in 1 .. n)
      BY <1>1
    <3>. QED
      BY <1>5, <1>6, <3>1
  <2>. DEFINE g == [k \in 0 .. n |-> IF k = 0 THEN base ELSE body(f[k - 1], k)]
  <2>3. g = [k \in 0 .. n |-> g[k]] /\ \A k \in 0 .. n : g[k] = f[k]
    BY <2>2
  <2>4. IsLoop(f) <=> f = g
    OBVIOUS
  <2>. HIDE DEF g, IsLoop
  <2>. QED
    BY ONLY <2>1, <2>3, <2>4
<1>8. IsLoop(cur)
  BY <1>7
<1>9. SegmentsFor(size, spans, groups, tokens) = Closed(size, cur[n])
  BY DEF SegmentsFor, Closed, body, n, base
<1>. HIDE DEF cur
<1>10. Emits(order, spans, tokens, groups, cur)
  <2>1. \A k \in 0 .. n : cur[k] = IF k = 0 THEN base ELSE body(cur[k - 1], k)
    BY <1>8
  <2>2. 0 \in 0 .. n /\ \A k \in 1 .. n : k \in 0 .. n /\ k # 0
    BY <1>1
  <2>3. cur[0] = base /\ \A k \in 1 .. n : cur[k] = body(cur[k - 1], k)
    BY <2>1, <2>2
  <2>4. Emits(order, spans, tokens, groups, cur)
    BY <2>3 DEF Emits, body, base, n
  <2>. QED
    BY <2>4
<1>. QED
  BY <1>9, <1>10 DEF n

\* The segments so far are the line up to pos, without a gap.
Laid(segs, pos, size) ==
  /\ pos \in 0 .. size
  /\ segs = <<>> <=> pos = 0
  /\ segs # <<>> => segs[1].from = 0 /\ segs[Len(segs)].to = pos
  /\ \A q \in 1 .. Len(segs) : segs[q].from < segs[q].to
  /\ \A q \in 1 .. Len(segs) - 1 : segs[q].to = segs[q + 1].from

Shown(segs, s) == \E q \in 1 .. Len(segs) : segs[q] = s

LEMMA AppendAt ==
  ASSUME NEW X, NEW segs \in Seq(X), NEW s \in X
  PROVE  /\ Len(segs) \in Nat /\ Append(segs, s) \in Seq(X) /\ Append(segs, s) # <<>>
         /\ Len(Append(segs, s)) = Len(segs) + 1
         /\ \A q \in 1 .. Len(segs) : Append(segs, s)[q] = segs[q]
         /\ Append(segs, s)[Len(segs) + 1] = s
         /\ segs = <<>> <=> Len(segs) = 0
<1>1. Len(segs) \in Nat /\ (segs = <<>> <=> Len(segs) = 0)
  BY LenProperties, EmptySeq
<1>2. /\ Append(segs, s) \in Seq(X) /\ Len(Append(segs, s)) = Len(segs) + 1
      /\ \A q \in 1 .. Len(segs) : Append(segs, s)[q] = segs[q]
      /\ Append(segs, s)[Len(segs) + 1] = s
  BY AppendProperties
<1>3. Append(segs, s) # <<>>
  BY <1>1, <1>2, EmptySeq
<1>. QED
  BY <1>1, <1>2, <1>3

LEMMA LaidMore ==
  ASSUME NEW X, \A x \in X : x.from \in Nat /\ x.to \in Nat,
         NEW segs \in Seq(X), NEW pos, NEW size \in Nat, Laid(segs, pos, size),
         NEW s \in X, s.from = pos, s.from < s.to, s.to <= size
  PROVE  Laid(Append(segs, s), s.to, size)
<1>. DEFINE n == Len(segs)  t == Append(segs, s)
<1>1. /\ n \in Nat /\ t # <<>> /\ Len(t) = n + 1
      /\ \A q \in 1 .. n : t[q] = segs[q]
      /\ t[n + 1] = s /\ (segs = <<>> <=> n = 0)
  BY AppendAt
<1>. HIDE DEF t, n
<1>2. s.to \in 0 .. size /\ s.to # 0 /\ pos \in Nat
  BY DEF Laid
<1>3. t[1].from = 0 /\ t[Len(t)].to = s.to
  <2>1. CASE n = 0
    BY <1>1, <2>1 DEF Laid
  <2>2. CASE n # 0
    <3>1. 1 \in 1 .. n
      BY <1>1, <2>2
    <3>. QED
      BY <1>1, <2>2, <3>1 DEF Laid
  <2>. QED
    BY <2>1, <2>2
<1>4. ASSUME NEW q \in 1 .. n + 1 PROVE t[q].from < t[q].to
  <2>1. q \in 1 .. n \/ q = n + 1
    BY <1>1
  <2>2. \A i \in 1 .. n : segs[i].from < segs[i].to
    BY DEF Laid, n
  <2>. QED
    BY <1>1, <2>1, <2>2
<1>5. ASSUME NEW q \in 1 .. (n + 1) - 1 PROVE t[q].to = t[q + 1].from
  <2>1. q \in 1 .. n /\ ((q \in 1 .. n - 1 /\ q + 1 \in 1 .. n) \/ q = n)
    BY <1>1
  <2>2. \A i \in 1 .. n - 1 : segs[i].to = segs[i + 1].from
    BY DEF Laid, n
  <2>3. n # 0 => segs[n].to = pos
    BY <1>1 DEF Laid, n
  <2>4. CASE q \in 1 .. n - 1 /\ q + 1 \in 1 .. n
    <3>1. t[q] = segs[q] /\ t[q + 1] = segs[q + 1]
      BY <1>1, <2>1, <2>4
    <3>. QED
      BY <2>2, <2>4, <3>1
  <2>5. CASE q = n
    <3>1. n # 0 /\ t[n] = segs[n] /\ t[n + 1] = s
      BY <1>1, <2>1, <2>5
    <3>. QED
      BY <2>3, <2>5, <3>1
  <2>. QED
    BY <2>1, <2>4, <2>5
<1>. QED
  BY <1>1, <1>2, <1>3, <1>4, <1>5 DEF Laid, t

LEMMA ShownMore ==
  ASSUME NEW X, NEW segs \in Seq(X), NEW s \in X
  PROVE  /\ Shown(Append(segs, s), s)
         /\ \A x : Shown(segs, x) => Shown(Append(segs, s), x)
         /\ \A q \in 1 .. Len(Append(segs, s)) : \/ Append(segs, s)[q] = s
                                                 \/ \E r \in 1 .. Len(segs) : Append(segs, s)[q] = segs[r]
<1>. DEFINE n == Len(segs)  t == Append(segs, s)
<1>1. /\ n \in Nat /\ Len(t) = n + 1 /\ t[n + 1] = s
      /\ \A q \in 1 .. n : t[q] = segs[q]
  BY AppendAt
<1>. HIDE DEF t, n
<1>2. /\ n + 1 \in 1 .. n + 1 /\ \A q \in 1 .. n : q \in 1 .. n + 1
      /\ \A q \in 1 .. n + 1 : q = n + 1 \/ q \in 1 .. n
  BY <1>1
<1>. QED
  BY <1>1, <1>2 DEF Shown, t, n

LEMMA EmitAppends ==
  ASSUME NEW X, NEW d, d.segs \in Seq(X), NEW span, NEW token, NEW field,
         Plain(d.pos, span[1]) \in X, Segment(span[1], span[2], token, field) \in X
  PROVE  LET before == IF span[1] > d.pos THEN Append(d.segs, Plain(d.pos, span[1])) ELSE d.segs IN
         Emit(d, span, token, field) =
           IF span[1] < d.pos THEN d
           ELSE [segs |-> Append(before, Segment(span[1], span[2], token, field)), pos |-> span[2]]
<1>. DEFINE p == Plain(d.pos, span[1])  s == Segment(span[1], span[2], token, field)
            gap == IF span[1] > d.pos THEN <<p>> ELSE <<>>
            before == IF span[1] > d.pos THEN Append(d.segs, p) ELSE d.segs
<1>1. Emit(d, span, token, field) =
        IF span[1] < d.pos THEN d ELSE [segs |-> d.segs \o gap \o <<s>>, pos |-> span[2]]
  BY DEF Emit
<1>2. p \in X /\ s \in X
  OBVIOUS
<1>. HIDE DEF p, s
<1>3. d.segs \o <<p>> = Append(d.segs, p) /\ d.segs \o <<>> = d.segs
  BY <1>2, AppendIsConcat, ConcatEmptySeq
<1>4. d.segs \o gap = before
  BY <1>3
<1>5. before \in Seq(X)
  BY <1>2, AppendAt
<1>. HIDE DEF before, gap
<1>6. before \o <<s>> = Append(before, s)
  BY <1>2, <1>5, AppendIsConcat
<1>. QED
  BY <1>1, <1>4, <1>6 DEF before, p, s

\* What the segments show after k of the captures, in their order.
Progress(order, spans, tokens, groups, size, X, d, k) ==
  LET own(g) == Shows(spans, tokens, groups, g) IN
  /\ d \in [segs : Seq(X), pos : Nat] /\ Laid(d.segs, d.pos, size)
  /\ d.pos = 0 \/ \E i \in 1 .. k : Shown(d.segs, own(order[i])) /\ d.pos = spans[order[i]][2]
  /\ \A j \in 1 .. k :
       \/ Shown(d.segs, own(order[j]))
       \/ \E i \in 1 .. j - 1 : /\ Shown(d.segs, own(order[i]))
                                /\ spans[order[j]][1] < spans[order[i]][2]
  /\ \A q \in 1 .. Len(d.segs) :
       d.segs[q].field = None \/ \E j \in 1 .. k : d.segs[q] = own(order[j])

LEMMA ProgressStep ==
  ASSUME NEW order, NEW spans, NEW tokens, NEW groups, NEW size \in Nat, NEW X,
         \A x \in X : x.from \in Nat /\ x.to \in Nat,
         NEW d, NEW k \in Nat \ {0}, Progress(order, spans, tokens, groups, size, X, d, k - 1),
         NEW g, g = order[k], Interval(spans[g]), spans[g][2] <= size,
         \A a, b \in Nat : Plain(a, b) \in X, Shows(spans, tokens, groups, g) \in X
  PROVE  Progress(order, spans, tokens, groups, size, X,
                  Emit(d, spans[g], tokens[g], groups[g].name), k)
<1>. DEFINE own(h) == Shows(spans, tokens, groups, h)
            span == spans[g]
            gap == Plain(d.pos, span[1])
            before == IF span[1] > d.pos THEN Append(d.segs, gap) ELSE d.segs
            s == own(g)
            e == Emit(d, span, tokens[g], groups[g].name)
            all == Append(before, s)
<1>1. /\ d \in [segs : Seq(X), pos : Nat] /\ Laid(d.segs, d.pos, size)
      /\ d.pos = 0 \/ \E i \in 1 .. k - 1 : Shown(d.segs, own(order[i])) /\ d.pos = spans[order[i]][2]
      /\ \A j \in 1 .. k - 1 :
           \/ Shown(d.segs, own(order[j]))
           \/ \E i \in 1 .. j - 1 : /\ Shown(d.segs, own(order[i]))
                                    /\ spans[order[j]][1] < spans[order[i]][2]
      /\ \A q \in 1 .. Len(d.segs) :
           d.segs[q].field = None \/ \E j \in 1 .. k - 1 : d.segs[q] = own(order[j])
  BY DEF Progress
<1>2. d.pos \in Nat /\ d.segs \in Seq(X) /\ span[1] \in Nat /\ span[2] \in Nat /\ span[1] < span[2]
  BY <1>1 DEF Interval
<1>3. gap \in X /\ s \in X /\ s = Segment(span[1], span[2], tokens[g], groups[g].name)
  <2>1. gap \in X
    BY <1>2
  <2>2. s \in X
    BY DEF own
  <2>3. s = Segment(span[1], span[2], tokens[g], groups[g].name)
    BY DEF Shows
  <2>. QED
    BY ONLY <2>1, <2>2, <2>3
<1>4. gap.from = d.pos /\ gap.to = span[1] /\ gap.field = None /\ s.from = span[1] /\ s.to = span[2]
  BY <1>3 DEF Plain, Segment
<1>5. e = IF span[1] < d.pos THEN d ELSE [segs |-> all, pos |-> span[2]]
  <2>1. Plain(d.pos, span[1]) \in X /\ Segment(span[1], span[2], tokens[g], groups[g].name) \in X
    BY <1>3
  <2>2. d.segs \in Seq(X)
    BY <1>2
  <2>3. e = IF span[1] < d.pos THEN d
            ELSE [segs |-> Append(before, Segment(span[1], span[2], tokens[g], groups[g].name)),
                  pos |-> span[2]]
    <3>. DEFINE token == tokens[g]  field == groups[g].name
    <3>1. Plain(d.pos, span[1]) \in X /\ Segment(span[1], span[2], token, field) \in X
      BY <2>1
    <3>. HIDE DEF token, field, span, gap
    <3>2. Emit(d, span, token, field) =
            IF span[1] < d.pos THEN d
            ELSE [segs |-> Append(IF span[1] > d.pos THEN Append(d.segs, Plain(d.pos, span[1]))
                                  ELSE d.segs,
                                  Segment(span[1], span[2], token, field)),
                  pos |-> span[2]]
      BY ONLY <2>2, <3>1, EmitAppends, SMTT(30)
    <3>. QED
      BY <3>2 DEF token, field, gap
  <2>. HIDE DEF e, before, s
  <2>. QED
    BY <1>3, <2>3
<1>6. /\ k \in 1 .. k /\ \A j \in 1 .. k - 1 : j \in 1 .. k
      /\ \A j \in 1 .. k : j \in 1 .. k - 1 \/ j = k
  BY ONLY k \in Nat \ {0}
<1>. HIDE DEF own, gap, s, e
<1>7. CASE span[1] < d.pos
  <2>1. e = d /\ d.pos # 0
    BY <1>2, <1>5, <1>7
  <2>2. PICK i \in 1 .. k - 1 : Shown(d.segs, own(order[i])) /\ d.pos = spans[order[i]][2]
    BY <1>1, <2>1
  <2>3. \A j \in 1 .. k :
          \/ Shown(d.segs, own(order[j]))
          \/ \E h \in 1 .. j - 1 : /\ Shown(d.segs, own(order[h]))
                                   /\ spans[order[j]][1] < spans[order[h]][2]
    BY <1>1, <1>6, <1>7, <2>2
  <2>4. \E h \in 1 .. k : Shown(d.segs, own(order[h])) /\ d.pos = spans[order[h]][2]
    BY <1>6, <2>2
  <2>5. \A q \in 1 .. Len(d.segs) : d.segs[q].field = None \/ \E j \in 1 .. k : d.segs[q] = own(order[j])
    BY <1>1, <1>6
  <2>6. Progress(order, spans, tokens, groups, size, X, d, k)
    BY ONLY <1>1, <2>3, <2>4, <2>5 DEF Progress, own
  <2>. QED
    BY <2>1, <2>6 DEF e
<1>8. CASE ~ (span[1] < d.pos)
  <2>1. e = [segs |-> all, pos |-> span[2]]
    BY <1>5, <1>8
  <2>2. /\ before \in Seq(X) /\ Laid(before, span[1], size)
        /\ \A x : Shown(d.segs, x) => Shown(before, x)
        /\ \A q \in 1 .. Len(before) : \/ before[q] = gap
                                       \/ \E r \in 1 .. Len(d.segs) : before[q] = d.segs[r]
    <3>1. CASE span[1] > d.pos
      <4>1. before = Append(d.segs, gap)
        BY <3>1
      <4>2. gap.from < gap.to /\ gap.to <= size
        BY <1>2, <1>4, <3>1
      <4>3. Laid(before, gap.to, size)
        BY <1>1, <1>2, <1>3, <1>4, <4>1, <4>2, LaidMore
      <4>4. before \in Seq(X)
        BY <1>2, <1>3, <4>1, AppendAt
      <4>5. /\ \A x : Shown(d.segs, x) => Shown(before, x)
            /\ \A q \in 1 .. Len(before) : \/ before[q] = gap
                                           \/ \E r \in 1 .. Len(d.segs) : before[q] = d.segs[r]
        <5>1. d.segs \in Seq(X) /\ gap \in X
          BY <1>2, <1>3
        <5>. HIDE DEF before
        <5>. QED
          BY ONLY <4>1, <5>1, ShownMore
      <4>. QED
        BY ONLY <1>4, <4>3, <4>4, <4>5
    <3>2. CASE ~ (span[1] > d.pos)
      <4>1. before = d.segs /\ span[1] = d.pos
        BY <1>2, <1>8, <3>2
      <4>. QED
        BY <1>1, <1>2, <4>1
    <3>. QED
      BY <3>1, <3>2
  <2>. HIDE DEF before
  <2>3. all \in Seq(X) /\ Laid(all, span[2], size)
    BY <1>2, <1>3, <1>4, <2>2, LaidMore, AppendAt
  <2>4. /\ Shown(all, s) /\ \A x : Shown(d.segs, x) => Shown(all, x)
        /\ \A q \in 1 .. Len(all) : \/ all[q] = s \/ all[q] = gap
                                    \/ \E r \in 1 .. Len(d.segs) : all[q] = d.segs[r]
    <3>0. before \in Seq(X) /\ s \in X
      BY <1>3, <2>2
    <3>1. /\ Shown(all, s) /\ \A x : Shown(before, x) => Shown(all, x)
          /\ \A q \in 1 .. Len(all) : all[q] = s \/ \E r \in 1 .. Len(before) : all[q] = before[r]
      BY ONLY <3>0, ShownMore, SMTT(30)
    <3>. HIDE DEF all
    <3>2. \A x : Shown(d.segs, x) => Shown(all, x)
      BY <2>2, <3>1
    <3>3. ASSUME NEW q \in 1 .. Len(all)
          PROVE  \/ all[q] = s \/ all[q] = gap
                 \/ \E r \in 1 .. Len(d.segs) : all[q] = d.segs[r]
      <4>1. CASE all[q] = s
        BY <4>1
      <4>2. CASE all[q] # s
        <5>1. PICK r \in 1 .. Len(before) : all[q] = before[r]
          BY <3>1, <4>2
        <5>2. \/ before[r] = gap
              \/ \E h \in 1 .. Len(d.segs) : before[r] = d.segs[h]
          BY <2>2
        <5>. QED
          BY <5>1, <5>2
      <4>. QED
        BY <4>1, <4>2
    <3>. QED
      BY <3>1, <3>2, <3>3
  <2>. HIDE DEF all
  <2>5. \A j \in 1 .. k :
          \/ Shown(all, own(order[j]))
          \/ \E h \in 1 .. j - 1 : /\ Shown(all, own(order[h]))
                                   /\ spans[order[j]][1] < spans[order[h]][2]
    <3>. TAKE j \in 1 .. k
    <3>1. CASE j = k
      BY <2>4, <3>1 DEF s
    <3>2. CASE j \in 1 .. k - 1
      BY <1>1, <2>4, <3>2
    <3>. QED
      BY <1>6, <3>1, <3>2
  <2>6. \E h \in 1 .. k : Shown(all, own(order[h])) /\ span[2] = spans[order[h]][2]
    BY <1>6, <2>4 DEF s
  <2>7. \A q \in 1 .. Len(all) : all[q].field = None \/ \E j \in 1 .. k : all[q] = own(order[j])
    <3>. TAKE q \in 1 .. Len(all)
    <3>1. CASE all[q] = s
      BY <1>6, <3>1 DEF s
    <3>2. CASE all[q] = gap
      BY <1>4, <3>2
    <3>3. CASE \E r \in 1 .. Len(d.segs) : all[q] = d.segs[r]
      BY <1>1, <1>6, <3>3
    <3>. QED
      BY <2>4, <3>1, <3>2, <3>3
  <2>8. e.segs = all /\ e.pos = span[2] /\ e \in [segs : Seq(X), pos : Nat]
    BY <1>2, <2>1, <2>3
  <2>9. Progress(order, spans, tokens, groups, size, X, e, k)
    BY ONLY <2>3, <2>5, <2>6, <2>7, <2>8 DEF Progress, own
  <2>. QED
    BY <2>9 DEF e
<1>. QED
  BY <1>7, <1>8

\* The segments are the line, each capture is in them unless an earlier one that
\* it begins in is, and nothing else is but the text between.
Complete(spans, tokens, groups, size, segs) ==
  LET own(g) == Shows(spans, tokens, groups, g) IN
  /\ Len(segs) \in Nat /\ segs # <<>> /\ segs[1].from = 0 /\ segs[Len(segs)].to = size
  /\ DOMAIN segs = 1 .. Len(segs)
  /\ \A q \in 1 .. Len(segs) - 1 : segs[q].to = segs[q + 1].from /\ segs[q].from < segs[q].to
  /\ \A g \in Captured(spans) :
       \/ Shown(segs, own(g))
       \/ \E h \in Captured(spans) :
            Shown(segs, own(h)) /\ Earlier(spans, h, g) /\ spans[g][1] < spans[h][2]
  /\ \A q \in 1 .. Len(segs) :
       segs[q].field = None \/ \E g \in Captured(spans) : segs[q] = own(g)

LEMMA SegmentsComplete ==
  ASSUME NEW n \in Nat, NEW spans, DOMAIN spans = 1 .. n, NEW size \in Nat \ {0},
         \A g \in Captured(spans) : Interval(spans[g]) /\ spans[g][2] <= size,
         NEW tokens, NEW groups
  PROVE  Complete(spans, tokens, groups, size, SegmentsFor(size, spans, groups, tokens))
<1>. DEFINE D == Captured(spans)
            order == Spans(spans)
            m == Len(order)
            X == SegmentsOf(tokens, groups, D)
            own(g) == Shows(spans, tokens, groups, g)
            segs == SegmentsFor(size, spans, groups, tokens)
<1>1. /\ m \in Nat /\ order \in [1 .. m -> D]
      /\ \A g \in D : \E k \in 1 .. m : order[k] = g
      /\ \A j, k \in 1 .. m : j < k => Earlier(spans, order[j], order[k])
  BY SpansInOrder
<1>2. \A g \in D : Interval(spans[g]) /\ spans[g][2] <= size
  OBVIOUS
<1>3. PICK f : Emits(order, spans, tokens, groups, f) /\ segs = Closed(size, f[m])
  <2>1. m \in Nat /\ \A k \in 1 .. m : order[k] \in D /\ Interval(spans[order[k]])
    BY <1>1, <1>2
  <2>. HIDE DEF D
  <2>. QED
    BY ONLY <2>1, SegmentsUnfold
<1>4. /\ \A x \in X : x.from \in Nat /\ x.to \in Nat
      /\ \A a, b \in Nat : Plain(a, b) \in X
      /\ \A g \in D : own(g) \in X
  <2>1. \A x \in X : x.from \in Nat /\ x.to \in Nat
    BY DEF SegmentsOf
  <2>2. \A a, b \in Nat : Plain(a, b) \in X
    BY DEF SegmentsOf, Plain, Segment
  <2>3. ASSUME NEW g \in D PROVE own(g) \in X
    <3>1. spans[g][1] \in Nat /\ spans[g][2] \in Nat
      BY <1>2 DEF Interval
    <3>2. tokens[g] \in {None} \cup {tokens[h] : h \in D}
          /\ groups[g].name \in {None} \cup {groups[h].name : h \in D}
      BY <2>3
    <3>. HIDE DEF D
    <3>. QED
      BY ONLY <3>1, <3>2 DEF Shows, Segment, SegmentsOf
  <2>. HIDE DEF X, own
  <2>. QED
    BY ONLY <2>1, <2>2, <2>3
<1>. DEFINE P == {k \in 0 .. m : Progress(order, spans, tokens, groups, size, X, f[k], k)}
<1>. HIDE DEF D, order, m, X, segs
<1>5. 0 \in P
  <2>1. f[0] = [segs |-> <<>>, pos |-> 0]
    BY <1>3 DEF Emits
  <2>2. /\ f[0] \in [segs : Seq(X), pos : Nat] /\ f[0].pos = 0 /\ f[0].segs = <<>> /\ Len(f[0].segs) = 0
    BY <2>1
  <2>3. Laid(f[0].segs, f[0].pos, size)
    BY <2>2 DEF Laid
  <2>4. Progress(order, spans, tokens, groups, size, X, f[0], 0)
    BY ONLY <2>2, <2>3 DEF Progress
  <2>. QED
    BY <1>1, <2>4
<1>6. ASSUME NEW k \in 1 .. m, k - 1 \in P PROVE k \in P
  <2>. DEFINE g == order[k]
  <2>1. k \in Nat \ {0} /\ k \in 0 .. m /\ g \in D
    BY <1>1
  <2>2. f[k] = Emit(f[k - 1], spans[g], tokens[g], groups[g].name)
    BY <1>3 DEF Emits, m
  <2>3. Interval(spans[g]) /\ spans[g][2] <= size /\ own(g) \in X
    BY <1>2, <1>4, <2>1
  <2>4. Progress(order, spans, tokens, groups, size, X, f[k - 1], k - 1)
    BY <1>6
  <2>. DEFINE a == f[k - 1]
  <2>5. Progress(order, spans, tokens, groups, size, X, Emit(a, spans[g], tokens[g], groups[g].name), k)
    <3>1. Progress(order, spans, tokens, groups, size, X, a, k - 1) /\ g = order[k]
      BY <2>4
    <3>2. size \in Nat
      OBVIOUS
    <3>. HIDE DEF a, g
    <3>. QED
      BY ONLY <1>4, <2>1, <2>3, <3>1, <3>2, ProgressStep
  <2>. QED
    BY <2>1, <2>2, <2>5
<1>. HIDE DEF P
<1>7. m \in P
  BY <1>1, <1>5, <1>6, AlongLoop DEF P
<1>. DEFINE d == f[m]  tail == Plain(d.pos, size)
<1>8. Progress(order, spans, tokens, groups, size, X, d, m)
  BY <1>7 DEF P
<1>9. segs = IF d.pos < size \/ d.segs = <<>> THEN Append(d.segs, tail) ELSE d.segs
  BY <1>3 DEF Closed
<1>. HIDE DEF own, d
<1>10. /\ d.segs \in Seq(X) /\ d.pos \in Nat /\ Laid(d.segs, d.pos, size)
       /\ \A j \in 1 .. m :
            \/ Shown(d.segs, own(order[j]))
            \/ \E i \in 1 .. j - 1 : /\ Shown(d.segs, own(order[i]))
                                     /\ spans[order[j]][1] < spans[order[i]][2]
       /\ \A q \in 1 .. Len(d.segs) :
            d.segs[q].field = None \/ \E j \in 1 .. m : d.segs[q] = own(order[j])
  BY <1>8 DEF Progress, own
<1>11. tail \in X /\ tail.from = d.pos /\ tail.to = size /\ tail.field = None
  <2>1. tail \in X
    BY <1>4, <1>10
  <2>. QED
    BY <2>1 DEF Plain, Segment
<1>12. /\ segs \in Seq(X) /\ Laid(segs, size, size)
       /\ \A x : Shown(d.segs, x) => Shown(segs, x)
       /\ \A q \in 1 .. Len(segs) :
            segs[q].field = None \/ \E r \in 1 .. Len(d.segs) : segs[q] = d.segs[r]
  <2>1. CASE d.pos < size \/ d.segs = <<>>
    <3>1. segs = Append(d.segs, tail)
      BY <1>9, <2>1
    <3>2. d.pos < size
      BY <1>10, <2>1 DEF Laid
    <3>. HIDE DEF tail
    <3>3. Laid(segs, tail.to, size)
      <4>1. size \in Nat /\ tail.from < tail.to /\ tail.to <= size
        BY <1>11, <3>2
      <4>. QED
        BY ONLY <1>4, <1>10, <1>11, <3>1, <4>1, LaidMore
    <3>4. segs \in Seq(X)
      BY <1>10, <1>11, <3>1, AppendAt
    <3>5. /\ \A x : Shown(d.segs, x) => Shown(segs, x)
          /\ \A q \in 1 .. Len(segs) : segs[q] = tail \/ \E r \in 1 .. Len(d.segs) : segs[q] = d.segs[r]
      BY ONLY <1>10, <1>11, <3>1, ShownMore
    <3>. QED
      BY ONLY <1>11, <3>3, <3>4, <3>5
  <2>2. CASE ~ (d.pos < size \/ d.segs = <<>>)
    <3>1. segs = d.segs /\ d.pos = size
      BY <1>9, <1>10, <2>2 DEF Laid
    <3>. QED
      BY <1>10, <3>1
  <2>. QED
    BY <2>1, <2>2
<1>13. Len(segs) \in Nat /\ DOMAIN segs = 1 .. Len(segs) /\ segs # <<>>
  BY <1>12, LenProperties DEF Laid
<1>14. ASSUME NEW g \in D
       PROVE  \/ Shown(segs, own(g))
              \/ \E h \in D : Shown(segs, own(h)) /\ Earlier(spans, h, g) /\ spans[g][1] < spans[h][2]
  <2>1. PICK j \in 1 .. m : order[j] = g
    BY <1>1
  <2>2. CASE Shown(d.segs, own(g))
    BY <1>12, <2>2
  <2>3. CASE ~ Shown(d.segs, own(g))
    <3>1. PICK i \in 1 .. j - 1 : Shown(d.segs, own(order[i])) /\ spans[g][1] < spans[order[i]][2]
      BY <1>10, <2>1, <2>3
    <3>2. i \in 1 .. m /\ i < j
      BY <1>1
    <3>3. order[i] \in D /\ Earlier(spans, order[i], g)
      BY <1>1, <2>1, <3>2
    <3>. QED
      BY <1>12, <3>1, <3>3
  <2>. QED
    BY <2>2, <2>3
<1>15. \A q \in 1 .. Len(segs) : segs[q].field = None \/ \E g \in D : segs[q] = own(g)
  BY <1>1, <1>10, <1>12
<1>16. /\ segs[1].from = 0 /\ segs[Len(segs)].to = size
       /\ \A q \in 1 .. Len(segs) - 1 : segs[q].to = segs[q + 1].from /\ segs[q].from < segs[q].to
  <2>1. \A q \in 1 .. Len(segs) - 1 : q \in 1 .. Len(segs)
    BY <1>13
  <2>. QED
    BY <1>12, <1>13, <2>1 DEF Laid
<1>. QED
  BY <1>13, <1>14, <1>15, <1>16 DEF Complete, D, segs, own

-----------------------------------------------------------------------------
(***************************************************************************)
(* Expanding a pattern: the loops of expandGrok                            *)
(***************************************************************************)
GroupSet == [piece : Pieces, name : Names, around : Nat, inner : BOOLEAN]
Errors == {"none", "unknown", "too deep", "not a regexp"}
Expansions == [err : Errors, groups : Seq(GroupSet), used : Seq(Names)]
Extras(extras) == \A prim \in DOMAIN extras : extras[prim] \in Seq(Pieces)

LEMMA BodyIs ==
  ASSUME NEW extras, Extras(extras), NEW prim, Body(prim, extras) # None
  PROVE  Body(prim, extras) \in Seq(Pieces)
BY ExpandAssumption DEF Body, Extras

LEMMA AskedIs ==
  ASSUME NEW used \in Seq(Names), NEW name
  PROVE  /\ Asked(name, used) \in Nat /\ Asked(name, <<>>) = 0
         /\ \A x \in Names : Asked(name, Append(used, x)) =
                               IF x = name THEN Asked(name, used) + 1 ELSE Asked(name, used)
<1>. DEFINE Places(s) == {i \in DOMAIN s : s[i] = name}
<1>1. \A s \in Seq(Names) : /\ Len(s) \in Nat /\ DOMAIN s = 1 .. Len(s) /\ IsFiniteSet(Places(s))
  <2>. TAKE s \in Seq(Names)
  <2>1. Len(s) \in Nat /\ DOMAIN s = 1 .. Len(s)
    BY LenProperties
  <2>2. IsFiniteSet(1 .. Len(s))
    BY <2>1, FS_Interval
  <2>. QED
    BY <2>1, <2>2, FS_Subset
<1>2. \A s \in Seq(Names) : Asked(name, s) = Cardinality(Places(s))
  BY DEF Asked
<1>3. Asked(name, used) \in Nat
  BY <1>1, <1>2, FS_CardinalityType
<1>4. Asked(name, <<>>) = 0
  <2>1. Places(<<>>) = {}
    OBVIOUS
  <2>. QED
    BY <2>1, FS_EmptySet DEF Asked
<1>5. ASSUME NEW x \in Names
      PROVE  Asked(name, Append(used, x)) =
               IF x = name THEN Asked(name, used) + 1 ELSE Asked(name, used)
  <2>. DEFINE t == Append(used, x)  n == Len(used)
  <2>1. /\ n \in Nat /\ t \in Seq(Names) /\ Len(t) = n + 1 /\ t[n + 1] = x
        /\ \A i \in 1 .. n : t[i] = used[i]
    BY AppendAt
  <2>2. DOMAIN t = 1 .. n + 1 /\ DOMAIN used = 1 .. n
    BY <1>1, <2>1
  <2>. HIDE DEF t, n
  <2>3. n + 1 \notin 1 .. n /\ \A i \in 1 .. n + 1 : i \in 1 .. n \/ i = n + 1
    BY <2>1
  <2>4. CASE x = name
    <3>1. Places(t) = Places(used) \cup {n + 1} /\ n + 1 \notin Places(used)
      BY <2>1, <2>2, <2>3, <2>4
    <3>2. Cardinality(Places(t)) = Cardinality(Places(used)) + 1
      BY <1>1, <3>1, FS_AddElement
    <3>. QED
      BY <1>2, <2>1, <2>4, <3>2 DEF t
  <2>5. CASE x # name
    <3>1. Places(t) = Places(used)
      BY <2>1, <2>2, <2>3, <2>5
    <3>. QED
      BY <1>2, <2>1, <2>5, <3>1 DEF t
  <2>. QED
    BY <2>4, <2>5
<1>. QED
  BY <1>3, <1>4, <1>5

LEMMA NthIs ==
  ASSUME NEW name \in Names, NEW k \in Nat
  PROVE  /\ Nth(name, k) \in Names /\ Nth(name, 1) = name
         /\ k # 1 => Nth(name, k) = [base |-> name.base, suffix |-> Append(name.suffix, k)]
<1>1. name.base \in STRING /\ name.suffix \in Seq(Nat)
  BY DEF Names
<1>2. k # 1 => Nth(name, k) = [base |-> name.base, suffix |-> Append(name.suffix, k)]
  BY DEF Nth, Names
<1>3. Append(name.suffix, k) \in Seq(Nat)
  BY <1>1, AppendProperties
<1>. HIDE DEF Names
<1>4. Nth(name, 1) = name
  BY DEF Nth
<1>. QED
  BY <1>1, <1>2, <1>3, <1>4 DEF Names

LEMMA UniqueNameIs ==
  ASSUME NEW name \in Names, NEW used \in Seq(Names)
  PROVE  UniqueName(name, used) \in Names
BY AskedIs, NthIs DEF UniqueName

LEMMA ExpansionIs ==
  ASSUME NEW err \in Errors, NEW groups \in Seq(GroupSet), NEW used \in Seq(Names)
  PROVE  /\ Expansion(err, groups, used) \in Expansions
         /\ Expansion(err, groups, used).err = err
         /\ Expansion(err, groups, used).groups = groups
         /\ Expansion(err, groups, used).used = used
<1>. DEFINE G == Seq(GroupSet)
            U == Seq(Names)
<1>1. groups \in G /\ used \in U
  OBVIOUS
<1>. HIDE DEF G, U
<1>2. [err |-> err, groups |-> groups, used |-> used] \in [err : Errors, groups : G, used : U]
  BY <1>1
<1>. QED
  BY <1>2 DEF Expansion, Expansions, G, U

\* What dedupNamedGroups makes of a group.
Renamed(g, used) ==
  [piece |-> g.piece, name |-> UniqueName(g.name, used), around |-> g.around, inner |-> TRUE]

LEMMA RenameIs ==
  ASSUME NEW d \in Expansions, NEW g \in GroupSet
  PROVE  /\ Renamed(g, d.used) \in GroupSet
         /\ Rename(d, g) = Expansion(d.err, Append(d.groups, Renamed(g, d.used)), Append(d.used, g.name))
         /\ Rename(d, g) \in Expansions /\ Rename(d, g).err = d.err
<1>. DEFINE r == Renamed(g, d.used)
<1>1. /\ g.piece \in Pieces /\ g.name \in Names /\ g.around \in Nat
      /\ d.err \in Errors /\ d.groups \in Seq(GroupSet) /\ d.used \in Seq(Names)
  <2>1. g.piece \in Pieces /\ g.name \in Names /\ g.around \in Nat
    BY DEF GroupSet
  <2>2. d.err \in Errors /\ d.groups \in Seq(GroupSet) /\ d.used \in Seq(Names)
    BY DEF Expansions
  <2>. QED
    BY <2>1, <2>2
<1>2. UniqueName(g.name, d.used) \in Names
  BY <1>1, UniqueNameIs
<1>3. r \in GroupSet
  BY <1>1, <1>2 DEF GroupSet, Renamed
<1>4. [g EXCEPT !.name = UniqueName(@, d.used), !.inner = TRUE] = r
  <2>. DEFINE x == UniqueName(g.name, d.used)
              y == [g EXCEPT !.name = x]
              z == [y EXCEPT !.inner = TRUE]
              F == {"piece", "name", "around", "inner"}
  <2>. HIDE DEF x
  <2>1. g = [f \in F |-> g[f]]
    BY DEF GroupSet
  <2>2. y = [f \in F |-> IF f = "name" THEN x ELSE g[f]]
    BY <2>1
  <2>. HIDE DEF y
  <2>3. z = [f \in F |-> IF f = "inner" THEN TRUE ELSE y[f]]
    BY <2>2
  <2>. HIDE DEF z
  <2>4. z = [piece |-> g.piece, name |-> x, around |-> g.around, inner |-> TRUE]
    BY ONLY <2>2, <2>3
  <2>. QED
    BY ONLY <2>4 DEF x, y, z, r, Renamed
<1>. HIDE DEF r
<1>5. Rename(d, g) = Expansion(d.err, Append(d.groups, r), Append(d.used, g.name))
  BY <1>4 DEF Rename
<1>6. Append(d.groups, r) \in Seq(GroupSet) /\ Append(d.used, g.name) \in Seq(Names)
  BY <1>1, <1>3, AppendProperties
<1>7. Rename(d, g) \in Expansions /\ Rename(d, g).err = d.err
  <2>. DEFINE G == Append(d.groups, r)
              U == Append(d.used, g.name)
              err == d.err
  <2>1. err \in Errors /\ G \in Seq(GroupSet) /\ U \in Seq(Names)
    BY <1>1, <1>6
  <2>. HIDE DEF G, U, err
  <2>2. Expansion(err, G, U) \in Expansions /\ Expansion(err, G, U).err = err
    BY <2>1, ExpansionIs
  <2>. QED
    BY <1>5, <2>2 DEF G, U, err
<1>. QED
  BY <1>3, <1>5, <1>7 DEF r

Renames(e, f) ==
  /\ f[0] = Expansion(e.err, <<>>, e.used)
  /\ \A k \in 1 .. Len(e.groups) : f[k] = Rename(f[k - 1], e.groups[k])

LEMMA DedupUnfold ==
  ASSUME NEW e \in Expansions
  PROVE  \E f : Renames(e, f) /\ DedupNamedGroups(e) = f[Len(e.groups)]
<1>. DEFINE n == Len(e.groups)
            A == Expansions
            base == Expansion(e.err, <<>>, e.used)
            body(a, k) == Rename(a, e.groups[k])
            step == [p \in A \X (1 .. n) |-> body(p[1], p[2])]
            IsLoop(g) == g = [k \in 0 .. n |-> IF k = 0 THEN base ELSE body(g[k - 1], k)]
            cur == CHOOSE g : IsLoop(g)
<1>1. n \in Nat /\ e.groups \in Seq(GroupSet) /\ e.err \in Errors /\ e.used \in Seq(Names)
  BY LenProperties DEF Expansions
<1>2. base \in A
  BY <1>1 DEF Expansions, Expansion
<1>3. \A a \in A, k \in 1 .. n : body(a, k) \in A
  <2>. TAKE a \in A, k \in 1 .. n
  <2>1. e.groups[k] \in GroupSet
    BY <1>1, ElementOfSeq
  <2>. QED
    BY <2>1, RenameIs
<1>4. step \in [A \X (1 .. n) -> A]
  <2>. HIDE DEF A, body
  <2>. QED
    BY <1>3
<1>. HIDE DEF A, body
<1>5. PICK f \in [0 .. n -> A] :
        f[0] = base /\ \A k \in 1 .. n : f[k] = step[<<f[k - 1], k>>]
  <2>. HIDE DEF step, n, base
  <2>1. HasLoop(A, base, n, step)
    BY <1>1, <1>2, <1>4, LoopExists
  <2>. QED
    BY <2>1 DEF HasLoop
<1>. HIDE DEF n, base
<1>6. \A k \in 1 .. n : f[k] = body(f[k - 1], k)
  <2>. TAKE k \in 1 .. n
  <2>1. k - 1 \in 0 .. n
    BY <1>1
  <2>2. <<f[k - 1], k>> \in A \X (1 .. n)
    BY <1>5, <2>1
  <2>. QED
    BY <1>5, <2>2
<1>7. IsLoop(f)
  <2>1. f = [k \in 0 .. n |-> f[k]]
    BY <1>5
  <2>2. \A k \in 0 .. n : f[k] = IF k = 0 THEN base ELSE body(f[k - 1], k)
    <3>. TAKE k \in 0 .. n
    <3>1. k = 0 \/ (k # 0 /\ k \in 1 .. n)
      BY <1>1
    <3>. QED
      BY <1>5, <1>6, <3>1
  <2>. DEFINE g == [k \in 0 .. n |-> IF k = 0 THEN base ELSE body(f[k - 1], k)]
  <2>3. g = [k \in 0 .. n |-> g[k]] /\ \A k \in 0 .. n : g[k] = f[k]
    BY <2>2
  <2>4. IsLoop(f) <=> f = g
    OBVIOUS
  <2>. HIDE DEF g, IsLoop
  <2>. QED
    BY ONLY <2>1, <2>3, <2>4
<1>8. IsLoop(cur)
  BY <1>7
<1>9. DedupNamedGroups(e) = cur[n]
  BY DEF DedupNamedGroups, body, n, base
<1>. HIDE DEF cur
<1>10. Renames(e, cur)
  <2>1. \A k \in 0 .. n : cur[k] = IF k = 0 THEN base ELSE body(cur[k - 1], k)
    BY <1>8
  <2>2. 0 \in 0 .. n /\ \A k \in 1 .. n : k \in 0 .. n /\ k # 0
    BY <1>1
  <2>3. cur[0] = base /\ \A k \in 1 .. n : cur[k] = body(cur[k - 1], k)
    BY <2>1, <2>2
  <2>. QED
    BY <2>3 DEF Renames, body, base, n
<1>. QED
  BY <1>9, <1>10 DEF n

LEMMA DedupIs ==
  ASSUME NEW e \in Expansions
  PROVE  DedupNamedGroups(e) \in Expansions /\ DedupNamedGroups(e).err = e.err
<1>1. PICK f : Renames(e, f) /\ DedupNamedGroups(e) = f[Len(e.groups)]
  BY DedupUnfold
<1>. DEFINE n == Len(e.groups)
            P == {k \in 0 .. n : f[k] \in Expansions /\ f[k].err = e.err}
<1>2. n \in Nat /\ e.groups \in Seq(GroupSet) /\ e.err \in Errors /\ e.used \in Seq(Names)
  BY LenProperties DEF Expansions
<1>3. 0 \in P
  <2>1. <<>> \in Seq(GroupSet)
    BY EmptySeq
  <2>2. f[0] = Expansion(e.err, <<>>, e.used)
    BY <1>1 DEF Renames
  <2>3. 0 \in 0 .. n
    BY <1>2
  <2>. DEFINE err == e.err
              U == e.used
              G == <<>>
  <2>4. err \in Errors /\ G \in Seq(GroupSet) /\ U \in Seq(Names)
    BY <1>2, <2>1
  <2>. HIDE DEF err, G, U
  <2>5. Expansion(err, G, U) \in Expansions /\ Expansion(err, G, U).err = err
    BY <2>4, ExpansionIs
  <2>6. f[0] = Expansion(err, G, U)
    BY <2>2 DEF err, G, U
  <2>7. f[0] \in Expansions /\ f[0].err = e.err
    BY ONLY <2>5, <2>6 DEF err
  <2>. QED
    BY <2>3, <2>7
<1>4. ASSUME NEW k \in 1 .. n, k - 1 \in P PROVE k \in P
  <2>1. e.groups[k] \in GroupSet /\ k \in 0 .. n
    BY <1>2, ElementOfSeq
  <2>2. f[k] = Rename(f[k - 1], e.groups[k])
    BY <1>1 DEF Renames
  <2>3. f[k - 1] \in Expansions /\ f[k - 1].err = e.err
    BY <1>4
  <2>4. f[k] \in Expansions /\ f[k].err = e.err
    BY <2>1, <2>2, <2>3, RenameIs
  <2>. QED
    BY <2>1, <2>4
<1>. HIDE DEF P
<1>5. n \in P
  BY <1>2, <1>3, <1>4, AlongLoop DEF P
<1>. QED
  BY <1>1, <1>5 DEF P

LEMMA Unknown ==
  {"none", "unknown", "too deep"} \subseteq Errors /\ "unknown" # "none" /\ "too deep" # "none"
<1>1. "unknown" # "none" /\ "too deep" # "none"
  OBVIOUS
<1>. QED
  BY <1>1 DEF Errors

LEMMA OpenedIs ==
  ASSUME NEW piece \in Pieces, NEW name \in Names, NEW around \in Nat
  PROVE  Opened(piece, name, around) \in GroupSet
BY DEF Opened, GroupSet

LEMMA PieceIs ==
  ASSUME NEW piece \in Pieces
  PROVE  /\ piece.kind \in {"ref", "group"}
         /\ piece.kind = "group" => piece.name \in Names
         /\ piece.kind # "group" =>
              /\ piece.kind = "ref"
              /\ piece.field # None => piece.field \in DOMAIN Sanitized
                                       /\ Sanitized[piece.field] \in Names
<1>. DEFINE D == DOMAIN Sanitized
            N == Names
<1>1. \A field \in D : Sanitized[field] \in N
  BY ExpandAssumption
<1>2. piece \in [kind : {"ref"}, prim : STRING, field : D \cup {None}]
      \/ piece \in [kind : {"group"}, name : N]
  BY DEF Pieces
<1>. HIDE DEF D, N
<1>3. "ref" # "group"
  OBVIOUS
<1>4. CASE piece \in [kind : {"ref"}, prim : STRING, field : D \cup {None}]
  <2>1. piece.kind = "ref" /\ piece.field \in D \cup {None}
    BY <1>4
  <2>. QED
    BY <1>1, <1>3, <2>1 DEF D, N
<1>5. CASE piece \in [kind : {"group"}, name : N]
  <2>1. piece.kind = "group" /\ piece.name \in N
    BY <1>5
  <2>. QED
    BY <1>3, <2>1 DEF N
<1>. QED
  BY ONLY <1>2, <1>4, <1>5

\* A reference's own group is named after the body's.
LEMMA WrappedIs ==
  ASSUME NEW piece \in Pieces, piece.kind # "group", NEW body \in Expansions
  PROVE  LET deduped == DedupNamedGroups(body)
             name == Sanitized[piece.field]
             own == Opened(piece, UniqueName(name, deduped.used), Len(deduped.groups)) IN
         /\ Wrapped(piece, body) \in Expansions
         /\ Wrapped(piece, body).err = body.err
         /\ piece.field = None => Wrapped(piece, body) = deduped
         /\ piece.field # None =>
              /\ own \in GroupSet
              /\ Wrapped(piece, body).groups = <<own>> \o deduped.groups
              /\ Wrapped(piece, body).used = Append(deduped.used, name)
<1>. DEFINE deduped == DedupNamedGroups(body)
            name == Sanitized[piece.field]
            own == Opened(piece, UniqueName(name, deduped.used), Len(deduped.groups))
            err == deduped.err
            G == <<own>> \o deduped.groups
            U == Append(deduped.used, name)
<1>1. deduped \in Expansions /\ err = body.err
  BY DedupIs
<1>2. err \in Errors /\ deduped.groups \in Seq(GroupSet) /\ deduped.used \in Seq(Names)
  BY <1>1 DEF Expansions
<1>. HIDE DEF deduped
<1>3. CASE piece.field = None
  BY <1>1, <1>3 DEF Wrapped, deduped
<1>4. CASE piece.field # None
  <2>1. name \in Names
    BY <1>4, PieceIs
  <2>2. UniqueName(name, deduped.used) \in Names
    BY <1>2, <2>1, UniqueNameIs
  <2>3. Len(deduped.groups) \in Nat
    BY <1>2, LenProperties
  <2>4. own \in GroupSet
    BY <2>2, <2>3, OpenedIs
  <2>5. G \in Seq(GroupSet)
    <3>. HIDE DEF own
    <3>1. <<own>> \in Seq(GroupSet)
      BY <2>4
    <3>. QED
      BY <1>2, <3>1, ConcatProperties
  <2>6. U \in Seq(Names)
    BY <1>2, <2>1, AppendProperties
  <2>7. Wrapped(piece, body) = Expansion(err, G, U)
    BY <1>4 DEF Wrapped, deduped
  <2>. HIDE DEF G, U, err
  <2>8. /\ Expansion(err, G, U) \in Expansions /\ Expansion(err, G, U).err = err
        /\ Expansion(err, G, U).groups = G /\ Expansion(err, G, U).used = U
    BY <1>2, <2>5, <2>6, ExpansionIs
  <2>9. /\ Wrapped(piece, body) \in Expansions /\ Wrapped(piece, body).err = err
        /\ Wrapped(piece, body).groups = G /\ Wrapped(piece, body).used = U
    BY ONLY <2>7, <2>8
  <2>. QED
    BY <1>1, <1>4, <2>4, <2>9 DEF G, U, deduped
<1>. QED
  BY <1>3, <1>4

\* What one piece does to an expansion.
LEMMA ExpandPieceIs ==
  ASSUME NEW e \in Expansions, NEW piece \in Pieces, NEW extras, Extras(extras),
         NEW deeper \in [GrokCalls -> Expansions]
  PROVE  LET r == ExpandPiece(e, piece, extras, deeper)
             body == Body(piece.prim, extras)
             inside == deeper[GrokCall(body, e.used)] IN
         /\ r \in Expansions
         /\ piece.kind = "group" =>
              /\ Opened(piece, piece.name, 0) \in GroupSet
              /\ r.err = e.err /\ r.used = e.used
              /\ r.groups = Append(e.groups, Opened(piece, piece.name, 0))
         /\ piece.kind # "group" /\ body = None => r.err # "none"
         /\ piece.kind # "group" /\ body # None =>
              /\ body \in Seq(Pieces) /\ GrokCall(body, e.used) \in GrokCalls
              /\ inside \in Expansions
              /\ inside.err # "none" => r.err # "none"
              /\ inside.err = "none" =>
                   /\ Wrapped(piece, inside) \in Expansions
                   /\ r.err = e.err
                   /\ r.groups = e.groups \o Wrapped(piece, inside).groups
                   /\ r.used = Wrapped(piece, inside).used
<1>. DEFINE r == ExpandPiece(e, piece, extras, deeper)
            body == Body(piece.prim, extras)
            inside == deeper[GrokCall(body, e.used)]
            whole == Wrapped(piece, inside)
<1>1. e.err \in Errors /\ e.groups \in Seq(GroupSet) /\ e.used \in Seq(Names)
  BY DEF Expansions
<1>2. CASE piece.kind = "group"
  <2>. DEFINE G == Append(e.groups, Opened(piece, piece.name, 0))
              err == e.err
              U == e.used
  <2>1. Opened(piece, piece.name, 0) \in GroupSet
    BY <1>2, PieceIs, OpenedIs
  <2>2. G \in Seq(GroupSet)
    BY <1>1, <2>1, AppendProperties
  <2>3. r = Expansion(err, G, U)
    BY <1>2 DEF ExpandPiece
  <2>4. err \in Errors /\ U \in Seq(Names)
    BY <1>1
  <2>. HIDE DEF G, err, U, r
  <2>5. r \in Expansions /\ r.err = err /\ r.groups = G /\ r.used = U
    BY <2>2, <2>3, <2>4, ExpansionIs
  <2>. QED
    BY <1>2, <2>1, <2>5 DEF G, err, U, r
<1>3. \A x \in Errors : x # "none" => FirstError(e.err, x) \in Errors /\ FirstError(e.err, x) # "none"
  BY <1>1 DEF FirstError, Errors
<1>4. CASE piece.kind # "group" /\ body = None
  <2>. DEFINE err == FirstError(e.err, "unknown")
              G == e.groups
              U == e.used
  <2>1. r = Expansion(err, G, U)
    BY <1>4 DEF ExpandPiece
  <2>3. err \in Errors /\ err # "none"
    <3>1. "unknown" \in Errors /\ "unknown" # "none"
      BY ONLY Unknown
    <3>. QED
      BY ONLY <1>3, <3>1
  <2>4. G \in Seq(GroupSet) /\ U \in Seq(Names)
    BY <1>1
  <2>. HIDE DEF G, err, U, r
  <2>5. r \in Expansions /\ r.err = err
    BY <2>1, <2>3, <2>4, ExpansionIs
  <2>. QED
    BY <1>4, <2>3, <2>5 DEF r
<1>5. CASE piece.kind # "group" /\ body # None
  <2>1. body \in Seq(Pieces)
    BY <1>5, BodyIs
  <2>2. GrokCall(body, e.used) \in GrokCalls
    <3>. HIDE DEF body
    <3>. QED
      BY <1>1, <2>1 DEF GrokCall, GrokCalls
  <2>3. inside \in Expansions
    BY <2>2
  <2>4. inside.err \in Errors /\ inside.used \in Seq(Names)
    BY <2>3 DEF Expansions
  <2>. HIDE DEF inside
  <2>5. CASE inside.err # "none"
    <3>. DEFINE err == FirstError(e.err, inside.err)
                G == e.groups
                U == inside.used
    <3>1. r = Expansion(err, G, U)
      BY <1>5, <2>5 DEF ExpandPiece, inside
    <3>2. err \in Errors /\ err # "none" /\ G \in Seq(GroupSet) /\ U \in Seq(Names)
      BY <1>1, <1>3, <2>4, <2>5
    <3>. HIDE DEF G, err, U, r
    <3>3. r \in Expansions /\ r.err = err
      BY <3>1, <3>2, ExpansionIs
    <3>. QED
      BY <1>5, <2>1, <2>2, <2>3, <2>5, <3>2, <3>3 DEF r, inside
  <2>6. CASE inside.err = "none"
    <3>. DEFINE err == e.err
                G == e.groups \o whole.groups
                U == whole.used
    <3>1. r = Expansion(err, G, U)
      BY <1>5, <2>6 DEF ExpandPiece, inside
    <3>2. whole \in Expansions
      BY <1>5, <2>3, WrappedIs
    <3>3. whole.groups \in Seq(GroupSet) /\ whole.used \in Seq(Names)
      BY <3>2 DEF Expansions
    <3>4. err \in Errors /\ G \in Seq(GroupSet) /\ U \in Seq(Names)
      BY <1>1, <3>3, ConcatProperties
    <3>. HIDE DEF G, err, U, r
    <3>5. r \in Expansions /\ r.err = err /\ r.groups = G /\ r.used = U
      BY <3>1, <3>4, ExpansionIs
    <3>. QED
      BY <1>5, <2>1, <2>2, <2>3, <2>6, <3>2, <3>5 DEF r, inside, G, err, U
  <2>. QED
    BY <2>5, <2>6
<1>. QED
  BY <1>2, <1>4, <1>5

Expands(f, call, extras, deeper) ==
  /\ f[0] = Expansion("none", <<>>, call.used)
  /\ \A k \in 1 .. Len(call.grok) : f[k] = ExpandPiece(f[k - 1], call.grok[k], extras, deeper)

LEMMA CallIs ==
  ASSUME NEW call \in GrokCalls
  PROVE  /\ call.grok \in Seq(Pieces) /\ call.used \in Seq(Names) /\ Len(call.grok) \in Nat
         /\ \A k \in 1 .. Len(call.grok) : call.grok[k] \in Pieces
         /\ Expansion("none", <<>>, call.used) \in Expansions
         /\ TooDeep(call) \in Expansions /\ TooDeep(call).err # "none"
<1>1. call.grok \in Seq(Pieces) /\ call.used \in Seq(Names)
  BY DEF GrokCalls
<1>2. Len(call.grok) \in Nat /\ \A k \in 1 .. Len(call.grok) : call.grok[k] \in Pieces
  BY <1>1, LenProperties, ElementOfSeq
<1>3. Expansion("none", <<>>, call.used) \in Expansions
  <2>. DEFINE err == "none"
              G == <<>>
              U == call.used
  <2>1. err \in Errors /\ G \in Seq(GroupSet) /\ U \in Seq(Names)
    BY <1>1, EmptySeq, Unknown
  <2>. HIDE DEF err, G, U
  <2>2. Expansion(err, G, U) \in Expansions
    BY <2>1, ExpansionIs
  <2>. QED
    BY <2>2 DEF err, G, U
<1>4. TooDeep(call) \in Expansions /\ TooDeep(call).err # "none"
  <2>. DEFINE err == "too deep"
              G == <<>>
              U == call.used
  <2>1. err \in Errors /\ G \in Seq(GroupSet) /\ U \in Seq(Names) /\ err # "none"
    BY <1>1, EmptySeq, Unknown
  <2>2. TooDeep(call) = Expansion(err, G, U)
    BY DEF TooDeep
  <2>. HIDE DEF err, G, U
  <2>3. Expansion(err, G, U) \in Expansions /\ Expansion(err, G, U).err = err
    BY <2>1, ExpansionIs
  <2>. QED
    BY <2>1, <2>2, <2>3
<1>. QED
  BY <1>1, <1>2, <1>3, <1>4

LEMMA PiecesUnfold ==
  ASSUME NEW call \in GrokCalls, NEW extras, Extras(extras),
         NEW deeper \in [GrokCalls -> Expansions]
  PROVE  \E f \in [0 .. Len(call.grok) -> Expansions] : Expands(f, call, extras, deeper) /\ ExpandPieces(call, extras, deeper) = f[Len(call.grok)]
<1>. DEFINE n == Len(call.grok)
            A == Expansions
            base == Expansion("none", <<>>, call.used)
            body(a, k) == ExpandPiece(a, call.grok[k], extras, deeper)
            step == [p \in A \X (1 .. n) |-> body(p[1], p[2])]
            IsLoop(g) == g = [k \in 0 .. n |-> IF k = 0 THEN base ELSE body(g[k - 1], k)]
            cur == CHOOSE g : IsLoop(g)
<1>1. n \in Nat
  BY CallIs
<1>2. base \in A
  BY CallIs
<1>3. \A a \in A, k \in 1 .. n : body(a, k) \in A
  <2>. TAKE a \in A, k \in 1 .. n
  <2>1. call.grok[k] \in Pieces
    BY CallIs
  <2>. QED
    BY <2>1, ExpandPieceIs
<1>4. step \in [A \X (1 .. n) -> A]
  <2>. HIDE DEF A, body, n
  <2>. QED
    BY <1>3
<1>. HIDE DEF A, body, n, base
<1>5. PICK f \in [0 .. n -> A] :
        f[0] = base /\ \A k \in 1 .. n : f[k] = step[<<f[k - 1], k>>]
  <2>. HIDE DEF step
  <2>1. HasLoop(A, base, n, step)
    BY <1>1, <1>2, <1>4, LoopExists
  <2>. QED
    BY <2>1 DEF HasLoop
<1>6. \A k \in 1 .. n : f[k] = body(f[k - 1], k)
  <2>. TAKE k \in 1 .. n
  <2>1. k - 1 \in 0 .. n
    BY <1>1
  <2>2. <<f[k - 1], k>> \in A \X (1 .. n)
    BY <1>5, <2>1
  <2>. QED
    BY <1>5, <2>2
<1>7. IsLoop(f)
  <2>1. f = [k \in 0 .. n |-> f[k]]
    BY <1>5
  <2>2. \A k \in 0 .. n : f[k] = IF k = 0 THEN base ELSE body(f[k - 1], k)
    <3>. TAKE k \in 0 .. n
    <3>1. k = 0 \/ (k # 0 /\ k \in 1 .. n)
      BY <1>1
    <3>. QED
      BY <1>5, <1>6, <3>1
  <2>. DEFINE g == [k \in 0 .. n |-> IF k = 0 THEN base ELSE body(f[k - 1], k)]
  <2>3. g = [k \in 0 .. n |-> g[k]] /\ \A k \in 0 .. n : g[k] = f[k]
    BY <2>2
  <2>4. IsLoop(f) <=> f = g
    OBVIOUS
  <2>. HIDE DEF g, IsLoop
  <2>. QED
    BY ONLY <2>1, <2>3, <2>4
<1>8. IsLoop(cur)
  BY <1>7
<1>9. ExpandPieces(call, extras, deeper) = cur[n]
  BY DEF ExpandPieces, body, n, base
<1>. HIDE DEF cur
<1>10. \A k \in 0 .. n : cur[k] = IF k = 0 THEN base ELSE body(cur[k - 1], k)
  BY <1>8
<1>11. cur = [k \in 0 .. n |-> cur[k]]
  <2>. DEFINE g == [k \in 0 .. n |-> IF k = 0 THEN base ELSE body(cur[k - 1], k)]
  <2>1. cur = g /\ g = [k \in 0 .. n |-> g[k]]
    BY <1>8
  <2>. HIDE DEF g
  <2>. QED
    BY ONLY <2>1
<1>12. 0 \in 0 .. n /\ \A k \in 1 .. n : k \in 0 .. n /\ k # 0
  BY <1>1
<1>13. cur[0] = base /\ \A k \in 1 .. n : cur[k] = body(cur[k - 1], k)
  BY <1>10, <1>12
<1>14. \A k \in 0 .. n : cur[k] \in A
  <2>. DEFINE S == {k \in Nat : k \in 0 .. n => cur[k] \in A}
  <2>1. 0 \in S
    BY <1>2, <1>13
  <2>2. \A k \in Nat : k \in S => k + 1 \in S
    <3>1. SUFFICES ASSUME NEW k \in Nat, k \in S, k + 1 \in 0 .. n PROVE cur[k + 1] \in A
      OBVIOUS
    <3>2. k + 1 \in 1 .. n /\ (k + 1) - 1 = k /\ cur[k] \in A
      BY <1>1, <3>1
    <3>. QED
      BY <1>3, <1>13, <3>2
  <2>. HIDE DEF S
  <2>3. Nat \subseteq S
    BY <2>1, <2>2, UpFromZero
  <2>. QED
    BY <1>1, <2>3 DEF S
<1>15. cur \in [0 .. n -> A]
  BY <1>11, <1>14
<1>16. Expands(cur, call, extras, deeper)
  BY <1>13 DEF Expands, body, base, n
<1>. QED
  BY <1>9, <1>15, <1>16 DEF n, A

LEMMA PiecesIs ==
  ASSUME NEW call \in GrokCalls, NEW extras, Extras(extras),
         NEW deeper \in [GrokCalls -> Expansions]
  PROVE  ExpandPieces(call, extras, deeper) \in Expansions
<1>1. PICK f \in [0 .. Len(call.grok) -> Expansions] :
        ExpandPieces(call, extras, deeper) = f[Len(call.grok)]
  BY PiecesUnfold
<1>2. Len(call.grok) \in 0 .. Len(call.grok)
  BY CallIs
<1>. QED
  BY <1>1, <1>2

\* What expandGrok returns by the levels that are left.
Levels(F, extras) ==
  /\ F[0] = [call \in GrokCalls |-> TooDeep(call)]
  /\ \A k \in 1 .. MaxDepth + 1 :
       F[k] = [call \in GrokCalls |-> ExpandPieces(call, extras, F[k - 1])]

LEMMA LevelsUnfold ==
  ASSUME NEW extras, Extras(extras)
  PROVE  \E f \in [0 .. MaxDepth + 1 -> [GrokCalls -> Expansions]] : Levels(f, extras) /\ ExpandGrok(extras) = f[MaxDepth + 1]
<1>. DEFINE n == MaxDepth + 1
            A == [GrokCalls -> Expansions]
            base == [call \in GrokCalls |-> TooDeep(call)]
            body(a, k) == [call \in GrokCalls |-> ExpandPieces(call, extras, a)]
            step == [p \in A \X (1 .. n) |-> body(p[1], p[2])]
            IsLoop(g) == g = [k \in 0 .. n |-> IF k = 0 THEN base ELSE body(g[k - 1], k)]
            cur == CHOOSE g : IsLoop(g)
<1>1. n \in Nat
  BY ExpandAssumption
<1>2. base \in A
  BY CallIs
<1>3. \A a \in A, k \in 1 .. n : body(a, k) \in A
  BY PiecesIs
<1>4. step \in [A \X (1 .. n) -> A]
  <2>. HIDE DEF A, body, n
  <2>. QED
    BY <1>3
<1>. HIDE DEF A, body, n, base
<1>5. PICK f \in [0 .. n -> A] :
        f[0] = base /\ \A k \in 1 .. n : f[k] = step[<<f[k - 1], k>>]
  <2>. HIDE DEF step
  <2>1. HasLoop(A, base, n, step)
    BY <1>1, <1>2, <1>4, LoopExists
  <2>. QED
    BY <2>1 DEF HasLoop
<1>6. \A k \in 1 .. n : f[k] = body(f[k - 1], k)
  <2>. TAKE k \in 1 .. n
  <2>1. k - 1 \in 0 .. n
    BY <1>1
  <2>2. <<f[k - 1], k>> \in A \X (1 .. n)
    BY <1>5, <2>1
  <2>. QED
    BY <1>5, <2>2
<1>7. IsLoop(f)
  <2>1. f = [k \in 0 .. n |-> f[k]]
    BY <1>5
  <2>2. \A k \in 0 .. n : f[k] = IF k = 0 THEN base ELSE body(f[k - 1], k)
    <3>. TAKE k \in 0 .. n
    <3>1. k = 0 \/ (k # 0 /\ k \in 1 .. n)
      BY <1>1
    <3>. QED
      BY <1>5, <1>6, <3>1
  <2>. DEFINE g == [k \in 0 .. n |-> IF k = 0 THEN base ELSE body(f[k - 1], k)]
  <2>3. g = [k \in 0 .. n |-> g[k]] /\ \A k \in 0 .. n : g[k] = f[k]
    BY <2>2
  <2>4. IsLoop(f) <=> f = g
    OBVIOUS
  <2>. HIDE DEF g, IsLoop
  <2>. QED
    BY ONLY <2>1, <2>3, <2>4
<1>8. IsLoop(cur)
  BY <1>7
<1>9. ExpandGrok(extras) = cur[n]
  BY DEF ExpandGrok, body, n, base
<1>. HIDE DEF cur
<1>10. \A k \in 0 .. n : cur[k] = IF k = 0 THEN base ELSE body(cur[k - 1], k)
  BY <1>8
<1>11. cur = [k \in 0 .. n |-> cur[k]]
  <2>. DEFINE g == [k \in 0 .. n |-> IF k = 0 THEN base ELSE body(cur[k - 1], k)]
  <2>1. cur = g /\ g = [k \in 0 .. n |-> g[k]]
    BY <1>8
  <2>. HIDE DEF g
  <2>. QED
    BY ONLY <2>1
<1>12. 0 \in 0 .. n /\ \A k \in 1 .. n : k \in 0 .. n /\ k # 0
  BY <1>1
<1>13. cur[0] = base /\ \A k \in 1 .. n : cur[k] = body(cur[k - 1], k)
  BY <1>10, <1>12
<1>14. \A k \in 0 .. n : cur[k] \in A
  <2>. DEFINE S == {k \in Nat : k \in 0 .. n => cur[k] \in A}
  <2>1. 0 \in S
    BY <1>2, <1>13
  <2>2. \A k \in Nat : k \in S => k + 1 \in S
    <3>1. SUFFICES ASSUME NEW k \in Nat, k \in S, k + 1 \in 0 .. n PROVE cur[k + 1] \in A
      OBVIOUS
    <3>2. k + 1 \in 1 .. n /\ (k + 1) - 1 = k /\ cur[k] \in A
      BY <1>1, <3>1
    <3>. QED
      BY <1>3, <1>13, <3>2
  <2>. HIDE DEF S
  <2>3. Nat \subseteq S
    BY <2>1, <2>2, UpFromZero
  <2>. QED
    BY <1>1, <2>3 DEF S
<1>15. cur \in [0 .. n -> A]
  BY <1>11, <1>14
<1>16. Levels(cur, extras)
  BY <1>13 DEF Levels, body, base, n
<1>. QED
  BY <1>9, <1>15, <1>16 DEF n, A

LEMMA ExpandedIs ==
  ASSUME NEW grok \in Seq(Pieces), NEW extras, Extras(extras)
  PROVE  Expanded(grok, extras) \in Expansions
<1>1. PICK f \in [0 .. MaxDepth + 1 -> [GrokCalls -> Expansions]] : ExpandGrok(extras) = f[MaxDepth + 1]
  BY LevelsUnfold
<1>2. MaxDepth + 1 \in 0 .. MaxDepth + 1
  BY ExpandAssumption
<1>3. GrokCall(grok, <<>>) \in GrokCalls
  <2>1. <<>> \in Seq(Names)
    BY EmptySeq
  <2>. QED
    BY <2>1 DEF GrokCall, GrokCalls
<1>. QED
  BY <1>1, <1>2, <1>3 DEF Expanded

\* What is compiled is the expansion, or it is no regexp.
LEMMA CompileIs ==
  ASSUME NEW grok \in Seq(Pieces), NEW extras, Extras(extras)
  PROVE  /\ CompileGrok(grok, extras) \in Expansions
         /\ CompileGrok(grok, extras).groups = Expanded(grok, extras).groups
         /\ CompileGrok(grok, extras).err = "none" <=>
              Expanded(grok, extras).err = "none" /\ Parsable(grok, extras)
<1>. DEFINE e == Expanded(grok, extras)
            err == "not a regexp"
            G == e.groups
            U == e.used
<1>1. e \in Expansions
  BY ExpandedIs
<1>. HIDE DEF e
<1>2. G \in Seq(GroupSet) /\ U \in Seq(Names)
  BY <1>1 DEF Expansions
<1>3. err \in Errors /\ err # "none"
  BY DEF Errors
<1>. HIDE DEF err, G, U
<1>4. Expansion(err, G, U) \in Expansions /\ Expansion(err, G, U).err = err
      /\ Expansion(err, G, U).groups = G
  BY <1>2, <1>3, ExpansionIs
<1>5. CompileGrok(grok, extras) =
        IF e.err = "none" /\ ~Parsable(grok, extras) THEN Expansion(err, G, U) ELSE e
  BY DEF CompileGrok, e, err, G, U
<1>. QED
  BY <1>1, <1>3, <1>4, <1>5 DEF e, G

-----------------------------------------------------------------------------
(***************************************************************************)
(* The answers' invariant: an answer that is still to be written is what   *)
(* Run makes of the connection's own request with one entry that compiles  *)
(***************************************************************************)
Searched(pasted) ==
  IF Tokenised(pasted)
  THEN {i \in DOMAIN SplitLines(pasted) : SplitLines(pasted)[i] # "empty"} ELSE {}

IsAnswer(r, e, s, captures, a) ==
  LET groups == CompileGrok(e.grok, e.extras).groups IN
  /\ s \in Captures(groups) /\ captures \in [Searched(r.text) -> {s, None}]
  /\ a = [groups |-> groups, captures |-> captures,
          response |-> Response(r.text, e.grok, e.extras, captures)]

AnswerTo(r, a) == \E e \in Compiled : \E s, captures : IsAnswer(r, e, s, captures, a)

AnswerInv ==
  /\ DOMAIN pc = Conns /\ DOMAIN request = Conns /\ DOMAIN todo = Conns /\ DOMAIN answer = Conns
  /\ library # None => library = Compiled
  /\ \A c \in Conns : answer[c] # None =>
       pc[c] = "reply" /\ todo[c] # <<>> /\ AnswerTo(request[c], answer[c])

LEMMA InitAnswerInv == Init => AnswerInv
BY DEF Init, AnswerInv

\* Without an answer of its own, a step leaves the others' alone.
LEMMA KeepsAnswerInv ==
  ASSUME AnswerInv, NEW c \in Conns,
         DOMAIN pc' = Conns /\ DOMAIN request' = Conns /\ DOMAIN todo' = Conns /\ DOMAIN answer' = Conns,
         library' \in {library, Compiled},
         answer'[c] # None =>
           pc'[c] = "reply" /\ todo'[c] # <<>> /\ AnswerTo(request'[c], answer'[c]),
         \A d \in Conns \ {c} : /\ pc'[d] = pc[d] /\ request'[d] = request[d]
                                /\ todo'[d] = todo[d] /\ answer'[d] = answer[d]
  PROVE  AnswerInv'
<1>1. library' # None => library' = Compiled'
  BY DEF AnswerInv, Compiled
<1>2. ASSUME NEW d \in Conns, answer'[d] # None
      PROVE  pc'[d] = "reply" /\ todo'[d] # <<>> /\ AnswerTo(request'[d], answer'[d])
  BY <1>2 DEF AnswerInv
<1>. QED
  BY <1>1, <1>2 DEF AnswerInv

LEMMA QuietAnswerInv ==
  ASSUME AnswerInv, NEW c \in Conns,
         \/ Accept(c) \/ ServePage(c) \/ RefuseDiscover(c) \/ DiscoverPanics(c)
         \/ Write(c) \/ Return(c) \/ CloseCompressor(c) \/ PutCompressor(c)
  PROVE  AnswerInv'
<1>1. pc[c] # "reply" \/ todo[c] = <<>>
  BY DEF Accept, ServePage, RefuseDiscover, DiscoverPanics, Write, Return, CloseCompressor,
         PutCompressor, Waiting
<1>2. answer[c] = None
  BY <1>1 DEF AnswerInv
<1>3. answer' = answer /\ library' \in {library, Compiled}
  BY DEF Accept, ServePage, RefuseDiscover, DiscoverPanics, Write, Return, CloseCompressor,
         PutCompressor
<1>4. /\ DOMAIN pc = Conns /\ DOMAIN request = Conns /\ DOMAIN todo = Conns
      /\ DOMAIN answer = Conns
  BY DEF AnswerInv
<1>5. /\ DOMAIN pc' = Conns /\ DOMAIN request' = Conns /\ DOMAIN todo' = Conns
      /\ \A d \in Conns \ {c} :
           pc'[d] = pc[d] /\ request'[d] = request[d] /\ todo'[d] = todo[d]
  BY <1>4 DEF Accept, ServePage, RefuseDiscover, Handled, DiscoverPanics, Write, Return,
              CloseCompressor, PutCompressor
<1>. QED
  BY <1>2, <1>3, <1>4, <1>5, KeepsAnswerInv

LEMMA RunAnswerInv ==
  ASSUME AnswerInv, NEW c \in Conns, RunDiscover(c)
  PROVE  AnswerInv'
<1>1. /\ library' = Compiled
      /\ todo' = [todo EXCEPT ![c] = <<Json(200)>>] /\ pc' = [pc EXCEPT ![c] = "reply"]
      /\ request' = request
  BY DEF RunDiscover, Handled
<1>2. PICK e \in Compiled : \E s \in Captures(CompileGrok(e.grok, e.extras).groups) :
        \E captures \in [Searched(request[c].text) -> {s, None}] :
          answer' = [answer EXCEPT ![c] =
            [groups |-> CompileGrok(e.grok, e.extras).groups, captures |-> captures,
             response |-> Response(request[c].text, e.grok, e.extras, captures)]]
  BY <1>1 DEF RunDiscover, Searched
<1>a. PICK s \in Captures(CompileGrok(e.grok, e.extras).groups) :
        \E captures \in [Searched(request[c].text) -> {s, None}] :
          answer' = [answer EXCEPT ![c] =
            [groups |-> CompileGrok(e.grok, e.extras).groups, captures |-> captures,
             response |-> Response(request[c].text, e.grok, e.extras, captures)]]
  BY <1>2
<1>3. PICK captures \in [Searched(request[c].text) -> {s, None}] :
        answer' = [answer EXCEPT ![c] =
          [groups |-> CompileGrok(e.grok, e.extras).groups, captures |-> captures,
           response |-> Response(request[c].text, e.grok, e.extras, captures)]]
  BY <1>a
<1>4. /\ DOMAIN pc = Conns /\ DOMAIN request = Conns /\ DOMAIN todo = Conns
      /\ DOMAIN answer = Conns
  BY DEF AnswerInv
<1>5. answer'[c] = [groups |-> CompileGrok(e.grok, e.extras).groups, captures |-> captures,
                    response |-> Response(request[c].text, e.grok, e.extras, captures)]
  BY <1>3, <1>4
<1>6. AnswerTo(request'[c], answer'[c])
  <2>1. IsAnswer(request[c], e, s, captures, answer'[c])
    BY <1>5 DEF IsAnswer
  <2>. QED
    BY <1>1, <2>1 DEF AnswerTo
<1>7. pc'[c] = "reply" /\ todo'[c] # <<>>
  BY <1>1, <1>4
<1>8. /\ DOMAIN pc' = Conns /\ DOMAIN request' = Conns /\ DOMAIN todo' = Conns
      /\ DOMAIN answer' = Conns
      /\ \A d \in Conns \ {c} : /\ pc'[d] = pc[d] /\ request'[d] = request[d]
                                /\ todo'[d] = todo[d] /\ answer'[d] = answer[d]
  BY <1>1, <1>3, <1>4
<1>. QED
  BY <1>1, <1>6, <1>7, <1>8, KeepsAnswerInv

LEMMA HeaderAnswerInv ==
  ASSUME AnswerInv, NEW c \in Conns, WriteHeader(c)
  PROVE  AnswerInv'
<1>1. \E encoding : SendHeader(c, encoding)
  BY DEF WriteHeader
<1>2. /\ pc' = [pc EXCEPT ![c] = "write"] /\ answer' = [answer EXCEPT ![c] = None]
      /\ library' = library /\ request' = request /\ todo' = todo
  BY <1>1 DEF SendHeader
<1>3. /\ DOMAIN pc = Conns /\ DOMAIN request = Conns /\ DOMAIN todo = Conns
      /\ DOMAIN answer = Conns
  BY DEF AnswerInv
<1>4. /\ DOMAIN pc' = Conns /\ DOMAIN request' = Conns /\ DOMAIN todo' = Conns
      /\ DOMAIN answer' = Conns /\ answer'[c] = None
      /\ \A d \in Conns \ {c} : /\ pc'[d] = pc[d] /\ request'[d] = request[d]
                                /\ todo'[d] = todo[d] /\ answer'[d] = answer[d]
  BY <1>2, <1>3
<1>. QED
  BY <1>2, <1>4, KeepsAnswerInv

LEMMA IdleAnswerInv ==
  ASSUME AnswerInv, Collect \/ UNCHANGED vars
  PROVE  AnswerInv'
<1>1. UNCHANGED <<library, pc, request, todo, answer>>
  BY DEF Collect, vars
<1>. QED
  BY <1>1 DEF AnswerInv, Compiled

\* In every reachable state an answer is what Run makes of the connection's own
\* request and of one entry that compiles (Run, webapi.go; score.go 56-66).
THEOREM AnswerInvariant == Spec => []AnswerInv
<1>1. AnswerInv /\ [Next]_vars => AnswerInv'
  <2>. SUFFICES ASSUME AnswerInv, [Next]_vars
                PROVE  AnswerInv'
    OBVIOUS
  <2>1. ASSUME NEW c \in Conns, ConnStep(c)
        PROVE  AnswerInv'
    BY <2>1, QuietAnswerInv, RunAnswerInv, HeaderAnswerInv DEF ConnStep
  <2>. QED
    BY <2>1, IdleAnswerInv DEF Next
<1>. QED
  BY InitAnswerInv, <1>1, PTL DEF Spec

\* What the groups capture are intervals of the line, in the order of the groups.
LEMMA CapturesAre ==
  ASSUME NEW groups \in Seq(GroupSet), NEW s \in Captures(groups)
  PROVE  /\ Len(groups) \in Nat /\ DOMAIN groups = 1 .. Len(groups) /\ DOMAIN s = 1 .. Len(groups)
         /\ \A g \in Captured(s) : Interval(s[g]) /\ s[g][2] <= LineSize /\ s[g] = <<s[g][1], s[g][2]>>
         /\ \A g, h \in Captured(s) :
              g < h => /\ Around(groups, g, h) => s[g][1] <= s[h][1] /\ s[h][2] <= s[g][2]
                       /\ ~ Around(groups, g, h) => s[g][2] <= s[h][1]
<1>. DEFINE I == {i \in (0 .. LineSize) \X (0 .. LineSize) : i[1] < i[2]}
<1>1. Len(groups) \in Nat /\ DOMAIN groups = 1 .. Len(groups)
  BY LenProperties
<1>2. s \in [DOMAIN groups -> I \cup {None}]
  BY DEF Captures
<1>3. \A g, h \in DOMAIN groups : g < h =>
        IF Around(groups, g, h)
        THEN s[h] # None => s[g] # None /\ s[g][1] <= s[h][1] /\ s[h][2] <= s[g][2]
        ELSE s[g] # None /\ s[h] # None => s[g][2] <= s[h][1]
  BY DEF Captures
<1>4. \A i \in I : Interval(i) /\ i[2] <= LineSize /\ i = <<i[1], i[2]>>
  BY TokensAssumption DEF Interval
<1>5. \A g \in Captured(s) : g \in DOMAIN groups /\ s[g] # None /\ s[g] \in I
  <2>. HIDE DEF I
  <2>. QED
    BY <1>2 DEF Captured
<1>. HIDE DEF I
<1>6. DOMAIN s = 1 .. Len(groups)
  BY <1>1, <1>2
<1>. QED
  BY <1>1, <1>3, <1>4, <1>5, <1>6

\* Only a group around it is emitted before what it would be skipped for.
LEMMA SkippedInside ==
  ASSUME NEW groups \in Seq(GroupSet), NEW s \in Captures(groups),
         NEW g \in Captured(s), NEW h \in Captured(s),
         Earlier(s, h, g), s[g][1] < s[h][2]
  PROVE  Around(groups, h, g)
<1>1. /\ g \in 1 .. Len(groups) /\ h \in 1 .. Len(groups) /\ Len(groups) \in Nat
      /\ Interval(s[g]) /\ Interval(s[h])
      /\ g < h => /\ Around(groups, g, h) => s[g][1] <= s[h][1] /\ s[h][2] <= s[g][2]
                  /\ ~ Around(groups, g, h) => s[g][2] <= s[h][1]
      /\ h < g /\ ~ Around(groups, h, g) => s[h][2] <= s[g][1]
  BY CapturesAre DEF Captured
<1>2. /\ s[g][1] \in Nat /\ s[g][2] \in Nat /\ s[g][1] < s[g][2]
      /\ s[h][1] \in Nat /\ s[h][2] \in Nat /\ s[h][1] < s[h][2]
  BY <1>1 DEF Interval
<1>3. CASE h < g
  BY <1>1, <1>2, <1>3
<1>4. CASE g < h
  <2>1. s[g] = s[h] => s[g][1] = s[h][1]
    OBVIOUS
  <2>2. ~ (h < g)
    BY <1>1, <1>4
  <2>3. s[h][1] < s[g][1] \/ (s[h][1] = s[g][1] /\ s[h][2] > s[g][2])
    BY <2>2 DEF Earlier
  <2>4. s[g][2] <= s[h][1] \/ (s[g][1] <= s[h][1] /\ s[h][2] <= s[g][2])
    BY <1>1, <1>4
  <2>. QED
    BY <1>2, <2>3, <2>4
<1>5. CASE g = h
  BY <1>1, <1>2, <1>5 DEF Earlier
<1>6. g \in Int /\ h \in Int
  BY <1>1
<1>. QED
  BY <1>3, <1>4, <1>5, <1>6

EntryIs(e) == e.grok \in Seq(Pieces) /\ Extras(e.extras)

LEMMA EntriesAre ==
  ASSUME NEW e \in Compiled
  PROVE  /\ e \in Entries /\ EntryIs(e)
         /\ CompileGrok(e.grok, e.extras).err = "none"
         /\ CompileGrok(e.grok, e.extras) \in Expansions
         /\ CompileGrok(e.grok, e.extras).groups \in Seq(GroupSet)
<1>1. e \in Entries /\ CompileGrok(e.grok, e.extras).err = "none"
  BY DEF Compiled
<1>2. EntryIs(e)
  BY <1>1, ServerAssumption DEF EntryIs, Extras
<1>3. CompileGrok(e.grok, e.extras) \in Expansions
  BY <1>2, CompileIs DEF EntryIs
<1>4. \A x \in Expansions : x.groups \in Seq(GroupSet)
  BY DEF Expansions
<1>. QED
  BY <1>1, <1>2, <1>3, <1>4

\* The lines of an answer.
LineIs(pasted, e, captures, i, line) ==
  LET groups == CompileGrok(e.grok, e.extras).groups IN
  IF SplitLines(pasted)[i] = "empty" THEN line = LinePayload(FALSE, <<Plain(0, 0)>>)
  ELSE IF captures[i] = None THEN line = LinePayload(FALSE, <<Plain(0, LineSize)>>)
  ELSE line = LinePayload(TRUE, SegmentsFor(LineSize, captures[i], groups, GroupTokens(e.grok, groups)))

LinesAre(c, e, s, captures) ==
  LET groups == CompileGrok(e.grok, e.extras).groups
      pasted == request[c].text
      lines == answer[c].response.lines IN
  /\ c \in Conns /\ s \in Captures(groups)
  /\ answer[c].groups = groups /\ answer[c].captures = captures
  /\ answer[c].response.grok = e.grok /\ answer[c].response.extras = e.extras
  /\ DOMAIN lines = DOMAIN SplitLines(pasted)
  /\ \A i \in DOMAIN lines :
       /\ LineIs(pasted, e, captures, i, lines[i])
       /\ SplitLines(pasted)[i] # "empty" => captures[i] \in {s, None}

LEMMA AnsweredLines ==
  ASSUME AnswerInv, NEW c \in Answered
  PROVE  \E e \in Compiled : \E s, captures : LinesAre(c, e, s, captures)
<1>1. c \in Conns /\ answer[c] # None /\ answer[c].response.lines # None
  BY DEF Answered
<1>e. PICK e \in Compiled : \E s, captures : IsAnswer(request[c], e, s, captures, answer[c])
  BY <1>1 DEF AnswerInv, AnswerTo
<1>2. PICK s, captures : IsAnswer(request[c], e, s, captures, answer[c])
  BY <1>e
<1>. DEFINE groups == CompileGrok(e.grok, e.extras).groups
            pasted == request[c].text
            lines == answer[c].response.lines
            split == SplitLines(pasted)
<1>3. /\ s \in Captures(groups) /\ captures \in [Searched(pasted) -> {s, None}]
      /\ answer[c].groups = groups /\ answer[c].captures = captures
      /\ answer[c].response = Response(pasted, e.grok, e.extras, captures)
  BY <1>2 DEF IsAnswer
<1>4. /\ answer[c].response.grok = e.grok /\ answer[c].response.extras = e.extras
      /\ lines = IF Tokenised(pasted) THEN BuildLineTokens(e.grok, e.extras, split, captures) ELSE None
  BY <1>3 DEF Response
<1>5. Tokenised(pasted) /\ lines = BuildLineTokens(e.grok, e.extras, split, captures)
  BY <1>1, <1>4
<1>6. CompileGrok(e.grok, e.extras).err = "none"
  BY EntriesAre
<1>. DEFINE tokens == GroupTokens(e.grok, groups)
            Payload(i) ==
              IF split[i] = "empty" THEN LinePayload(FALSE, <<Plain(0, 0)>>)
              ELSE IF captures[i] = None THEN LinePayload(FALSE, <<Plain(0, LineSize)>>)
              ELSE LinePayload(TRUE, SegmentsFor(LineSize, captures[i], groups, tokens))
<1>7. lines = [i \in DOMAIN split |-> Payload(i)]
  BY <1>5, <1>6 DEF BuildLineTokens
<1>8. DOMAIN lines = DOMAIN split /\ \A i \in DOMAIN lines : lines[i] = Payload(i)
  <2>. HIDE DEF lines, split, Payload
  <2>. QED
    BY <1>7
<1>9. \A i \in DOMAIN lines : LineIs(pasted, e, captures, i, lines[i])
  <2>1. \A i \in DOMAIN lines : LineIs(pasted, e, captures, i, Payload(i))
    BY DEF LineIs
  <2>. HIDE DEF Payload, lines
  <2>. QED
    BY <1>8, <2>1
<1>10. \A i \in DOMAIN lines : split[i] # "empty" => captures[i] \in {s, None}
  <2>1. \A i \in DOMAIN lines : split[i] # "empty" => i \in Searched(pasted)
    BY <1>5, <1>8 DEF Searched
  <2>. HIDE DEF split, lines
  <2>. QED
    BY <1>3, <2>1
<1>11. LinesAre(c, e, s, captures)
  BY <1>1, <1>3, <1>4, <1>8, <1>9, <1>10 DEF LinesAre
<1>. QED
  BY <1>11

LEMMA PlainLine ==
  ASSUME NEW size \in Nat, NEW line, line = LinePayload(FALSE, <<Plain(0, size)>>)
  PROVE  /\ line.matched = FALSE /\ line.segments # <<>>
         /\ line.segments[1].from = 0 /\ line.segments[Len(line.segments)].to = size
         /\ \A k \in 1 .. Len(line.segments) - 1 : FALSE
BY DEF LinePayload, Plain, Segment

\* An answer is the lines of its text with the fields in them.
LEMMA LineComplete ==
  ASSUME AnswerInv, NEW c \in Answered, NEW i \in DOMAIN answer[c].response.lines
  PROVE  LET line == answer[c].response.lines[i]
             segs == line.segments
             size == IF SplitLines(request[c].text)[i] = "empty" THEN 0 ELSE LineSize IN
         /\ segs # <<>> /\ segs[1].from = 0 /\ segs[Len(segs)].to = size
         /\ \A k \in 1 .. Len(segs) - 1 : segs[k].to = segs[k + 1].from /\ segs[k].from < segs[k].to
         /\ line.matched =>
              /\ answer[c].groups \in Seq(GroupSet)
              /\ answer[c].captures[i] \in Captures(answer[c].groups)
              /\ Complete(answer[c].captures[i], GroupTokens(answer[c].response.grok, answer[c].groups),
                          answer[c].groups, LineSize, segs)
<1>e. PICK e \in Compiled : \E s, captures : LinesAre(c, e, s, captures)
  BY AnsweredLines
<1>1. PICK s, captures : LinesAre(c, e, s, captures)
  BY <1>e
<1>. DEFINE groups == answer[c].groups
            line == answer[c].response.lines[i]
            segs == line.segments
            empty == SplitLines(request[c].text)[i] = "empty"
            tokens == GroupTokens(e.grok, groups)
<1>2. /\ s \in Captures(groups) /\ LineIs(request[c].text, e, captures, i, line)
      /\ empty \/ captures[i] \in {s, None}
      /\ groups = CompileGrok(e.grok, e.extras).groups
      /\ answer[c].captures = captures /\ answer[c].response.grok = e.grok
  BY <1>1 DEF LinesAre
<1>3. groups \in Seq(GroupSet)
  BY <1>2, EntriesAre
<1>4. LineSize \in Nat \ {0}
  BY TokensAssumption
<1>. HIDE DEF line
<1>5. CASE empty
  <2>1. line = LinePayload(FALSE, <<Plain(0, 0)>>)
    BY <1>2, <1>5 DEF LineIs
  <2>2. /\ ~ line.matched /\ segs # <<>> /\ segs[1].from = 0 /\ segs[Len(segs)].to = 0
        /\ \A k \in 1 .. Len(segs) - 1 : FALSE
    BY <2>1, PlainLine
  <2>. HIDE DEF segs
  <2>. QED
    BY <1>5, <2>2 DEF line, segs
<1>6. CASE ~ empty /\ captures[i] = None
  <2>1. line = LinePayload(FALSE, <<Plain(0, LineSize)>>)
    BY <1>2, <1>6 DEF LineIs
  <2>2. /\ ~ line.matched /\ segs # <<>> /\ segs[1].from = 0 /\ segs[Len(segs)].to = LineSize
        /\ \A k \in 1 .. Len(segs) - 1 : FALSE
    BY <1>4, <2>1, PlainLine
  <2>. HIDE DEF segs
  <2>. QED
    BY <1>6, <2>2 DEF line, segs
<1>7. CASE ~ empty /\ captures[i] # None
  <2>1. captures[i] = s
    BY <1>2, <1>7
  <2>2. line = LinePayload(TRUE, SegmentsFor(LineSize, s, groups, tokens))
    BY <1>2, <1>7, <2>1 DEF LineIs
  <2>3. segs = SegmentsFor(LineSize, s, groups, tokens)
    BY <2>2 DEF LinePayload
  <2>4. /\ Len(groups) \in Nat /\ DOMAIN s = 1 .. Len(groups)
        /\ \A g \in Captured(s) : Interval(s[g]) /\ s[g][2] <= LineSize
    BY <1>2, <1>3, CapturesAre
  <2>. HIDE DEF groups, tokens, segs
  <2>5. Complete(s, tokens, groups, LineSize, SegmentsFor(LineSize, s, groups, tokens))
    BY <1>4, <2>4, SegmentsComplete
  <2>6. Complete(s, tokens, groups, LineSize, segs)
    BY <2>3, <2>5
  <2>7. /\ segs # <<>> /\ segs[1].from = 0 /\ segs[Len(segs)].to = LineSize
        /\ \A k \in 1 .. Len(segs) - 1 : segs[k].to = segs[k + 1].from /\ segs[k].from < segs[k].to
    BY <2>6 DEF Complete
  <2>8. /\ groups \in Seq(GroupSet) /\ answer[c].captures[i] \in Captures(groups)
        /\ Complete(answer[c].captures[i], GroupTokens(answer[c].response.grok, groups), groups, LineSize, segs)
    BY <1>2, <1>3, <2>1, <2>6 DEF tokens
  <2>. QED
    BY <1>7, <2>7, <2>8 DEF groups, segs, line
<1>. QED
  BY <1>5, <1>6, <1>7

LEMMA LinesShown == AnswerInv => LineShown
<1>. SUFFICES ASSUME AnswerInv PROVE LineShown
  OBVIOUS
<1>1. SegmentsAreLine
  BY LineComplete DEF SegmentsAreLine, Segments
<1>2. ASSUME NEW c \in Answered, NEW i \in MatchedLines(c)
      PROVE  LET spans == answer[c].captures[i]
                 groups == answer[c].groups
                 Seen(g) == \E s \in ToSet(Segments(c, i)) :
                              s.field = groups[g].name /\ <<s.from, s.to>> = spans[g]
             IN  \A g \in DOMAIN groups :
                   spans[g] # None /\ spans[g][1] < spans[g][2] =>
                     Seen(g) \/ \E h \in DOMAIN groups : Around(groups, h, g) /\ Seen(h)
  <2>. DEFINE spans == answer[c].captures[i]
              groups == answer[c].groups
              segs == Segments(c, i)
              tokens == GroupTokens(answer[c].response.grok, groups)
              Seen(g) == \E s \in ToSet(segs) :
                           s.field = groups[g].name /\ <<s.from, s.to>> = spans[g]
  <2>1. /\ groups \in Seq(GroupSet) /\ spans \in Captures(groups)
        /\ Complete(spans, tokens, groups, LineSize, segs)
    BY LineComplete DEF MatchedLines, Segments
  <2>. HIDE DEF spans, groups, segs, tokens
  <2>2. /\ DOMAIN groups = 1 .. Len(groups) /\ DOMAIN spans = 1 .. Len(groups)
        /\ \A g \in Captured(spans) : spans[g] = <<spans[g][1], spans[g][2]>>
    BY <2>1, CapturesAre
  <2>3. /\ DOMAIN segs = 1 .. Len(segs)
        /\ \A g \in Captured(spans) :
             \/ Shown(segs, Shows(spans, tokens, groups, g))
             \/ \E h \in Captured(spans) :
                  /\ Shown(segs, Shows(spans, tokens, groups, h))
                  /\ Earlier(spans, h, g) /\ spans[g][1] < spans[h][2]
    BY <2>1 DEF Complete
  <2>4. ASSUME NEW g \in Captured(spans), Shown(segs, Shows(spans, tokens, groups, g))
        PROVE  Seen(g)
    <3>1. PICK q \in DOMAIN segs : segs[q] = Shows(spans, tokens, groups, g)
      BY <2>3, <2>4 DEF Shown
    <3>2. segs[q] \in ToSet(segs)
      BY <3>1 DEF ToSet
    <3>3. segs[q].field = groups[g].name /\ segs[q].from = spans[g][1] /\ segs[q].to = spans[g][2]
      BY <3>1 DEF Shows, Segment
    <3>. QED
      BY <2>2, <3>2, <3>3
  <2>5. ASSUME NEW g \in DOMAIN groups, spans[g] # None, spans[g][1] < spans[g][2]
        PROVE  Seen(g) \/ \E h \in DOMAIN groups : Around(groups, h, g) /\ Seen(h)
    <3>1. g \in Captured(spans) /\ \A h \in Captured(spans) : h \in DOMAIN groups
      BY <2>2, <2>5 DEF Captured
    <3>. HIDE DEF Seen
    <3>2. CASE Shown(segs, Shows(spans, tokens, groups, g))
      BY <2>4, <3>1, <3>2
    <3>3. ASSUME NEW h \in Captured(spans), Shown(segs, Shows(spans, tokens, groups, h)),
                 Earlier(spans, h, g), spans[g][1] < spans[h][2]
          PROVE  Around(groups, h, g) /\ Seen(h)
      BY <2>1, <2>4, <3>1, <3>3, SkippedInside
    <3>. QED
      BY <2>3, <3>1, <3>2, <3>3
  <2>. QED
    BY <2>5 DEF spans, groups, segs
<1>3. EveryCaptureShown
  BY <1>2 DEF EveryCaptureShown
<1>. QED
  BY <1>1, <1>3 DEF LineShown

\* Every line of an answer is shown whole, with every field in it
\* (BuildLineTokens, segmentsFor: webapi.go 138-237).
THEOREM LinesAreShown == Spec => []LineShown
<1>1. AnswerInv => LineShown
  BY LinesShown
<1>. QED
  BY AnswerInvariant, <1>1, PTL

-----------------------------------------------------------------------------
(***************************************************************************)
(* Which patterns expand                                                   *)
(***************************************************************************)
\* The body a reference leads to, expanded without an error.
Leads(piece, extras, deeper, used) ==
  /\ Body(piece.prim, extras) # None
  /\ deeper[GrokCall(Body(piece.prim, extras), used)].err = "none"

LEMMA PieceClean ==
  ASSUME NEW e \in Expansions, NEW piece \in Pieces, NEW extras, Extras(extras),
         NEW deeper \in [GrokCalls -> Expansions],
         ExpandPiece(e, piece, extras, deeper).err = "none"
  PROVE  /\ e.err = "none"
         /\ piece.kind # "group" => Leads(piece, extras, deeper, e.used)
<1>. DEFINE r == ExpandPiece(e, piece, extras, deeper)
            body == Body(piece.prim, extras)
            inside == deeper[GrokCall(body, e.used)]
<1>1. /\ piece.kind = "group" => r.err = e.err
      /\ piece.kind # "group" /\ body = None => r.err # "none"
      /\ piece.kind # "group" /\ body # None =>
           /\ inside.err # "none" => r.err # "none"
           /\ inside.err = "none" => r.err = e.err
  <2>1. piece.kind = "group" => r.err = e.err
    BY DEF ExpandPiece, Expansion
  <2>2. piece.kind # "group" /\ body = None => r.err # "none"
    <3>1. piece.kind # "group" /\ body = None => r.err = FirstError(e.err, "unknown")
      BY DEF ExpandPiece, Expansion
    <3>2. FirstError(e.err, "unknown") # "none"
      BY Unknown DEF FirstError
    <3>. QED
      BY ONLY <3>1, <3>2
  <2>3. piece.kind # "group" /\ body # None /\ inside.err # "none" =>
          r.err = FirstError(e.err, inside.err)
    BY DEF ExpandPiece, Expansion
  <2>4. piece.kind # "group" /\ body # None /\ inside.err = "none" => r.err = e.err
    BY DEF ExpandPiece, Expansion
  <2>5. inside.err # "none" => FirstError(e.err, inside.err) # "none"
    BY DEF FirstError
  <2>. QED
    BY ONLY <2>1, <2>2, <2>3, <2>4, <2>5
<1>2. r.err = "none"
  OBVIOUS
<1>. HIDE DEF r, body, inside
<1>3. e.err = "none" /\ (piece.kind # "group" => body # None /\ inside.err = "none")
  BY ONLY <1>1, <1>2
<1>. QED
  BY <1>3 DEF Leads, body, inside

\* A loop that ends without an error has none after any of its steps.
LEMMA CleanTrace ==
  ASSUME NEW call \in GrokCalls, NEW extras, Extras(extras),
         NEW deeper \in [GrokCalls -> Expansions],
         NEW f \in [0 .. Len(call.grok) -> Expansions], Expands(f, call, extras, deeper),
         f[Len(call.grok)].err = "none"
  PROVE  \A k \in 1 .. Len(call.grok) :
           /\ f[k - 1].err = "none"
           /\ call.grok[k].kind # "group" => Leads(call.grok[k], extras, deeper, f[k - 1].used)
<1>. DEFINE n == Len(call.grok)
            S == {m \in Nat : m <= n => f[n - m].err = "none"}
<1>1. n \in Nat /\ \A k \in 1 .. n : call.grok[k] \in Pieces
  BY CallIs
<1>. HIDE DEF n
<1>2. f \in [0 .. n -> Expansions] /\ f[n].err = "none"
  BY DEF n
<1>3. ASSUME NEW k \in 1 .. n, f[k].err = "none"
      PROVE  /\ f[k - 1].err = "none"
             /\ call.grok[k].kind # "group" => Leads(call.grok[k], extras, deeper, f[k - 1].used)
  <2>. DEFINE piece == call.grok[k]
              e == f[k - 1]
  <2>1. k - 1 \in 0 .. n /\ piece \in Pieces
    BY <1>1
  <2>2. e \in Expansions /\ f[k] = ExpandPiece(e, piece, extras, deeper)
    BY <1>2, <2>1 DEF Expands, n
  <2>. HIDE DEF e, piece
  <2>3. ExpandPiece(e, piece, extras, deeper).err = "none"
    BY <1>3, <2>2
  <2>4. /\ e.err = "none"
        /\ piece.kind # "group" => Leads(piece, extras, deeper, e.used)
    BY <2>1, <2>2, <2>3, PieceClean
  <2>. QED
    BY <2>4 DEF e, piece
<1>4. 0 \in S
  BY <1>1, <1>2
<1>5. ASSUME NEW m \in Nat, m \in S PROVE m + 1 \in S
  <2>1. SUFFICES ASSUME m + 1 <= n PROVE f[n - (m + 1)].err = "none"
    OBVIOUS
  <2>2. n - m \in 1 .. n /\ f[n - m].err = "none" /\ (n - m) - 1 = n - (m + 1)
    BY <1>1, <1>5, <2>1
  <2>. QED
    BY <1>3, <2>2
<1>. HIDE DEF S
<1>6. Nat \subseteq S
  BY <1>4, <1>5, UpFromZero
<1>7. \A k \in 1 .. n : f[k].err = "none"
  <2>. TAKE k \in 1 .. n
  <2>1. n - k \in Nat /\ n - k <= n /\ n - (n - k) = k
    BY <1>1
  <2>. QED
    BY <1>6, <2>1 DEF S
<1>. QED
  BY <1>3, <1>7 DEF n

\* Whether a body expands does not depend on the names asked for before it.
Even(deeper) ==
  \A b \in Seq(Pieces) : \A u, v \in Seq(Names) :
    deeper[GrokCall(b, u)].err = "none" => deeper[GrokCall(b, v)].err = "none"

ExpandsAt(b, extras, deeper) ==
  \A p \in Prims(b) :
    /\ Body(p, extras) # None
    /\ \A u \in Seq(Names) : deeper[GrokCall(Body(p, extras), u)].err = "none"

LEMMA PrimsOf ==
  ASSUME NEW b \in Seq(Pieces)
  PROVE  Prims(b) = {b[i].prim : i \in {j \in 1 .. Len(b) : b[j].kind # "group"}}
<1>1. /\ DOMAIN b = 1 .. Len(b) /\ b # None
      /\ \A j \in DOMAIN b : b[j].kind = "ref" <=> b[j].kind # "group"
  <2>1. DOMAIN b = 1 .. Len(b) /\ \A j \in 1 .. Len(b) : b[j] \in Pieces
    BY LenProperties, ElementOfSeq
  <2>2. b # None
    BY ExpandAssumption
  <2>3. "ref" # "group"
    OBVIOUS
  <2>. QED
    BY <2>1, <2>2, <2>3, PieceIs
<1>. QED
  BY <1>1 DEF Prims

LEMMA CleanPieces ==
  ASSUME NEW call \in GrokCalls, NEW extras, Extras(extras),
         NEW deeper \in [GrokCalls -> Expansions], Even(deeper)
  PROVE  ExpandPieces(call, extras, deeper).err = "none" <=> ExpandsAt(call.grok, extras, deeper)
<1>. DEFINE n == Len(call.grok)
<1>1. /\ n \in Nat /\ \A k \in 1 .. n : call.grok[k] \in Pieces
      /\ call.grok \in Seq(Pieces) /\ call.used \in Seq(Names)
      /\ Expansion("none", <<>>, call.used) \in Expansions
  BY CallIs
<1>2. PICK f \in [0 .. n -> Expansions] :
        Expands(f, call, extras, deeper) /\ ExpandPieces(call, extras, deeper) = f[n]
  BY PiecesUnfold
<1>3. /\ f[0].err = "none"
      /\ \A k \in 1 .. n : f[k] = ExpandPiece(f[k - 1], call.grok[k], extras, deeper)
  BY <1>2 DEF Expands, Expansion
<1>4. \A p : p \in Prims(call.grok) <=> \E k \in 1 .. n : call.grok[k].kind # "group" /\ call.grok[k].prim = p
  BY <1>1, PrimsOf
<1>5. \A k \in 0 .. n : f[k] \in Expansions /\ f[k].used \in Seq(Names)
  <2>1. \A x \in Expansions : x.used \in Seq(Names)
    BY DEF Expansions
  <2>. QED
    BY <1>2, <2>1
<1>6. ASSUME f[n].err = "none", NEW p \in Prims(call.grok)
      PROVE  /\ Body(p, extras) # None
             /\ \A u \in Seq(Names) : deeper[GrokCall(Body(p, extras), u)].err = "none"
  <2>1. PICK k \in 1 .. n : call.grok[k].kind # "group" /\ call.grok[k].prim = p
    BY <1>4, <1>6
  <2>2. Leads(call.grok[k], extras, deeper, f[k - 1].used)
    <3>. HIDE DEF n
    <3>. QED
      BY <1>2, <1>6, <2>1, CleanTrace DEF n
  <2>3. Body(p, extras) # None /\ deeper[GrokCall(Body(p, extras), f[k - 1].used)].err = "none"
    BY <2>1, <2>2 DEF Leads
  <2>4. Body(p, extras) \in Seq(Pieces) /\ k - 1 \in 0 .. n
    BY <1>1, <2>3, BodyIs
  <2>. QED
    BY <1>5, <2>3, <2>4 DEF Even
<1>7. ASSUME ExpandsAt(call.grok, extras, deeper)
      PROVE  f[n].err = "none"
  <2>. DEFINE P == {k \in 0 .. n : f[k].err = "none"}
  <2>1. 0 \in P
    BY <1>1, <1>3
  <2>2. ASSUME NEW k \in 1 .. n, k - 1 \in P PROVE k \in P
    <3>. DEFINE piece == call.grok[k]
                e == f[k - 1]
    <3>1. piece \in Pieces /\ k - 1 \in 0 .. n /\ k \in 0 .. n
      BY <1>1
    <3>2. /\ e \in Expansions /\ e.err = "none" /\ e.used \in Seq(Names)
          /\ f[k] = ExpandPiece(e, piece, extras, deeper)
      BY <1>3, <1>5, <2>2, <3>1
    <3>3. piece.kind # "group" => piece.prim \in Prims(call.grok)
      BY <1>4
    <3>4. piece.kind # "group" =>
            /\ Body(piece.prim, extras) # None
            /\ deeper[GrokCall(Body(piece.prim, extras), e.used)].err = "none"
      BY <1>7, <3>2, <3>3 DEF ExpandsAt
    <3>. HIDE DEF e, piece, P
    <3>5. ExpandPiece(e, piece, extras, deeper).err = "none"
      BY <3>1, <3>2, <3>4, ExpandPieceIs
    <3>. QED
      BY <3>1, <3>2, <3>5 DEF P
  <2>. HIDE DEF P
  <2>3. n \in P
    BY <1>1, <2>1, <2>2, AlongLoop DEF P
  <2>. QED
    BY <2>3 DEF P
<1>. QED
  BY <1>2, <1>6, <1>7 DEF ExpandsAt

LEMMA LevelsEven ==
  ASSUME NEW extras, Extras(extras),
         NEW F \in [0 .. MaxDepth + 1 -> [GrokCalls -> Expansions]], Levels(F, extras)
  PROVE  /\ \A k \in 0 .. MaxDepth + 1 : F[k] \in [GrokCalls -> Expansions] /\ Even(F[k])
         /\ \A b \in Seq(Pieces), u \in Seq(Names) : F[0][GrokCall(b, u)].err # "none"
         /\ \A k \in 1 .. MaxDepth + 1 : \A b \in Seq(Pieces), u \in Seq(Names) :
              F[k][GrokCall(b, u)].err = "none" <=> ExpandsAt(b, extras, F[k - 1])
<1>1. MaxDepth + 1 \in Nat /\ \A k \in 0 .. MaxDepth + 1 : F[k] \in [GrokCalls -> Expansions]
  BY ExpandAssumption
<1>2. \A b \in Seq(Pieces), u \in Seq(Names) :
        GrokCall(b, u) \in GrokCalls /\ GrokCall(b, u).grok = b
  BY DEF GrokCall, GrokCalls
<1>3. \A b \in Seq(Pieces), u \in Seq(Names) : F[0][GrokCall(b, u)].err # "none"
  BY <1>2, CallIs DEF Levels
<1>4. ASSUME NEW k \in 1 .. MaxDepth + 1, Even(F[k - 1])
      PROVE  /\ Even(F[k])
             /\ \A b \in Seq(Pieces), u \in Seq(Names) :
                  F[k][GrokCall(b, u)].err = "none" <=> ExpandsAt(b, extras, F[k - 1])
  <2>. DEFINE deeper == F[k - 1]
  <2>1. deeper \in [GrokCalls -> Expansions] /\ Even(deeper)
    <3>1. k - 1 \in 0 .. MaxDepth + 1
      BY <1>1
    <3>. QED
      BY <1>1, <1>4, <3>1
  <2>2. F[k] = [call \in GrokCalls |-> ExpandPieces(call, extras, deeper)]
    BY DEF Levels
  <2>. HIDE DEF deeper
  <2>3. \A b \in Seq(Pieces), u \in Seq(Names) :
          F[k][GrokCall(b, u)].err = "none" <=> ExpandsAt(b, extras, deeper)
    <3>. TAKE b \in Seq(Pieces), u \in Seq(Names)
    <3>. DEFINE call == GrokCall(b, u)
    <3>1. call \in GrokCalls /\ call.grok = b
      BY <1>2
    <3>2. F[k][call] = ExpandPieces(call, extras, deeper)
      BY <2>2, <3>1
    <3>. HIDE DEF call
    <3>3. ExpandPieces(call, extras, deeper).err = "none" <=> ExpandsAt(call.grok, extras, deeper)
      BY <2>1, <3>1, CleanPieces
    <3>. QED
      BY <3>1, <3>2, <3>3 DEF call
  <2>4. Even(F[k])
    BY <2>3 DEF Even
  <2>. QED
    BY <2>3, <2>4 DEF deeper
<1>5. \A k \in 0 .. MaxDepth + 1 : Even(F[k])
  <2>. DEFINE S == {k \in Nat : k <= MaxDepth + 1 => Even(F[k])}
  <2>1. 0 \in S
    BY <1>3 DEF Even
  <2>2. ASSUME NEW k \in Nat, k \in S PROVE k + 1 \in S
    <3>1. SUFFICES ASSUME k + 1 <= MaxDepth + 1 PROVE Even(F[k + 1])
      OBVIOUS
    <3>2. k + 1 \in 1 .. MaxDepth + 1 /\ (k + 1) - 1 = k /\ Even(F[k])
      BY <1>1, <2>2, <3>1
    <3>. QED
      BY <1>4, <3>2
  <2>. HIDE DEF S
  <2>3. Nat \subseteq S
    BY <2>1, <2>2, UpFromZero
  <2>. QED
    BY <1>1, <2>3 DEF S
<1>6. \A k \in 1 .. MaxDepth + 1 : k - 1 \in 0 .. MaxDepth + 1
  BY <1>1
<1>. QED
  BY <1>1, <1>3, <1>4, <1>5, <1>6

LEMMA PrimsAre ==
  ASSUME NEW extras, Extras(extras)
  PROVE  /\ \A b \in Seq(Pieces) : Prims(b) \in SUBSET STRING
         /\ \A p : Prims(Body(p, extras)) \in SUBSET STRING
<1>1. \A piece \in Pieces : piece.kind # "group" => piece.prim \in STRING
  <2>. DEFINE D == DOMAIN Sanitized \cup {None}
              N == Names
  <2>1. ASSUME NEW piece \in Pieces, piece.kind # "group" PROVE piece.prim \in STRING
    <3>1. piece \in [kind : {"ref"}, prim : STRING, field : D] \/ piece \in [kind : {"group"}, name : N]
      BY DEF Pieces
    <3>. HIDE DEF D, N
    <3>2. ~ piece \in [kind : {"group"}, name : N]
      BY <2>1
    <3>. QED
      BY ONLY <3>1, <3>2
  <2>. QED
    BY <2>1
<1>2. ASSUME NEW b \in Seq(Pieces) PROVE Prims(b) \in SUBSET STRING
  <2>1. \A j \in 1 .. Len(b) : b[j] \in Pieces
    BY ElementOfSeq
  <2>. QED
    BY <1>1, <2>1, PrimsOf
<1>3. Prims(None) = {}
  BY DEF Prims
<1>4. ASSUME NEW p PROVE Prims(Body(p, extras)) \in SUBSET STRING
  <2>1. CASE Body(p, extras) = None
    BY <1>3, <2>1
  <2>2. CASE Body(p, extras) # None
    BY <1>2, <2>2, BodyIs
  <2>. QED
    BY <2>1, <2>2
<1>. QED
  BY <1>2, <1>4

Reaches(f, grok, extras, depth) ==
  /\ f[0] = Prims(grok)
  /\ \A k \in 1 .. depth : f[k] = UNION {Prims(Body(p, extras)) : p \in f[k - 1]}

LEMMA ReferredUnfold ==
  ASSUME NEW grok \in Seq(Pieces), NEW extras, Extras(extras), NEW depth \in Nat
  PROVE  \E f \in [0 .. depth -> SUBSET STRING] : Reaches(f, grok, extras, depth) /\ ReferredAt(grok, extras, depth) = f[depth]
<1>. DEFINE n == depth
            A == SUBSET STRING
            base == Prims(grok)
            body(a, k) == UNION {Prims(Body(p, extras)) : p \in a}
            step == [p \in A \X (1 .. n) |-> body(p[1], p[2])]
            IsLoop(g) == g = [k \in 0 .. n |-> IF k = 0 THEN base ELSE body(g[k - 1], k)]
            cur == CHOOSE g : IsLoop(g)
<1>1. n \in Nat
  OBVIOUS
<1>2. base \in A
  BY PrimsAre
<1>3. \A a \in A, k \in 1 .. n : body(a, k) \in A
  <2>1. \A p : Prims(Body(p, extras)) \in SUBSET STRING
    BY PrimsAre
  <2>. QED
    BY <2>1
<1>4. step \in [A \X (1 .. n) -> A]
  <2>. HIDE DEF A, body, n
  <2>. QED
    BY <1>3
<1>. HIDE DEF A, body, n, base
<1>5. PICK f \in [0 .. n -> A] :
        f[0] = base /\ \A k \in 1 .. n : f[k] = step[<<f[k - 1], k>>]
  <2>. HIDE DEF step
  <2>1. HasLoop(A, base, n, step)
    BY <1>1, <1>2, <1>4, LoopExists
  <2>. QED
    BY <2>1 DEF HasLoop
<1>6. \A k \in 1 .. n : f[k] = body(f[k - 1], k)
  <2>. TAKE k \in 1 .. n
  <2>1. k - 1 \in 0 .. n
    BY <1>1
  <2>2. <<f[k - 1], k>> \in A \X (1 .. n)
    BY <1>5, <2>1
  <2>. QED
    BY <1>5, <2>2
<1>7. IsLoop(f)
  <2>1. f = [k \in 0 .. n |-> f[k]]
    BY <1>5
  <2>2. \A k \in 0 .. n : f[k] = IF k = 0 THEN base ELSE body(f[k - 1], k)
    <3>. TAKE k \in 0 .. n
    <3>1. k = 0 \/ (k # 0 /\ k \in 1 .. n)
      BY <1>1
    <3>. QED
      BY <1>5, <1>6, <3>1
  <2>. DEFINE g == [k \in 0 .. n |-> IF k = 0 THEN base ELSE body(f[k - 1], k)]
  <2>3. g = [k \in 0 .. n |-> g[k]] /\ \A k \in 0 .. n : g[k] = f[k]
    BY <2>2
  <2>4. IsLoop(f) <=> f = g
    OBVIOUS
  <2>. HIDE DEF g, IsLoop
  <2>. QED
    BY ONLY <2>1, <2>3, <2>4
<1>8. IsLoop(cur)
  BY <1>7
<1>9. ReferredAt(grok, extras, depth) = cur[n]
  BY DEF ReferredAt, body, n, base
<1>. HIDE DEF cur
<1>10. \A k \in 0 .. n : cur[k] = IF k = 0 THEN base ELSE body(cur[k - 1], k)
  BY <1>8
<1>11. cur = [k \in 0 .. n |-> cur[k]]
  <2>. DEFINE g == [k \in 0 .. n |-> IF k = 0 THEN base ELSE body(cur[k - 1], k)]
  <2>1. cur = g /\ g = [k \in 0 .. n |-> g[k]]
    BY <1>8
  <2>. HIDE DEF g
  <2>. QED
    BY ONLY <2>1
<1>12. 0 \in 0 .. n /\ \A k \in 1 .. n : k \in 0 .. n /\ k # 0
  BY <1>1
<1>13. cur[0] = base /\ \A k \in 1 .. n : cur[k] = body(cur[k - 1], k)
  BY <1>10, <1>12
<1>14. \A k \in 0 .. n : cur[k] \in A
  <2>. DEFINE S == {k \in Nat : k \in 0 .. n => cur[k] \in A}
  <2>1. 0 \in S
    BY <1>2, <1>13
  <2>2. \A k \in Nat : k \in S => k + 1 \in S
    <3>1. SUFFICES ASSUME NEW k \in Nat, k \in S, k + 1 \in 0 .. n PROVE cur[k + 1] \in A
      OBVIOUS
    <3>2. k + 1 \in 1 .. n /\ (k + 1) - 1 = k /\ cur[k] \in A
      BY <1>1, <3>1
    <3>. QED
      BY <1>3, <1>13, <3>2
  <2>. HIDE DEF S
  <2>3. Nat \subseteq S
    BY <2>1, <2>2, UpFromZero
  <2>. QED
    BY <1>1, <2>3 DEF S
<1>15. cur \in [0 .. n -> A]
  BY <1>11, <1>14
<1>16. Reaches(cur, grok, extras, depth)
  BY <1>13 DEF Reaches, body, base, n
<1>. QED
  BY <1>9, <1>15, <1>16 DEF n, A

\* The primitives one level deeper are those the bodies of this level refer to.
LEMMA ReferredAre ==
  ASSUME NEW grok \in Seq(Pieces), NEW extras, Extras(extras)
  PROVE  /\ ReferredAt(grok, extras, 0) = Prims(grok)
         /\ \A d \in Nat : ReferredAt(grok, extras, d + 1) =
              UNION {Prims(Body(p, extras)) : p \in ReferredAt(grok, extras, d)}
<1>1. ReferredAt(grok, extras, 0) = Prims(grok)
  <2>1. PICK f : Reaches(f, grok, extras, 0) /\ ReferredAt(grok, extras, 0) = f[0]
    BY ReferredUnfold
  <2>. QED
    BY <2>1 DEF Reaches
<1>2. ASSUME NEW d \in Nat
      PROVE  ReferredAt(grok, extras, d + 1) =
               UNION {Prims(Body(p, extras)) : p \in ReferredAt(grok, extras, d)}
  <2>1. PICK f : Reaches(f, grok, extras, d) /\ ReferredAt(grok, extras, d) = f[d]
    BY ReferredUnfold
  <2>n. d + 1 \in Nat
    OBVIOUS
  <2>2. PICK g : Reaches(g, grok, extras, d + 1) /\ ReferredAt(grok, extras, d + 1) = g[d + 1]
    BY <2>n, ReferredUnfold
  <2>. DEFINE P == {k \in 0 .. d : f[k] = g[k]}
  <2>3. 0 \in P
    BY <2>1, <2>2 DEF Reaches
  <2>4. ASSUME NEW k \in 1 .. d, k - 1 \in P PROVE k \in P
    <3>1. f[k - 1] = g[k - 1] /\ k \in 1 .. d + 1 /\ k \in 0 .. d
      BY <2>4
    <3>. QED
      BY <2>1, <2>2, <3>1 DEF Reaches
  <2>. HIDE DEF P
  <2>5. d \in P
    BY <2>3, <2>4, AlongLoop DEF P
  <2>6. d + 1 \in 1 .. d + 1 /\ (d + 1) - 1 = d /\ f[d] = g[d]
    BY <2>5 DEF P
  <2>7. g[d + 1] = UNION {Prims(Body(p, extras)) : p \in g[d]}
    BY <2>2, <2>6 DEF Reaches
  <2>. QED
    BY <2>1, <2>2, <2>6, <2>7
<1>. QED
  BY <1>1, <1>2

Reachable(grok, extras) ==
  /\ \A d \in 0 .. MaxDepth : \A p \in ReferredAt(grok, extras, d) : Body(p, extras) # None
  /\ ReferredAt(grok, extras, MaxDepth) = {}

\* A pattern expands when its references lead somewhere, and not too deep.
LEMMA ExpandsWhenReachable ==
  ASSUME NEW grok \in Seq(Pieces), NEW extras, Extras(extras)
  PROVE  Expanded(grok, extras).err = "none" <=> Reachable(grok, extras)
<1>. DEFINE At(d) == ReferredAt(grok, extras, d)
<1>1. PICK F \in [0 .. MaxDepth + 1 -> [GrokCalls -> Expansions]] :
        Levels(F, extras) /\ ExpandGrok(extras) = F[MaxDepth + 1]
  BY LevelsUnfold
<1>2. MaxDepth \in Nat
  BY ExpandAssumption
<1>3. /\ \A b \in Seq(Pieces), u \in Seq(Names) : F[0][GrokCall(b, u)].err # "none"
      /\ \A k \in 1 .. MaxDepth + 1 : \A b \in Seq(Pieces), u \in Seq(Names) :
           F[k][GrokCall(b, u)].err = "none" <=> ExpandsAt(b, extras, F[k - 1])
  BY <1>1, LevelsEven
<1>4. <<>> \in Seq(Names)
  BY EmptySeq
<1>. DEFINE Clean(k, b) == \A u \in Seq(Names) : F[k][GrokCall(b, u)].err = "none"
            Good(k, p) == Body(p, extras) # None /\ Clean(k, Body(p, extras))
            Known(d) == \A p \in At(d) : Body(p, extras) # None
            C(d) == Expanded(grok, extras).err = "none" <=>
                      /\ \A j \in 0 .. d - 1 : Known(j)
                      /\ \A p \in At(d) : Good(MaxDepth - d, p)
<1>5. At(0) = Prims(grok) /\ \A d \in Nat : At(d + 1) = UNION {Prims(Body(p, extras)) : p \in At(d)}
  BY ReferredAre
<1>6. \A b : ExpandsAt(b, extras, F[MaxDepth]) <=> \A p \in Prims(b) : Good(MaxDepth, p)
  BY DEF ExpandsAt
<1>7. C(0)
  <2>1. Expanded(grok, extras) = F[MaxDepth + 1][GrokCall(grok, <<>>)]
    BY <1>1 DEF Expanded
  <2>2. MaxDepth + 1 \in 1 .. MaxDepth + 1 /\ (MaxDepth + 1) - 1 = MaxDepth /\ MaxDepth - 0 = MaxDepth
    BY <1>2
  <2>3. Expanded(grok, extras).err = "none" <=> ExpandsAt(grok, extras, F[MaxDepth])
    <3>1. F[MaxDepth + 1][GrokCall(grok, <<>>)].err = "none" <=>
            ExpandsAt(grok, extras, F[(MaxDepth + 1) - 1])
      BY <1>3, <1>4, <2>2
    <3>. HIDE DEF At, Clean, Good, Known, C
    <3>. QED
      BY ONLY <2>1, <2>2, <3>1
  <2>4. ~ \E j \in 0 .. 0 - 1 : TRUE
    OBVIOUS
  <2>. HIDE DEF Good, Known, At
  <2>. QED
    BY <1>5, <1>6, <2>2, <2>3, <2>4
<1>8. ASSUME NEW d \in Nat, d + 1 <= MaxDepth, C(d)
      PROVE  C(d + 1)
  <2>1. MaxDepth - d \in 1 .. MaxDepth + 1 /\ (MaxDepth - d) - 1 = MaxDepth - (d + 1)
    BY <1>2, <1>8
  <2>2. \A b \in Seq(Pieces), u \in Seq(Names) :
          F[MaxDepth - d][GrokCall(b, u)].err = "none" <=> ExpandsAt(b, extras, F[MaxDepth - (d + 1)])
    BY <1>3, <2>1
  <2>3. \A b \in Seq(Pieces) : Clean(MaxDepth - d, b) <=> \A p \in Prims(b) : Good(MaxDepth - (d + 1), p)
    <3>. TAKE b \in Seq(Pieces)
    <3>1. Clean(MaxDepth - d, b) <=> ExpandsAt(b, extras, F[MaxDepth - (d + 1)])
      BY <1>4, <2>2
    <3>2. ExpandsAt(b, extras, F[MaxDepth - (d + 1)]) <=> \A p \in Prims(b) : Good(MaxDepth - (d + 1), p)
      BY DEF ExpandsAt
    <3>. QED
      BY ONLY <3>1, <3>2
  <2>. HIDE DEF Clean
  <2>4. \A p : Good(MaxDepth - d, p) <=>
          /\ Body(p, extras) # None
          /\ \A q \in Prims(Body(p, extras)) : Good(MaxDepth - (d + 1), q)
    <3>. TAKE p
    <3>1. Body(p, extras) # None => Body(p, extras) \in Seq(Pieces)
      BY BodyIs
    <3>2. Good(MaxDepth - d, p) <=> Body(p, extras) # None /\ Clean(MaxDepth - d, Body(p, extras))
      OBVIOUS
    <3>. HIDE DEF Good
    <3>. QED
      BY <2>3, <3>1, <3>2
  <2>. HIDE DEF Good
  <2>5. (\A p \in At(d) : Good(MaxDepth - d, p)) <=>
          Known(d) /\ \A q \in At(d + 1) : Good(MaxDepth - (d + 1), q)
    <3>. HIDE DEF At
    <3>. QED
      BY <1>5, <2>4
  <2>6. \A j : j \in 0 .. (d + 1) - 1 <=> j \in 0 .. d - 1 \/ j = d
    OBVIOUS
  <2>7. (\A j \in 0 .. (d + 1) - 1 : Known(j)) <=> (\A j \in 0 .. d - 1 : Known(j)) /\ Known(d)
    <3>. HIDE DEF Known
    <3>. QED
      BY <2>6
  <2>. HIDE DEF At, Known
  <2>. QED
    BY <1>8, <2>5, <2>7
<1>9. C(MaxDepth)
  <2>. DEFINE S == {d \in Nat : d <= MaxDepth => C(d)}
  <2>. HIDE DEF C
  <2>1. 0 \in S
    BY <1>7
  <2>2. ASSUME NEW d \in Nat, d \in S PROVE d + 1 \in S
    <3>1. SUFFICES ASSUME d + 1 <= MaxDepth PROVE C(d + 1)
      OBVIOUS
    <3>2. C(d)
      BY <1>2, <2>2, <3>1
    <3>. QED
      BY <1>8, <3>1, <3>2
  <2>. HIDE DEF S
  <2>3. Nat \subseteq S
    BY <2>1, <2>2, UpFromZero
  <2>. QED
    BY <1>2, <2>3 DEF S
<1>10. \A p \in At(MaxDepth) : ~ Good(MaxDepth - MaxDepth, p)
  <2>1. MaxDepth - MaxDepth = 0
    BY <1>2
  <2>2. \A p : Body(p, extras) # None => ~ Clean(0, Body(p, extras))
    BY <1>3, <1>4, BodyIs
  <2>. QED
    BY <2>1, <2>2
<1>11. \A j : j \in 0 .. MaxDepth <=> j \in 0 .. MaxDepth - 1 \/ j = MaxDepth
  BY <1>2
<1>12. Expanded(grok, extras).err = "none" <=>
         (\A j \in 0 .. MaxDepth - 1 : Known(j)) /\ At(MaxDepth) = {}
  <2>1. (\A p \in At(MaxDepth) : Good(MaxDepth - MaxDepth, p)) <=> At(MaxDepth) = {}
    <3>. HIDE DEF Good, At
    <3>. QED
      BY <1>10
  <2>. HIDE DEF Good, At, Known
  <2>. QED
    BY <1>9, <2>1
<1>. QED
  BY <1>11, <1>12 DEF Reachable

LEMMA LibraryExpanding == AnswerInv => LibraryExpands
<1>1. ASSUME NEW e \in Entries
      PROVE  CompileGrok(e.grok, e.extras).err = "none" <=>
               Reachable(e.grok, e.extras) /\ Parsable(e.grok, e.extras)
  <2>1. e.grok \in Seq(Pieces) /\ Extras(e.extras)
    BY ServerAssumption DEF Extras
  <2>. QED
    BY <2>1, CompileIs, ExpandsWhenReachable
<1>2. Compiled = {e \in Expandable : Parsable(e.grok, e.extras)}
  BY <1>1 DEF Compiled, Expandable, Reachable
<1>. QED
  BY <1>2 DEF AnswerInv, LibraryExpands

-----------------------------------------------------------------------------
(***************************************************************************)
(* The names an expansion hands out                                        *)
(***************************************************************************)
Bare(x) == x.suffix = <<>>

Mono(U, V) == \A m \in Names : Asked(m, U) <= Asked(m, V)

\* A numbered name that was handed out after the names U and up to V.
Born(x, U, V) ==
  \E m \in Names, k \in Nat : k >= 2 /\ x = Nth(m, k) /\ Asked(m, U) < k /\ k <= Asked(m, V)

\* A name that was handed out between U and V: numbered, or asked for the first time.
Kind(x, U, V) == (Bare(x) /\ Asked(x, U) = 0 /\ Asked(x, V) >= 1) \/ Born(x, U, V)

\* What a loop from V to W makes of names that are bare or were born up to V.
Again(x, U, V, W) ==
  \/ (Bare(x) \/ Born(x, U, V)) /\ Asked(x, V) = 0 /\ Asked(x, W) >= 1
  \/ Born(x, V, W)

LEMMA NthNumbered ==
  ASSUME NEW m \in Names, NEW n \in Names, NEW j \in Nat, NEW k \in Nat, j >= 2, k >= 2
  PROVE  /\ ~ Bare(Nth(m, j))
         /\ Nth(m, j) = Nth(n, k) => m = n /\ j = k
<1>1. /\ Nth(m, j) = [base |-> m.base, suffix |-> Append(m.suffix, j)]
      /\ Nth(n, k) = [base |-> n.base, suffix |-> Append(n.suffix, k)]
  <2>1. j # 1 /\ k # 1
    OBVIOUS
  <2>. QED
    BY <2>1, NthIs
<1>2. m.suffix \in Seq(Nat) /\ n.suffix \in Seq(Nat)
  BY DEF Names
<1>3. Append(m.suffix, j) # <<>>
  <2>. DEFINE s == m.suffix
  <2>1. s \in Seq(Nat)
    BY <1>2
  <2>. HIDE DEF s
  <2>2. Append(s, j) # <<>>
    BY <2>1, AppendProperties
  <2>. QED
    BY <2>2 DEF s
<1>4. ~ Bare(Nth(m, j))
  BY <1>1, <1>3 DEF Bare
<1>5. ASSUME Nth(m, j) = Nth(n, k) PROVE m = n /\ j = k
  <2>1. m.base = n.base /\ Append(m.suffix, j) = Append(n.suffix, k)
    BY <1>1, <1>5
  <2>2. m.suffix = n.suffix /\ j = k
    <3>. DEFINE s == m.suffix
                t == n.suffix
    <3>1. s \in Seq(Nat) /\ t \in Seq(Nat) /\ Append(s, j) = Append(t, k)
      BY <1>2, <2>1
    <3>. HIDE DEF s, t
    <3>2. s = t /\ j = k
      BY <3>1, AppendInjective
    <3>. QED
      BY <3>2 DEF s, t
  <2>3. m = [base |-> m.base, suffix |-> m.suffix] /\ n = [base |-> n.base, suffix |-> n.suffix]
    BY DEF Names
  <2>. HIDE DEF Names
  <2>. QED
    BY ONLY <2>1, <2>2, <2>3
<1>. QED
  BY <1>4, <1>5

LEMMA BornIs ==
  ASSUME NEW U \in Seq(Names), NEW V \in Seq(Names), NEW x, Born(x, U, V)
  PROVE  x \in Names /\ ~ Bare(x)
<1>1. PICK m \in Names, k \in Nat : k >= 2 /\ x = Nth(m, k)
  BY DEF Born
<1>2. Nth(m, k) \in Names
  BY NthIs
<1>3. ~ Bare(Nth(m, k))
  BY <1>1, NthNumbered
<1>. QED
  BY <1>1, <1>2, <1>3

\* What is born up to V is not born after V.
LEMMA BornOnce ==
  ASSUME NEW U \in Seq(Names), NEW V \in Seq(Names), NEW W \in Seq(Names), NEW Z \in Seq(Names),
         Mono(V, W), NEW x, Born(x, U, V)
  PROVE  ~ Born(x, W, Z)
<1>1. SUFFICES ASSUME Born(x, W, Z) PROVE FALSE
  OBVIOUS
<1>2. PICK m \in Names, k \in Nat : k >= 2 /\ x = Nth(m, k) /\ k <= Asked(m, V)
  BY DEF Born
<1>3. PICK n \in Names, j \in Nat : j >= 2 /\ x = Nth(n, j) /\ Asked(n, W) < j
  BY <1>1 DEF Born
<1>4. m = n /\ k = j
  <2>1. Nth(m, k) = Nth(n, j) /\ k >= 2 /\ j >= 2
    BY <1>2, <1>3
  <2>. QED
    BY ONLY <2>1, m \in Names, n \in Names, k \in Nat, j \in Nat, NthNumbered
<1>5. Asked(m, V) \in Nat /\ Asked(m, W) \in Nat /\ Asked(m, V) <= Asked(m, W)
  BY AskedIs DEF Mono
<1>. QED
  BY <1>2, <1>3, <1>4, <1>5

LEMMA MonoIs ==
  ASSUME NEW U \in Seq(Names), NEW V \in Seq(Names), NEW W \in Seq(Names)
  PROVE  /\ Mono(U, U)
         /\ Mono(U, V) /\ Mono(V, W) => Mono(U, W)
         /\ \A y \in Names : Mono(U, Append(U, y))
<1>1. \A m : Asked(m, U) \in Nat /\ Asked(m, V) \in Nat /\ Asked(m, W) \in Nat
  BY AskedIs
<1>2. Mono(U, U)
  BY <1>1 DEF Mono
<1>3. Mono(U, V) /\ Mono(V, W) => Mono(U, W)
  BY <1>1 DEF Mono
<1>4. ASSUME NEW y \in Names PROVE Mono(U, Append(U, y))
  <2>1. \A m \in Names : Asked(m, Append(U, y)) = IF y = m THEN Asked(m, U) + 1 ELSE Asked(m, U)
    BY AskedIs
  <2>. QED
    BY <1>1, <2>1 DEF Mono
<1>. QED
  BY <1>2, <1>3, <1>4

LEMMA BornWidens ==
  ASSUME NEW T \in Seq(Names), NEW U \in Seq(Names), NEW V \in Seq(Names), NEW W \in Seq(Names),
         Mono(T, U), Mono(V, W), NEW x, Born(x, U, V)
  PROVE  Born(x, T, W)
<1>1. PICK m \in Names, k \in Nat : k >= 2 /\ x = Nth(m, k) /\ Asked(m, U) < k /\ k <= Asked(m, V)
  BY DEF Born
<1>2. /\ Asked(m, T) \in Nat /\ Asked(m, U) \in Nat /\ Asked(m, V) \in Nat /\ Asked(m, W) \in Nat
      /\ Asked(m, T) <= Asked(m, U) /\ Asked(m, V) <= Asked(m, W)
  BY AskedIs DEF Mono
<1>3. Asked(m, T) < k /\ k <= Asked(m, W)
  BY <1>1, <1>2
<1>. QED
  BY <1>1, <1>3 DEF Born

LEMMA KindWidens ==
  ASSUME NEW T \in Seq(Names), NEW U \in Seq(Names), NEW V \in Seq(Names), NEW W \in Seq(Names),
         Mono(T, U), Mono(V, W), NEW x \in Names, Kind(x, U, V)
  PROVE  Kind(x, T, W)
<1>1. /\ Asked(x, T) \in Nat /\ Asked(x, U) \in Nat /\ Asked(x, V) \in Nat /\ Asked(x, W) \in Nat
      /\ Asked(x, T) <= Asked(x, U) /\ Asked(x, V) <= Asked(x, W)
  BY AskedIs DEF Mono
<1>2. Born(x, U, V) => Born(x, T, W)
  BY BornWidens
<1>3. CASE Bare(x) /\ Asked(x, U) = 0 /\ Asked(x, V) >= 1
  <2>1. Asked(x, T) = 0 /\ Asked(x, W) >= 1
    BY <1>1, <1>3
  <2>. QED
    BY <1>3, <2>1 DEF Kind
<1>. QED
  BY <1>2, <1>3 DEF Kind

\* Names handed out one after the other are different.
LEMMA KindsApart ==
  ASSUME NEW U \in Seq(Names), NEW V \in Seq(Names), NEW W \in Seq(Names),
         NEW x \in Names, Kind(x, U, V), NEW y \in Names, Kind(y, V, W)
  PROVE  x # y
<1>1. SUFFICES ASSUME x = y PROVE FALSE
  OBVIOUS
<1>2. Asked(x, V) \in Nat
  BY AskedIs
<1>3. Born(x, U, V) \/ Born(x, V, W) => ~ Bare(x)
  BY BornIs
<1>4. ~ (Born(x, U, V) /\ Born(x, V, W))
  BY BornOnce, MonoIs
<1>5. (Bare(x) /\ Asked(x, V) >= 1) \/ Born(x, U, V)
  BY DEF Kind
<1>6. (Bare(x) /\ Asked(x, V) = 0) \/ Born(x, V, W)
  BY <1>1 DEF Kind
<1>. QED
  BY <1>2, <1>3, <1>4, <1>5, <1>6

LEMMA AgainIsKind ==
  ASSUME NEW U \in Seq(Names), NEW V \in Seq(Names), NEW W \in Seq(Names),
         Mono(U, V), Mono(V, W), NEW x \in Names, Again(x, U, V, W)
  PROVE  Kind(x, U, W)
<1>1. /\ Asked(x, U) \in Nat /\ Asked(x, V) \in Nat /\ Asked(x, W) \in Nat
      /\ Asked(x, U) <= Asked(x, V)
  BY AskedIs DEF Mono
<1>2. Born(x, U, V) => Born(x, U, W)
  BY BornWidens, MonoIs
<1>3. Born(x, V, W) => Born(x, U, W)
  BY BornWidens, MonoIs
<1>4. Asked(x, V) = 0 => Asked(x, U) = 0
  BY <1>1
<1>. QED
  BY <1>2, <1>3, <1>4 DEF Again, Kind

\* A name that is asked for in such a loop, and the names it handed out before.
LEMMA NameAsked ==
  ASSUME NEW U \in Seq(Names), NEW V \in Seq(Names), NEW W \in Seq(Names),
         Mono(V, W), NEW y \in Names, Bare(y) \/ Born(y, U, V)
  PROVE  LET z == UniqueName(y, W)
             more == Append(W, y) IN
         /\ z \in Names /\ more \in Seq(Names) /\ Mono(W, more)
         /\ Again(z, U, V, more)
         /\ \A x \in Names : Again(x, U, V, W) => x # z /\ Again(x, U, V, more)
<1>. DEFINE z == UniqueName(y, W)
            more == Append(W, y)
            j == Asked(y, W)
<1>1. z \in Names /\ more \in Seq(Names) /\ Mono(W, more)
  BY UniqueNameIs, MonoIs, AppendProperties
<1>2. /\ j \in Nat /\ Asked(y, V) \in Nat /\ Asked(y, V) <= j
      /\ Asked(y, more) = j + 1
  BY AskedIs DEF Mono
<1>3. z = Nth(y, j + 1) /\ j + 1 \in Nat
  BY <1>2 DEF UniqueName
<1>. HIDE DEF more, z, j
<1>4. ASSUME NEW x \in Names, Again(x, U, V, W) PROVE Again(x, U, V, more)
  <2>1. Asked(x, W) \in Nat /\ Asked(x, more) \in Nat /\ Asked(x, W) <= Asked(x, more)
    BY <1>1, AskedIs DEF Mono
  <2>2. Asked(x, W) >= 1 => Asked(x, more) >= 1
    BY <2>1
  <2>3. Born(x, V, W) => Born(x, V, more)
    BY <1>1, BornWidens, MonoIs
  <2>. QED
    BY <1>4, <2>2, <2>3 DEF Again
<1>5. CASE j = 0
  <2>1. z = y
    BY <1>3, <1>5, NthIs
  <2>2. Asked(y, V) = 0 /\ Asked(y, more) >= 1
    BY <1>2, <1>5
  <2>3. Again(z, U, V, more)
    BY <2>1, <2>2 DEF Again
  <2>4. ASSUME NEW x \in Names, Again(x, U, V, W) PROVE x # z
    <3>1. SUFFICES ASSUME x = y PROVE FALSE
      BY <2>1
    <3>2. ~ (Asked(y, W) >= 1)
      BY <1>5 DEF j
    <3>3. Born(y, V, W)
      BY <2>4, <3>1, <3>2 DEF Again
    <3>4. ~ Bare(y)
      BY <3>3, BornIs
    <3>5. Born(y, U, V)
      BY <3>4
    <3>. QED
      BY <3>3, <3>5, BornOnce, MonoIs
  <2>. QED
    BY <1>1, <1>4, <2>3, <2>4 DEF z, more
<1>6. CASE j # 0
  <2>1. j + 1 >= 2 /\ Asked(y, V) < j + 1 /\ j + 1 <= Asked(y, more)
    BY <1>2, <1>6
  <2>2. Born(z, V, more)
    BY <1>3, <2>1 DEF Born
  <2>3. ASSUME NEW x \in Names, Again(x, U, V, W) PROVE x # z
    <3>1. SUFFICES ASSUME x = z PROVE FALSE
      OBVIOUS
    <3>2. ~ Bare(x)
      BY <1>1, <2>2, <3>1, BornIs
    <3>3. Born(x, U, V) \/ Born(x, V, W)
      BY <2>3, <3>2 DEF Again
    <3>4. ~ Born(x, U, V)
      BY <1>1, <2>2, <3>1, BornOnce, MonoIs
    <3>5. PICK m \in Names, k \in Nat : k >= 2 /\ x = Nth(m, k) /\ k <= Asked(m, W)
      BY <3>3, <3>4 DEF Born
    <3>6. m = y /\ k = j + 1
      BY <1>3, <2>1, <3>1, <3>5, NthNumbered
    <3>. QED
      BY <1>2, <3>5, <3>6 DEF j
  <2>4. Again(z, U, V, more)
    BY <2>2 DEF Again
  <2>. QED
    BY <1>1, <1>4, <2>3, <2>4 DEF z, more
<1>. QED
  BY <1>5, <1>6

Differ(G) == \A i, j \in 1 .. Len(G) : G[i].name = G[j].name => i = j
Tidy(G, U, V) == \A i \in 1 .. Len(G) : Bare(G[i].name) \/ Born(G[i].name, U, V)
Apart(G, U, V) == Differ(G) /\ \A i \in 1 .. Len(G) : Kind(G[i].name, U, V)

LEMMA GroupNames ==
  ASSUME NEW G \in Seq(GroupSet)
  PROVE  /\ Len(G) \in Nat /\ DOMAIN G = 1 .. Len(G)
         /\ \A i \in 1 .. Len(G) : G[i] \in GroupSet /\ G[i].name \in Names
<1>1. \A g \in GroupSet : g.name \in Names
  BY DEF GroupSet
<1>. QED
  BY <1>1, LenProperties, ElementOfSeq

LEMMA ExpansionParts ==
  ASSUME NEW e \in Expansions
  PROVE  e.err \in Errors /\ e.groups \in Seq(GroupSet) /\ e.used \in Seq(Names)
BY DEF Expansions

LEMMA ConcatGroups ==
  ASSUME NEW G \in Seq(GroupSet), NEW H \in Seq(GroupSet)
  PROVE  /\ G \o H \in Seq(GroupSet) /\ Len(G \o H) = Len(G) + Len(H)
         /\ \A i \in 1 .. Len(G \o H) :
              \/ i \in 1 .. Len(G) /\ (G \o H)[i] = G[i]
              \/ i - Len(G) \in 1 .. Len(H) /\ (G \o H)[i] = H[i - Len(G)]
<1>. DEFINE J == G \o H
            m == Len(G)
            n == Len(H)
<1>1. m \in Nat /\ n \in Nat
  BY LenProperties
<1>2. /\ J \in Seq(GroupSet) /\ Len(J) = m + n
      /\ \A i \in 1 .. m + n : J[i] = IF i <= m THEN G[i] ELSE H[i - m]
  BY ConcatProperties
<1>. HIDE DEF J, m, n
<1>3. \A i \in 1 .. Len(J) : \/ i \in 1 .. m /\ J[i] = G[i]
                             \/ i - m \in 1 .. n /\ J[i] = H[i - m]
  BY <1>1, <1>2
<1>. QED
  BY <1>2, <1>3 DEF J, m, n

LEMMA ConcatApart ==
  ASSUME NEW G \in Seq(GroupSet), NEW H \in Seq(GroupSet),
         NEW U \in Seq(Names), NEW V \in Seq(Names),
         Apart(G, U, V), Apart(H, U, V),
         \A i \in 1 .. Len(G), j \in 1 .. Len(H) : G[i].name # H[j].name
  PROVE  Apart(G \o H, U, V)
<1>. DEFINE J == G \o H
            m == Len(G)
<1>1. \A i \in 1 .. Len(J) : \/ i \in 1 .. m /\ J[i] = G[i]
                             \/ i - m \in 1 .. Len(H) /\ J[i] = H[i - m]
  BY ConcatGroups
<1>2. m \in Nat /\ Len(J) \in Nat
  BY LenProperties, ConcatGroups
<1>. HIDE DEF J, m
<1>3. \A i \in 1 .. Len(J) : Kind(J[i].name, U, V)
  BY <1>1 DEF Apart, m
<1>4. ASSUME NEW i \in 1 .. Len(J), NEW j \in 1 .. Len(J), J[i].name = J[j].name
      PROVE  i = j
  <2>1. CASE i \in 1 .. m /\ J[i] = G[i]
    <3>1. j \in 1 .. m /\ J[j] = G[j]
      BY <1>1, <1>4, <2>1 DEF m
    <3>. QED
      BY <1>4, <2>1, <3>1 DEF Apart, Differ, m
  <2>2. CASE i - m \in 1 .. Len(H) /\ J[i] = H[i - m]
    <3>1. j - m \in 1 .. Len(H) /\ J[j] = H[j - m]
      BY <1>1, <1>4, <2>2 DEF m
    <3>2. i - m = j - m
      BY <1>4, <2>2, <3>1 DEF Apart, Differ
    <3>. QED
      BY <1>2, <3>2
  <2>. QED
    BY <1>1, <2>1, <2>2
<1>. QED
  BY <1>3, <1>4 DEF Apart, Differ, J

LEMMA ConcatTidy ==
  ASSUME NEW G \in Seq(GroupSet), NEW H \in Seq(GroupSet), NEW U, NEW V,
         Tidy(G, U, V), Tidy(H, U, V)
  PROVE  Tidy(G \o H, U, V)
<1>. DEFINE J == G \o H
            m == Len(G)
<1>1. \A i \in 1 .. Len(J) : \/ i \in 1 .. m /\ J[i] = G[i]
                             \/ i - m \in 1 .. Len(H) /\ J[i] = H[i - m]
  BY ConcatGroups
<1>. HIDE DEF J
<1>. QED
  BY <1>1 DEF Tidy, J

LEMMA ApartIsTidy ==
  ASSUME NEW G, NEW U, NEW V, Apart(G, U, V)
  PROVE  Tidy(G, U, V)
BY DEF Apart, Tidy, Kind

LEMMA ApartWidens ==
  ASSUME NEW G \in Seq(GroupSet),
         NEW T \in Seq(Names), NEW U \in Seq(Names), NEW V \in Seq(Names), NEW W \in Seq(Names),
         Mono(T, U), Mono(V, W)
  PROVE  /\ Apart(G, U, V) => Apart(G, T, W)
         /\ Tidy(G, U, V) => Tidy(G, T, W)
<1>1. \A i \in 1 .. Len(G) : G[i].name \in Names
  BY GroupNames
<1>2. \A x \in Names : /\ Kind(x, U, V) => Kind(x, T, W)
                       /\ Born(x, U, V) => Born(x, T, W)
  BY KindWidens, BornWidens
<1>. QED
  BY <1>1, <1>2 DEF Apart, Tidy

\* Groups named after others have other names.
LEMMA ChainApart ==
  ASSUME NEW G \in Seq(GroupSet), NEW H \in Seq(GroupSet),
         NEW U \in Seq(Names), NEW V \in Seq(Names), NEW W \in Seq(Names),
         Mono(U, V), Mono(V, W), Apart(G, U, V), Apart(H, V, W)
  PROVE  Apart(G \o H, U, W) /\ Apart(H \o G, U, W)
<1>1. Mono(U, U) /\ Mono(W, W)
  BY MonoIs
<1>2. Apart(G, U, W) /\ Apart(H, U, W)
  BY <1>1, ApartWidens
<1>3. ASSUME NEW i \in 1 .. Len(G), NEW j \in 1 .. Len(H) PROVE G[i].name # H[j].name
  <2>1. G[i].name \in Names /\ H[j].name \in Names
    BY GroupNames
  <2>2. Kind(G[i].name, U, V) /\ Kind(H[j].name, V, W)
    BY DEF Apart
  <2>. QED
    BY <2>1, <2>2, KindsApart
<1>4. \A j \in 1 .. Len(H), i \in 1 .. Len(G) : H[j].name # G[i].name
  BY <1>3
<1>. QED
  BY <1>2, <1>3, <1>4, ConcatApart

AllInner(G) == \A i \in 1 .. Len(G) : G[i].inner = TRUE

\* dedupNamedGroups after the first k groups.
DedupStep(f, e, U, k) ==
  /\ f[k] \in Expansions /\ Len(f[k].groups) = k /\ Mono(e.used, f[k].used)
  /\ AllInner(f[k].groups) /\ Differ(f[k].groups)
  /\ \A i \in 1 .. k : Again(f[k].groups[i].name, U, e.used, f[k].used)

LEMMA DedupOne ==
  ASSUME NEW e \in Expansions, NEW U \in Seq(Names), Mono(U, e.used), Tidy(e.groups, U, e.used),
         NEW f, Renames(e, f), NEW k \in 1 .. Len(e.groups), DedupStep(f, e, U, k - 1)
  PROVE  DedupStep(f, e, U, k)
<1>. DEFINE d == f[k - 1]
            g == e.groups[k]
            y == g.name
            z == UniqueName(y, d.used)
            r == Renamed(g, d.used)
            G == d.groups
            W == d.used
            V == e.used
            H == Append(G, r)
            more == Append(W, y)
<1>1. /\ d \in Expansions /\ Len(G) = k - 1 /\ Mono(V, W) /\ AllInner(G) /\ Differ(G)
      /\ \A i \in 1 .. k - 1 : Again(G[i].name, U, V, W)
  BY DEF DedupStep
<1>2. /\ g \in GroupSet /\ y \in Names /\ V \in Seq(Names) /\ k \in Nat
      /\ Bare(y) \/ Born(y, U, V)
  BY ExpansionParts, GroupNames DEF Tidy
<1>3. G \in Seq(GroupSet) /\ W \in Seq(Names)
  BY <1>1, ExpansionParts
<1>4. f[k] = Rename(d, g)
  BY DEF Renames
<1>. HIDE DEF d, g, V
<1>5. /\ r \in GroupSet /\ Rename(d, g) \in Expansions
      /\ Rename(d, g) = Expansion(d.err, H, more)
  BY <1>1, <1>2, RenameIs
<1>6. f[k] \in Expansions /\ f[k].groups = H /\ f[k].used = more
  BY <1>4, <1>5 DEF Expansion
<1>7. r.name = z /\ r.inner = TRUE
  BY DEF Renamed
<1>. HIDE DEF G, W, r, y
<1>8. /\ z \in Names /\ more \in Seq(Names) /\ Mono(W, more) /\ Again(z, U, V, more)
      /\ \A x \in Names : Again(x, U, V, W) => x # z /\ Again(x, U, V, more)
  <2>1. W \in Seq(Names) /\ y \in Names /\ V \in Seq(Names) /\ Mono(V, W) /\ (Bare(y) \/ Born(y, U, V))
    BY <1>1, <1>2, <1>3
  <2>2. z = UniqueName(y, W)
    BY DEF W
  <2>. HIDE DEF z
  <2>. QED
    BY <2>1, <2>2, NameAsked
<1>. HIDE DEF more, z
<1>9. Mono(V, more)
  BY <1>1, <1>2, <1>3, <1>8, MonoIs
<1>10. /\ Len(H) = k /\ H[k] = r /\ \A i \in 1 .. k - 1 : H[i] = G[i]
  <2>1. Len(H) = Len(G) + 1 /\ H[Len(G) + 1] = r /\ \A i \in 1 .. Len(G) : H[i] = G[i]
    BY <1>3, <1>5, AppendProperties
  <2>2. Len(G) + 1 = k
    BY <1>1, <1>2
  <2>. HIDE DEF H
  <2>. QED
    BY <1>1, <2>1, <2>2
<1>11. \A i \in 1 .. k - 1 : G[i].name \in Names /\ Again(G[i].name, U, V, W) /\ G[i].inner = TRUE
  BY <1>1, <1>3, GroupNames DEF AllInner
<1>. HIDE DEF H
<1>12. \A i \in 1 .. k : i \in 1 .. k - 1 \/ i = k
  BY <1>2
<1>13. AllInner(H)
  BY <1>7, <1>10, <1>11, <1>12 DEF AllInner
<1>14. \A i \in 1 .. k : Again(H[i].name, U, V, more)
  BY <1>7, <1>8, <1>10, <1>11, <1>12
<1>15. Differ(H)
  <2>1. SUFFICES ASSUME NEW i \in 1 .. k, NEW j \in 1 .. k, H[i].name = H[j].name PROVE i = j
    BY <1>10 DEF Differ
  <2>2. CASE i = k /\ j # k
    BY <1>7, <1>8, <1>10, <1>11, <1>12, <2>1, <2>2
  <2>3. CASE j = k /\ i # k
    BY <1>7, <1>8, <1>10, <1>11, <1>12, <2>1, <2>3
  <2>4. CASE i # k /\ j # k
    <3>1. i \in 1 .. Len(G) /\ j \in 1 .. Len(G) /\ H[i] = G[i] /\ H[j] = G[j]
      BY <1>1, <1>10, <1>12, <2>4
    <3>. QED
      BY <1>1, <2>1, <3>1 DEF Differ
  <2>. QED
    BY <2>2, <2>3, <2>4
<1>. QED
  BY <1>6, <1>9, <1>10, <1>13, <1>14, <1>15 DEF DedupStep, V

LEMMA DedupApart ==
  ASSUME NEW e \in Expansions, NEW U \in Seq(Names), Mono(U, e.used), Tidy(e.groups, U, e.used)
  PROVE  LET D == DedupNamedGroups(e) IN
         /\ D \in Expansions /\ Len(D.groups) = Len(e.groups) /\ AllInner(D.groups)
         /\ Mono(U, D.used) /\ Apart(D.groups, U, D.used)
<1>. DEFINE n == Len(e.groups)
            D == DedupNamedGroups(e)
<1>1. PICK f : Renames(e, f) /\ D = f[n]
  BY DedupUnfold
<1>2. e.groups \in Seq(GroupSet) /\ e.used \in Seq(Names) /\ n \in Nat
  BY ExpansionParts, LenProperties
<1>. DEFINE P == {k \in 0 .. n : DedupStep(f, e, U, k)}
<1>3. 0 \in P
  <2>1. f[0].groups = <<>> /\ f[0].used = e.used /\ f[0] = Expansion(e.err, <<>>, e.used)
    BY <1>1 DEF Renames, Expansion
  <2>2. f[0] \in Expansions
    <3>. DEFINE err == e.err
                G == <<>>
                V == e.used
    <3>1. err \in Errors /\ G \in Seq(GroupSet) /\ V \in Seq(Names)
      BY ExpansionParts, EmptySeq
    <3>. HIDE DEF err, G, V
    <3>2. Expansion(err, G, V) \in Expansions
      BY <3>1, ExpansionIs
    <3>. QED
      BY <2>1, <3>2 DEF err, G, V
  <2>3. Len(f[0].groups) = 0 /\ Mono(e.used, f[0].used)
    BY <1>2, <2>1, MonoIs
  <2>4. AllInner(f[0].groups) /\ Differ(f[0].groups)
    BY <2>3 DEF AllInner, Differ
  <2>5. DedupStep(f, e, U, 0)
    BY <2>2, <2>3, <2>4 DEF DedupStep
  <2>. QED
    BY <1>2, <2>5
<1>4. ASSUME NEW k \in 1 .. n, k - 1 \in P PROVE k \in P
  <2>1. DedupStep(f, e, U, k)
    BY <1>1, <1>4, DedupOne
  <2>. QED
    BY <1>2, <2>1
<1>. HIDE DEF P
<1>5. n \in P
  BY <1>2, <1>3, <1>4, AlongLoop DEF P
<1>. HIDE DEF n, D
<1>6. /\ D \in Expansions /\ Len(D.groups) = n /\ Mono(e.used, D.used)
      /\ AllInner(D.groups) /\ Differ(D.groups)
      /\ \A i \in 1 .. n : Again(D.groups[i].name, U, e.used, D.used)
  BY <1>1, <1>5 DEF P, DedupStep
<1>7. D.groups \in Seq(GroupSet) /\ D.used \in Seq(Names)
  BY <1>6, ExpansionParts
<1>8. Mono(U, D.used)
  BY <1>2, <1>6, <1>7, MonoIs
<1>9. \A i \in 1 .. Len(D.groups) : Kind(D.groups[i].name, U, D.used)
  <2>. TAKE i \in 1 .. Len(D.groups)
  <2>1. D.groups[i].name \in Names
    BY <1>7, GroupNames
  <2>2. Again(D.groups[i].name, U, e.used, D.used)
    BY <1>6
  <2>. QED
    BY <1>2, <1>6, <1>7, <2>1, <2>2, AgainIsKind
<1>. QED
  BY <1>6, <1>8, <1>9 DEF Apart, n, D

\* What one written piece says is no numbered name.
Plainly(piece) ==
  /\ piece.kind = "group" => Bare(piece.name)
  /\ piece.kind # "group" /\ piece.field # None => Bare(Sanitized[piece.field])

Fresher(U, X) == Mono(U, X.used) /\ Tidy(X.groups, U, X.used)

LEMMA OwnApart ==
  ASSUME NEW g \in GroupSet, NEW V \in Seq(Names), NEW y \in Names, Bare(y),
         g.name = UniqueName(y, V)
  PROVE  <<g>> \in Seq(GroupSet) /\ Apart(<<g>>, V, Append(V, y)) /\ Mono(V, Append(V, y))
<1>. DEFINE more == Append(V, y)
            z == UniqueName(y, V)
<1>1. Mono(V, V)
  BY MonoIs
<1>2. z \in Names /\ more \in Seq(Names) /\ Mono(V, more) /\ Again(z, V, V, more)
  BY <1>1, NameAsked
<1>. HIDE DEF z, more
<1>3. Kind(z, V, more)
  BY <1>1, <1>2, AgainIsKind
<1>. DEFINE G == <<g>>
<1>4. G \in Seq(GroupSet) /\ Len(G) = 1 /\ G[1] = g
  OBVIOUS
<1>. HIDE DEF G
<1>5. \A i \in 1 .. Len(G) : i = 1
  BY <1>4
<1>6. g.name = z
  BY DEF z
<1>7. Apart(G, V, more)
  BY <1>3, <1>4, <1>5, <1>6 DEF Apart, Differ
<1>. QED
  BY <1>2, <1>4, <1>7 DEF G, more

LEMMA WrappedApart ==
  ASSUME NEW piece \in Pieces, piece.kind # "group", Plainly(piece),
         NEW body \in Expansions, NEW U \in Seq(Names), Fresher(U, body)
  PROVE  LET W == Wrapped(piece, body) IN Mono(U, W.used) /\ Apart(W.groups, U, W.used)
<1>. DEFINE D == DedupNamedGroups(body)
            W == Wrapped(piece, body)
            y == Sanitized[piece.field]
            V == D.used
            own == Opened(piece, UniqueName(y, V), Len(D.groups))
<1>1. D \in Expansions /\ Mono(U, V) /\ Apart(D.groups, U, V)
  BY DedupApart DEF Fresher
<1>2. V \in Seq(Names) /\ D.groups \in Seq(GroupSet)
  BY <1>1, ExpansionParts
<1>3. CASE piece.field = None
  <2>1. W = D
    BY <1>3, WrappedIs
  <2>. QED
    BY <1>1, <2>1
<1>4. CASE piece.field # None
  <2>1. y \in Names /\ Bare(y)
    BY <1>4, PieceIs DEF Plainly
  <2>2. own \in GroupSet /\ W.groups = <<own>> \o D.groups /\ W.used = Append(V, y)
    BY <1>4, WrappedIs
  <2>3. own.name = UniqueName(y, V)
    BY DEF Opened
  <2>. HIDE DEF own, D, W, V, y
  <2>4. <<own>> \in Seq(GroupSet) /\ Apart(<<own>>, V, Append(V, y)) /\ Mono(V, Append(V, y))
    BY <1>2, <2>1, <2>2, <2>3, OwnApart
  <2>5. Append(V, y) \in Seq(Names)
    BY <1>2, <2>1, AppendProperties
  <2>. DEFINE more == Append(V, y)
              G == <<own>>
  <2>. HIDE DEF more, G
  <2>6. more \in Seq(Names) /\ Mono(V, more) /\ G \in Seq(GroupSet) /\ Apart(G, V, more)
    BY <2>4, <2>5 DEF more, G
  <2>7. Apart(G \o D.groups, U, more)
    BY <1>1, <1>2, <2>6, ChainApart
  <2>8. Mono(U, more)
    BY <1>1, <1>2, <2>6, MonoIs
  <2>. QED
    BY <2>2, <2>7, <2>8 DEF more, G, W
<1>. QED
  BY <1>3, <1>4

LEMMA PieceInside ==
  ASSUME NEW e \in Expansions, NEW piece \in Pieces, NEW extras, Extras(extras),
         NEW deeper \in [GrokCalls -> Expansions],
         piece.kind # "group", Leads(piece, extras, deeper, e.used)
  PROVE  LET r == ExpandPiece(e, piece, extras, deeper)
             inside == deeper[GrokCall(Body(piece.prim, extras), e.used)] IN
         /\ inside \in Expansions /\ Wrapped(piece, inside) \in Expansions
         /\ r.groups = e.groups \o Wrapped(piece, inside).groups
         /\ r.used = Wrapped(piece, inside).used
<1>1. /\ Body(piece.prim, extras) # None
      /\ deeper[GrokCall(Body(piece.prim, extras), e.used)].err = "none"
  BY DEF Leads
<1>. DEFINE r == ExpandPiece(e, piece, extras, deeper)
            inside == deeper[GrokCall(Body(piece.prim, extras), e.used)]
<1>2. inside \in Expansions
  BY <1>1, ExpandPieceIs
<1>3. Wrapped(piece, inside) \in Expansions
  BY <1>2, WrappedIs
<1>. DEFINE G == e.groups \o Wrapped(piece, inside).groups
            V == Wrapped(piece, inside).used
<1>4. r = Expansion(e.err, G, V)
  BY <1>1 DEF ExpandPiece
<1>. HIDE DEF G, V, r
<1>5. r.groups = G /\ r.used = V
  BY <1>4 DEF Expansion
<1>. QED
  BY ONLY <1>2, <1>3, <1>5 DEF G, V, r

\* One piece of a pattern.
LEMMA PieceNames ==
  ASSUME NEW e \in Expansions, NEW piece \in Pieces, NEW extras, Extras(extras),
         NEW deeper \in [GrokCalls -> Expansions], Plainly(piece),
         piece.kind # "group" =>
           Fresher(e.used, deeper[GrokCall(Body(piece.prim, extras), e.used)]),
         ExpandPiece(e, piece, extras, deeper).err = "none",
         NEW T \in Seq(Names), Fresher(T, e)
  PROVE  LET r == ExpandPiece(e, piece, extras, deeper) IN
         /\ Fresher(T, r)
         /\ piece.kind # "group" /\ Apart(e.groups, T, e.used) => Apart(r.groups, T, r.used)
<1>. DEFINE r == ExpandPiece(e, piece, extras, deeper)
            G == e.groups
            U == e.used
<1>1. G \in Seq(GroupSet) /\ U \in Seq(Names) /\ Mono(T, U) /\ Tidy(G, T, U) /\ Mono(U, U)
  BY ExpansionParts, MonoIs DEF Fresher
<1>2. CASE piece.kind = "group"
  <2>. DEFINE g == Opened(piece, piece.name, 0)
              H == Append(G, g)
  <2>1. r.used = U /\ r.groups = H /\ g \in GroupSet
    <3>1. r = Expansion(e.err, H, U)
      BY <1>2 DEF ExpandPiece
    <3>2. g \in GroupSet
      BY <1>2, PieceIs, OpenedIs
    <3>. HIDE DEF g, H, U, r
    <3>. QED
      BY <3>1, <3>2 DEF Expansion
  <2>2. Bare(g.name)
    BY <1>2 DEF Opened, Plainly
  <2>. HIDE DEF g, G, r
  <2>3. /\ Len(G) \in Nat /\ Len(H) = Len(G) + 1 /\ H[Len(G) + 1] = g
        /\ \A i \in 1 .. Len(G) : H[i] = G[i]
    BY <1>1, <2>1, AppendProperties, LenProperties
  <2>. HIDE DEF H
  <2>4. \A i \in 1 .. Len(H) : i \in 1 .. Len(G) \/ i = Len(G) + 1
    BY <2>3
  <2>5. Tidy(H, T, U)
    BY <1>1, <2>2, <2>3, <2>4 DEF Tidy
  <2>. QED
    BY <1>1, <1>2, <2>1, <2>5 DEF Fresher, r
<1>3. CASE piece.kind # "group"
  <2>. DEFINE inside == deeper[GrokCall(Body(piece.prim, extras), U)]
              W == Wrapped(piece, inside)
  <2>1. Leads(piece, extras, deeper, U)
    BY <1>3, PieceClean
  <2>2. inside \in Expansions /\ W \in Expansions /\ r.groups = G \o W.groups /\ r.used = W.used
    BY <1>3, <2>1, PieceInside
  <2>3. Fresher(U, inside)
    BY <1>3
  <2>. HIDE DEF inside
  <2>4. Mono(U, W.used) /\ Apart(W.groups, U, W.used)
    BY <1>1, <1>3, <2>2, <2>3, WrappedApart
  <2>. DEFINE H == W.groups
              V == W.used
  <2>5. H \in Seq(GroupSet) /\ V \in Seq(Names) /\ Mono(U, V) /\ Apart(H, U, V)
    BY <2>2, <2>4, ExpansionParts
  <2>6. r.groups = G \o H /\ r.used = V
    BY <2>2
  <2>. HIDE DEF G, H, U, V, W, r
  <2>7. Mono(T, V) /\ Mono(V, V) /\ Mono(T, T)
    BY <1>1, <2>5, MonoIs
  <2>8. Tidy(G, T, V) /\ Tidy(H, T, V)
    <3>1. Tidy(H, U, V)
      BY <2>5, ApartIsTidy
    <3>2. Tidy(H, T, V)
      BY <1>1, <2>5, <2>7, <3>1, ApartWidens
    <3>3. Tidy(G, T, V)
      BY <1>1, <2>5, <2>7, ApartWidens
    <3>. QED
      BY <3>2, <3>3
  <2>9. Tidy(G \o H, T, V)
    BY <1>1, <2>5, <2>8, ConcatTidy
  <2>10. Apart(G, T, U) => Apart(G \o H, T, V)
    BY <1>1, <2>5, ChainApart
  <2>11. Fresher(T, r)
    BY <2>6, <2>7, <2>9 DEF Fresher
  <2>. QED
    BY <2>6, <2>10, <2>11 DEF r, G, U
<1>. QED
  BY <1>2, <1>3

\* Bodies that lead to no others, and write no numbered name.
Family(R, extras) ==
  /\ R \subseteq Seq(Pieces)
  /\ \A b \in R : \A i \in 1 .. Len(b) : Plainly(b[i])
  /\ \A b \in R : \A p \in Prims(b) : Body(p, extras) # None => Body(p, extras) \in R

AllRefs(b) == \A i \in 1 .. Len(b) : b[i].kind # "group"

NamedBy(call, X) ==
  X.err = "none" =>
    Fresher(call.used, X) /\ (AllRefs(call.grok) => Apart(X.groups, call.used, X.used))

LEMMA PiecesNames ==
  ASSUME NEW R, NEW extras, Extras(extras), Family(R, extras),
         NEW deeper \in [GrokCalls -> Expansions],
         \A call \in GrokCalls : call.grok \in R => NamedBy(call, deeper[call]),
         NEW call \in GrokCalls, call.grok \in R
  PROVE  NamedBy(call, ExpandPieces(call, extras, deeper))
<1>. DEFINE n == Len(call.grok)
            T == call.used
<1>1. /\ n \in Nat /\ \A k \in 1 .. n : call.grok[k] \in Pieces
      /\ call.grok \in Seq(Pieces) /\ T \in Seq(Names)
  BY CallIs
<1>2. PICK f \in [0 .. n -> Expansions] :
        Expands(f, call, extras, deeper) /\ ExpandPieces(call, extras, deeper) = f[n]
  BY PiecesUnfold
<1>3. SUFFICES ASSUME f[n].err = "none"
               PROVE  Fresher(T, f[n]) /\ (AllRefs(call.grok) => Apart(f[n].groups, T, f[n].used))
  BY <1>2 DEF NamedBy
<1>4. \A k \in 1 .. n : /\ f[k - 1].err = "none"
                        /\ call.grok[k].kind # "group" => Leads(call.grok[k], extras, deeper, f[k - 1].used)
  <2>1. f[Len(call.grok)].err = "none"
    BY <1>3
  <2>. QED
    BY <1>2, <2>1, CleanTrace
<1>5. \A k \in 1 .. n : f[k].err = "none"
  <2>. TAKE k \in 1 .. n
  <2>1. k = n \/ (k + 1 \in 1 .. n /\ (k + 1) - 1 = k)
    BY <1>1
  <2>. HIDE DEF n
  <2>. QED
    BY <1>3, <1>4, <2>1
<1>6. f[0].groups = <<>> /\ f[0].used = T
  BY <1>2 DEF Expands, Expansion
<1>. DEFINE Q(k) == Fresher(T, f[k]) /\ (AllRefs(call.grok) => Apart(f[k].groups, T, f[k].used))
            P == {k \in 0 .. n : Q(k)}
<1>7. 0 \in P
  <2>1. Len(f[0].groups) = 0 /\ Mono(T, f[0].used)
    BY <1>1, <1>6, MonoIs
  <2>2. Tidy(f[0].groups, T, f[0].used) /\ Apart(f[0].groups, T, f[0].used)
    BY <2>1 DEF Tidy, Apart, Differ
  <2>. QED
    BY <1>1, <2>1, <2>2 DEF Fresher
<1>8. ASSUME NEW k \in 1 .. n, k - 1 \in P PROVE k \in P
  <2>. DEFINE e == f[k - 1]
              piece == call.grok[k]
              body == Body(piece.prim, extras)
  <2>1. k - 1 \in 0 .. n /\ k \in 0 .. n /\ piece \in Pieces
    BY <1>1
  <2>2. /\ e \in Expansions /\ f[k] = ExpandPiece(e, piece, extras, deeper)
        /\ Fresher(T, e) /\ (AllRefs(call.grok) => Apart(e.groups, T, e.used))
    BY <1>2, <1>8, <2>1 DEF Expands
  <2>3. Plainly(piece) /\ (AllRefs(call.grok) => piece.kind # "group")
    BY DEF Family, AllRefs
  <2>4. f[k].err = "none"
    BY <1>5
  <2>5. piece.kind # "group" => body # None /\ deeper[GrokCall(body, e.used)].err = "none"
    BY <1>4 DEF Leads
  <2>. HIDE DEF e
  <2>6. piece.kind # "group" => Fresher(e.used, deeper[GrokCall(body, e.used)])
    <3>1. SUFFICES ASSUME piece.kind # "group" PROVE Fresher(e.used, deeper[GrokCall(body, e.used)])
      OBVIOUS
    <3>2. piece.prim \in Prims(call.grok)
      BY <1>1, <3>1, PrimsOf
    <3>3. body # None /\ body \in R /\ body \in Seq(Pieces)
      BY <2>5, <3>1, <3>2 DEF Family
    <3>4. e.used \in Seq(Names)
      BY <2>2, ExpansionParts
    <3>. HIDE DEF body
    <3>5. GrokCall(body, e.used) \in GrokCalls /\ GrokCall(body, e.used).grok = body
          /\ GrokCall(body, e.used).used = e.used
      BY <3>3, <3>4 DEF GrokCall, GrokCalls
    <3>6. NamedBy(GrokCall(body, e.used), deeper[GrokCall(body, e.used)])
      BY <3>3, <3>5
    <3>. QED
      BY <2>5, <3>1, <3>5, <3>6 DEF NamedBy
  <2>. HIDE DEF piece, body, T, P
  <2>7. /\ Fresher(T, f[k])
        /\ piece.kind # "group" /\ Apart(e.groups, T, e.used) => Apart(f[k].groups, T, f[k].used)
    <3>1. ExpandPiece(e, piece, extras, deeper).err = "none"
      BY <2>2, <2>4
    <3>2. piece.kind # "group" => Fresher(e.used, deeper[GrokCall(Body(piece.prim, extras), e.used)])
      BY <2>6 DEF body
    <3>3. /\ Fresher(T, ExpandPiece(e, piece, extras, deeper))
          /\ piece.kind # "group" /\ Apart(e.groups, T, e.used) =>
               Apart(ExpandPiece(e, piece, extras, deeper).groups, T,
                     ExpandPiece(e, piece, extras, deeper).used)
      BY <1>1, <2>1, <2>2, <2>3, <3>1, <3>2, PieceNames
    <3>. QED
      BY <2>2, <3>3
  <2>. QED
    BY <2>1, <2>2, <2>3, <2>7 DEF P
<1>. HIDE DEF P
<1>9. n \in P
  BY <1>1, <1>7, <1>8, AlongLoop DEF P
<1>. QED
  BY <1>9 DEF P

LEMMA LevelsNames ==
  ASSUME NEW R, NEW extras, Extras(extras), Family(R, extras),
         NEW F \in [0 .. MaxDepth + 1 -> [GrokCalls -> Expansions]], Levels(F, extras)
  PROVE  \A k \in 0 .. MaxDepth + 1 : \A call \in GrokCalls :
           call.grok \in R => NamedBy(call, F[k][call])
<1>. DEFINE N == MaxDepth + 1
            P(k) == \A call \in GrokCalls : call.grok \in R => NamedBy(call, F[k][call])
            S == {k \in Nat : k <= N => P(k)}
<1>1. N \in Nat
  BY ExpandAssumption
<1>2. 0 \in S
  <2>1. \A call \in GrokCalls : F[0][call].err # "none"
    BY CallIs DEF Levels
  <2>2. P(0)
    BY <2>1 DEF NamedBy
  <2>. QED
    BY <2>2
<1>3. ASSUME NEW k \in Nat, k \in S PROVE k + 1 \in S
  <2>1. SUFFICES ASSUME k + 1 <= N PROVE P(k + 1)
    OBVIOUS
  <2>2. k + 1 \in 1 .. N /\ (k + 1) - 1 = k /\ k \in 0 .. N /\ P(k)
    BY <1>1, <1>3, <2>1
  <2>3. F[k + 1] = [call \in GrokCalls |-> ExpandPieces(call, extras, F[k])]
    BY <2>2 DEF Levels
  <2>. DEFINE deeper == F[k]
  <2>4. deeper \in [GrokCalls -> Expansions] /\ \A call \in GrokCalls : call.grok \in R => NamedBy(call, deeper[call])
    BY <2>2
  <2>. HIDE DEF deeper
  <2>5. \A call \in GrokCalls : call.grok \in R => NamedBy(call, ExpandPieces(call, extras, deeper))
    BY <2>4, PiecesNames
  <2>. QED
    BY <2>3, <2>5 DEF deeper
<1>. HIDE DEF S, P
<1>4. Nat \subseteq S
  BY <1>2, <1>3, UpFromZero
<1>5. \A k \in 0 .. N : P(k)
  BY <1>1, <1>4 DEF S
<1>. QED
  BY <1>5 DEF P

\* A pattern of references hands out different names.
LEMMA CompiledApart ==
  ASSUME NEW grok \in Seq(Pieces), NEW extras, Extras(extras),
         NEW R, Family(R, extras), grok \in R, AllRefs(grok),
         CompileGrok(grok, extras).err = "none"
  PROVE  Differ(CompileGrok(grok, extras).groups)
<1>1. PICK F \in [0 .. MaxDepth + 1 -> [GrokCalls -> Expansions]] :
        Levels(F, extras) /\ ExpandGrok(extras) = F[MaxDepth + 1]
  BY LevelsUnfold
<1>. DEFINE call == GrokCall(grok, <<>>)
<1>2. call \in GrokCalls /\ call.grok = grok
  <2>1. <<>> \in Seq(Names)
    BY EmptySeq
  <2>. QED
    BY <2>1 DEF GrokCall, GrokCalls
<1>. HIDE DEF call
<1>3. MaxDepth + 1 \in 0 .. MaxDepth + 1
  BY ExpandAssumption
<1>4. NamedBy(call, F[MaxDepth + 1][call])
  BY <1>1, <1>2, <1>3, LevelsNames
<1>5. Expanded(grok, extras) = F[MaxDepth + 1][call]
  BY <1>1 DEF Expanded, call
<1>6. /\ Expanded(grok, extras).err = "none"
      /\ CompileGrok(grok, extras).groups = Expanded(grok, extras).groups
  BY CompileIs
<1>. QED
  BY <1>2, <1>4, <1>5, <1>6 DEF NamedBy, Apart

\* The bodies a pattern that compiles reaches.
Bodies(grok, extras) ==
  {grok} \cup ({Body(p, extras) : p \in UNION {ReferredAt(grok, extras, d) : d \in 0 .. MaxDepth}} \ {None})

LEMMA BodiesAreFamily ==
  ASSUME NEW grok \in Seq(Pieces), NEW extras, Extras(extras),
         Unnumbered(grok, extras), CompileGrok(grok, extras).err = "none"
  PROVE  Family(Bodies(grok, extras), extras) /\ grok \in Bodies(grok, extras)
<1>. DEFINE R == Bodies(grok, extras)
            At(d) == ReferredAt(grok, extras, d)
<1>1. \A p : Body(p, extras) # None => Body(p, extras) \in Seq(Pieces)
  BY BodyIs
<1>2. \A b \in R : b = grok \/ \E d \in 0 .. MaxDepth : \E p \in At(d) : b = Body(p, extras) /\ b # None
  BY DEF Bodies
<1>3. R \subseteq Seq(Pieces) /\ grok \in R
  BY <1>1, <1>2 DEF Bodies
<1>4. MaxDepth \in Nat
  BY ExpandAssumption
<1>5. /\ At(MaxDepth) = {} /\ At(0) = Prims(grok)
      /\ \A d \in Nat : At(d + 1) = UNION {Prims(Body(p, extras)) : p \in At(d)}
  BY CompileIs, ExpandsWhenReachable, ReferredAre DEF Reachable
<1>6. \A d \in 0 .. MaxDepth : \A p \in At(d) : Body(p, extras) # None => Body(p, extras) \in R
  BY DEF Bodies
<1>. HIDE DEF At
<1>7. ASSUME NEW b \in R, NEW p \in Prims(b), Body(p, extras) # None PROVE Body(p, extras) \in R
  <2>1. CASE b = grok
    BY <1>4, <1>5, <1>6, <1>7, <2>1
  <2>2. CASE b # grok
    <3>1. PICK d \in 0 .. MaxDepth : \E q \in At(d) : b = Body(q, extras)
      BY <1>2, <2>2
    <3>2. d # MaxDepth
      BY <1>5, <3>1
    <3>3. d \in Nat /\ d + 1 \in 0 .. MaxDepth
      BY <1>4, <3>2
    <3>4. p \in At(d + 1)
      BY <1>5, <1>7, <3>1, <3>3
    <3>. QED
      BY <1>6, <1>7, <3>3, <3>4
  <2>. QED
    BY <2>1, <2>2
<1>. DEFINE Named(p) == IF p.kind = "group" THEN {p.name}
                        ELSE IF p.field = None THEN {} ELSE {Sanitized[p.field]}
<1>8. Written(grok, extras) = UNION {UNION {Named(p) : p \in ToSet(b)} : b \in R}
  BY DEF Written, Bodies
<1>9. \A b \in R : \A p \in ToSet(b) : \A x \in Named(p) : Bare(x)
  <2>. HIDE DEF Named, R
  <2>. QED
    BY <1>8 DEF Unnumbered, Bare
<1>10. ASSUME NEW b \in R, NEW i \in 1 .. Len(b) PROVE Plainly(b[i])
  <2>1. b[i] \in ToSet(b)
    <3>1. DOMAIN b = 1 .. Len(b)
      BY <1>3, LenProperties
    <3>. QED
      BY <3>1 DEF ToSet
  <2>2. \A x \in Named(b[i]) : Bare(x)
    BY <1>9, <2>1
  <2>. QED
    BY <2>2 DEF Plainly
<1>. QED
  BY <1>3, <1>7, <1>10 DEF Family

LEMMA NamesAreUnique == AnswerInv => NamesUnique
<1>. SUFFICES ASSUME AnswerInv, NEW c \in Answered,
                     OnlyRefs(answer[c].response.grok),
                     Unnumbered(answer[c].response.grok, answer[c].response.extras),
                     NEW g \in DOMAIN answer[c].groups, NEW h \in DOMAIN answer[c].groups,
                     answer[c].groups[g].name = answer[c].groups[h].name
              PROVE  g = h
  BY DEF NamesUnique
<1>1. PICK e \in Compiled : /\ answer[c].groups = CompileGrok(e.grok, e.extras).groups
                            /\ answer[c].response.grok = e.grok /\ answer[c].response.extras = e.extras
  BY AnsweredLines DEF LinesAre
<1>2. /\ e.grok \in Seq(Pieces) /\ Extras(e.extras) /\ CompileGrok(e.grok, e.extras).err = "none"
      /\ CompileGrok(e.grok, e.extras).groups \in Seq(GroupSet)
  BY EntriesAre DEF EntryIs
<1>3. Family(Bodies(e.grok, e.extras), e.extras) /\ e.grok \in Bodies(e.grok, e.extras)
  BY <1>1, <1>2, BodiesAreFamily
<1>4. AllRefs(e.grok)
  <2>1. DOMAIN e.grok = 1 .. Len(e.grok) /\ "ref" # "group"
    BY <1>2, LenProperties
  <2>. QED
    BY <1>1, <2>1 DEF OnlyRefs, AllRefs
<1>5. Differ(CompileGrok(e.grok, e.extras).groups)
  BY <1>2, <1>3, <1>4, CompiledApart
<1>6. DOMAIN answer[c].groups = 1 .. Len(answer[c].groups)
  BY <1>1, <1>2, LenProperties
<1>. QED
  BY <1>1, <1>5, <1>6 DEF Differ

\* An entry is offered exactly when its references all lead to known primitives,
\* none of them too deep, and its expansion is a regexp; and the groups of a pattern
\* of references can be told apart by name (compile.go 24-125, score.go 56-66).
THEOREM ExpansionIsSound == Spec => []ExpansionSound
<1>1. AnswerInv => ExpansionSound
  BY LibraryExpanding, NamesAreUnique DEF ExpansionSound
<1>. QED
  BY AnswerInvariant, <1>1, PTL

-----------------------------------------------------------------------------
(***************************************************************************)
(* The tokens of a pattern of references                                   *)
(***************************************************************************)
FieldOf(grok, i) == Sanitized[grok[i].field]

\* The groups are the references with a field, in order, under their names.
Placed(G, grok, k) ==
  \E pos \in [1 .. Len(G) -> 1 .. k] :
    /\ \A i, j \in 1 .. Len(G) : i < j => pos[i] < pos[j]
    /\ \A q \in FieldRefs(grok) : q <= k => \E i \in 1 .. Len(G) : pos[i] = q
    /\ \A i \in 1 .. Len(G) :
         /\ pos[i] \in FieldRefs(grok) /\ G[i].piece = grok[pos[i]]
         /\ \E m \in Nat : m >= 1 /\ G[i].name = Nth(FieldOf(grok, pos[i]), m)

LEMMA TrimmedIs ==
  ASSUME NEW name \in Names, NEW m \in Nat, m >= 2
  PROVE  TrimNumSuffix(Nth(name, m)) = name
<1>. DEFINE s == name.suffix
            t == Append(s, m)
            x == [base |-> name.base, suffix |-> t]
<1>1. s \in Seq(Nat) /\ name.base \in STRING /\ name = [base |-> name.base, suffix |-> s]
  BY DEF Names
<1>2. Nth(name, m) = x
  <2>1. m # 1
    OBVIOUS
  <2>. QED
    BY <2>1, NthIs
<1>. HIDE DEF s, t
<1>3. /\ t \in Seq(Nat) /\ t # <<>> /\ Len(s) \in Nat /\ Len(t) = Len(s) + 1
      /\ \A i \in 1 .. Len(s) : t[i] = s[i]
  <2>1. Append(s, m) \in Seq(Nat) /\ Append(s, m) # <<>> /\ Len(Append(s, m)) = Len(s) + 1
        /\ \A i \in 1 .. Len(s) : Append(s, m)[i] = s[i]
    <3>. DEFINE X == Nat
    <3>1. s \in Seq(X) /\ m \in X
      BY <1>1
    <3>. HIDE DEF X
    <3>2. /\ Append(s, m) \in Seq(X) /\ Append(s, m) # <<>> /\ Len(Append(s, m)) = Len(s) + 1
          /\ \A i \in 1 .. Len(s) : Append(s, m)[i] = s[i]
      BY ONLY <3>1, AppendAt
    <3>. QED
      BY <3>2 DEF X
  <2>2. Len(s) \in Nat
    BY <1>1, LenProperties
  <2>. QED
    BY <2>1, <2>2 DEF t
<1>4. Front(t) = s
  <2>. DEFINE u == SubSeq(t, 1, Len(t) - 1)
              n == Len(s)
  <2>1. n \in Nat /\ Len(t) - 1 = n
    BY <1>3
  <2>2. \A i \in 1 .. n : t[i] \in Nat
    BY <1>1, <1>3, <2>1, ElementOfSeq
  <2>3. u = SubSeq(t, 1, n)
    BY <2>1
  <2>. HIDE DEF u, n
  <2>4. /\ SubSeq(t, 1, n) \in Seq(Nat)
        /\ Len(SubSeq(t, 1, n)) = IF 1 <= n THEN n - 1 + 1 ELSE 0
        /\ \A i \in 1 .. n - 1 + 1 : SubSeq(t, 1, n)[i] = t[1 + i - 1]
    BY <2>1, <2>2, SubSeqProperties
  <2>5. Len(u) = n /\ u \in Seq(Nat) /\ \A i \in 1 .. n : u[i] = t[i]
    <3>1. n - 1 + 1 = n /\ \A i \in 1 .. n : 1 + i - 1 = i
      BY <2>1
    <3>2. (IF 1 <= n THEN n ELSE 0) = n
      BY <2>1
    <3>3. \A i \in 1 .. n : u[i] = t[i]
      BY <2>3, <2>4, <3>1
    <3>. QED
      BY <2>3, <2>4, <3>1, <3>2, <3>3
  <2>6. u = s
    <3>1. Len(u) = Len(s) /\ \A i \in 1 .. Len(u) : u[i] = s[i]
      BY <1>3, <2>5 DEF n
    <3>. QED
      BY <1>1, <2>5, <3>1, SeqEqual
  <2>. QED
    BY <2>6 DEF Front, u
<1>5. x.suffix = t /\ [x EXCEPT !.suffix = Front(@)] = [base |-> name.base, suffix |-> Front(t)]
  OBVIOUS
<1>6. TrimNumSuffix(x) = [base |-> name.base, suffix |-> s]
  BY <1>3, <1>4, <1>5 DEF TrimNumSuffix
<1>. QED
  BY <1>1, <1>2, <1>6

\* The head of a queue that has a first member.
LEMMA HeadIs ==
  ASSUME NEW S \in SUBSET Nat, NEW q \in S, \A i \in S : q <= i
  PROVE  Min(S) = q
<1>1. \E x \in S : \A y \in S : x <= y
  OBVIOUS
<1>2. Min(S) \in S /\ \A y \in S : Min(S) <= y
  BY <1>1 DEF Min
<1>3. Min(S) \in Nat /\ q \in Nat /\ Min(S) <= q /\ q <= Min(S)
  BY <1>2
<1>. QED
  BY <1>3

Taken(grok, left, name) ==
  LET offered == Offered(grok, left, name) IN left \ (IF offered = {} THEN {} ELSE {Min(offered)})

Leaves(left, grok, groups) ==
  /\ left[0] = FieldRefs(grok)
  /\ \A k \in 1 .. Len(groups) : left[k] = Taken(grok, left[k - 1], groups[k].name)

LEMMA TokensUnfold ==
  ASSUME NEW grok, NEW groups \in Seq(GroupSet)
  PROVE  \E f \in [0 .. Len(groups) -> SUBSET FieldRefs(grok)] : Leaves(f, grok, groups) /\ GroupTokens(grok, groups) =
             [g \in DOMAIN groups |-> HeadToken(grok, Offered(grok, f[g - 1], groups[g].name))]
<1>. DEFINE n == Len(groups)
            A == SUBSET FieldRefs(grok)
            base == FieldRefs(grok)
            body(a, k) == Taken(grok, a, groups[k].name)
            step == [p \in A \X (1 .. n) |-> body(p[1], p[2])]
            IsLoop(g) == g = [k \in 0 .. n |-> IF k = 0 THEN base ELSE body(g[k - 1], k)]
            cur == CHOOSE g : IsLoop(g)
<1>1. n \in Nat
  BY LenProperties
<1>2. base \in A
  OBVIOUS
<1>3. \A a \in A, k \in 1 .. n : body(a, k) \in A
  BY DEF Taken
<1>4. step \in [A \X (1 .. n) -> A]
  <2>. HIDE DEF A, body, n
  <2>. QED
    BY <1>3
<1>. HIDE DEF A, body, n, base
<1>5. PICK f \in [0 .. n -> A] :
        f[0] = base /\ \A k \in 1 .. n : f[k] = step[<<f[k - 1], k>>]
  <2>. HIDE DEF step
  <2>1. HasLoop(A, base, n, step)
    BY <1>1, <1>2, <1>4, LoopExists
  <2>. QED
    BY <2>1 DEF HasLoop
<1>6. \A k \in 1 .. n : f[k] = body(f[k - 1], k)
  <2>. TAKE k \in 1 .. n
  <2>1. k - 1 \in 0 .. n
    BY <1>1
  <2>2. <<f[k - 1], k>> \in A \X (1 .. n)
    BY <1>5, <2>1
  <2>. QED
    BY <1>5, <2>2
<1>7. IsLoop(f)
  <2>1. f = [k \in 0 .. n |-> f[k]]
    BY <1>5
  <2>2. \A k \in 0 .. n : f[k] = IF k = 0 THEN base ELSE body(f[k - 1], k)
    <3>. TAKE k \in 0 .. n
    <3>1. k = 0 \/ (k # 0 /\ k \in 1 .. n)
      BY <1>1
    <3>. QED
      BY <1>5, <1>6, <3>1
  <2>. DEFINE g == [k \in 0 .. n |-> IF k = 0 THEN base ELSE body(f[k - 1], k)]
  <2>3. g = [k \in 0 .. n |-> g[k]] /\ \A k \in 0 .. n : g[k] = f[k]
    BY <2>2
  <2>4. IsLoop(f) <=> f = g
    OBVIOUS
  <2>. HIDE DEF g, IsLoop
  <2>. QED
    BY ONLY <2>1, <2>3, <2>4
<1>8. IsLoop(cur)
  BY <1>7
<1>9. GroupTokens(grok, groups) =
        [g \in DOMAIN groups |-> HeadToken(grok, Offered(grok, cur[g - 1], groups[g].name))]
  BY DEF GroupTokens, Taken, body, n, base
<1>. HIDE DEF cur
<1>10. \A k \in 0 .. n : cur[k] = IF k = 0 THEN base ELSE body(cur[k - 1], k)
  BY <1>8
<1>11. cur = [k \in 0 .. n |-> cur[k]]
  <2>. DEFINE g == [k \in 0 .. n |-> IF k = 0 THEN base ELSE body(cur[k - 1], k)]
  <2>1. cur = g /\ g = [k \in 0 .. n |-> g[k]]
    BY <1>8
  <2>. HIDE DEF g
  <2>. QED
    BY ONLY <2>1
<1>12. 0 \in 0 .. n /\ \A k \in 1 .. n : k \in 0 .. n /\ k # 0
  BY <1>1
<1>13. cur[0] = base /\ \A k \in 1 .. n : cur[k] = body(cur[k - 1], k)
  BY <1>10, <1>12
<1>14. \A k \in 0 .. n : cur[k] \in A
  <2>. DEFINE S == {k \in Nat : k \in 0 .. n => cur[k] \in A}
  <2>1. 0 \in S
    BY <1>2, <1>13
  <2>2. \A k \in Nat : k \in S => k + 1 \in S
    <3>1. SUFFICES ASSUME NEW k \in Nat, k \in S, k + 1 \in 0 .. n PROVE cur[k + 1] \in A
      OBVIOUS
    <3>2. k + 1 \in 1 .. n /\ (k + 1) - 1 = k /\ cur[k] \in A
      BY <1>1, <3>1
    <3>. QED
      BY <1>3, <1>13, <3>2
  <2>. HIDE DEF S
  <2>3. Nat \subseteq S
    BY <2>1, <2>2, UpFromZero
  <2>. QED
    BY <1>1, <2>3 DEF S
<1>15. cur \in [0 .. n -> A]
  BY <1>11, <1>14
<1>16. Leaves(cur, grok, groups)
  BY <1>13 DEF Leaves, body, base, n
<1>. QED
  BY <1>9, <1>15, <1>16 DEF n, A

LEMMA RefFields ==
  ASSUME NEW grok \in Seq(Pieces)
  PROVE  /\ FieldRefs(grok) \subseteq 1 .. Len(grok) /\ Len(grok) \in Nat
         /\ \A i \in 1 .. Len(grok) : /\ i \in FieldRefs(grok) <=> grok[i].kind # "group" /\ grok[i].field # None
                                      /\ i \in FieldRefs(grok) => FieldOf(grok, i) \in Names
<1>1. /\ DOMAIN grok = 1 .. Len(grok) /\ Len(grok) \in Nat
      /\ \A i \in 1 .. Len(grok) : grok[i] \in Pieces
  BY LenProperties, ElementOfSeq
<1>2. "ref" # "group"
  OBVIOUS
<1>3. \A p \in Pieces : /\ p.kind = "ref" <=> p.kind # "group"
                        /\ p.kind = "ref" /\ p.field # None => Sanitized[p.field] \in Names
  BY <1>2, PieceIs
<1>. QED
  BY <1>1, <1>3 DEF FieldRefs, FieldOf

\* A group takes its own reference's token from the queue.
LEMMA QueueHead ==
  ASSUME NEW grok \in Seq(Pieces), \A i \in FieldRefs(grok) : Bare(FieldOf(grok, i)),
         NEW left \in SUBSET FieldRefs(grok), NEW q \in left, \A i \in left : q <= i,
         NEW m \in Nat, m >= 1
  PROVE  LET offered == Offered(grok, left, Nth(FieldOf(grok, q), m)) IN
         offered # {} /\ Min(offered) = q
<1>. DEFINE n == FieldOf(grok, q)
            Q(x) == {i \in left : FieldOf(grok, i) = x}
            name == Nth(n, m)
            offered == Offered(grok, left, name)
<1>1. FieldRefs(grok) \subseteq Nat /\ n \in Names /\ Bare(n)
  <2>1. q \in FieldRefs(grok) /\ q \in 1 .. Len(grok) /\ FieldRefs(grok) \subseteq 1 .. Len(grok)
    BY RefFields
  <2>. QED
    BY <2>1, RefFields
<1>2. offered = IF Q(name) # {} THEN Q(name) ELSE Q(TrimNumSuffix(name))
  BY DEF Offered, FieldOf
<1>3. q \in Q(n) /\ Q(n) \in SUBSET Nat /\ \A i \in Q(n) : q <= i
  BY <1>1
<1>4. \A x : x \in Q(name) => Bare(name)
  OBVIOUS
<1>. HIDE DEF Q, offered
<1>5. offered = Q(n)
  <2>1. CASE m = 1
    <3>1. name = n
      BY <1>1, <2>1, NthIs
    <3>. QED
      BY <1>2, <1>3, <3>1
  <2>2. CASE m # 1
    <3>1. m >= 2
      BY <2>2
    <3>2. ~ Bare(name) /\ TrimNumSuffix(name) = n
      BY <1>1, <3>1, NthNumbered, TrimmedIs
    <3>3. Q(name) = {}
      BY <1>4, <3>2
    <3>. QED
      BY <1>2, <3>2, <3>3
  <2>. QED
    BY <2>1, <2>2
<1>. QED
  BY <1>3, <1>5, HeadIs DEF offered

LEMMA TokensPlaced ==
  ASSUME NEW grok \in Seq(Pieces), \A i \in FieldRefs(grok) : Bare(FieldOf(grok, i)),
         NEW groups \in Seq(GroupSet), Placed(groups, grok, Len(grok))
  PROVE  \A g \in 1 .. Len(groups) : GroupTokens(grok, groups)[g] = groups[g].piece.prim
<1>. DEFINE n == Len(groups)
<1>1. PICK left \in [0 .. n -> SUBSET FieldRefs(grok)] :
        /\ Leaves(left, grok, groups)
        /\ GroupTokens(grok, groups) =
             [g \in DOMAIN groups |-> HeadToken(grok, Offered(grok, left[g - 1], groups[g].name))]
  BY TokensUnfold
<1>2. PICK pos \in [1 .. n -> 1 .. Len(grok)] :
        /\ \A i, j \in 1 .. n : i < j => pos[i] < pos[j]
        /\ \A q \in FieldRefs(grok) : q <= Len(grok) => \E i \in 1 .. n : pos[i] = q
        /\ \A i \in 1 .. n :
             /\ pos[i] \in FieldRefs(grok) /\ groups[i].piece = grok[pos[i]]
             /\ \E m \in Nat : m >= 1 /\ groups[i].name = Nth(FieldOf(grok, pos[i]), m)
  BY DEF Placed
<1>3. /\ n \in Nat /\ DOMAIN groups = 1 .. n /\ Len(grok) \in Nat
      /\ FieldRefs(grok) \subseteq 1 .. Len(grok)
  BY LenProperties, RefFields
<1>. HIDE DEF n
<1>4. \A i \in 1 .. n : pos[i] \in Nat
  BY <1>2, <1>3
<1>. DEFINE Past(k) == {pos[i] : i \in 1 .. k}
            Turn(k) == LET offered == Offered(grok, left[k - 1], groups[k].name) IN
                       offered # {} /\ Min(offered) = pos[k]
<1>5. ASSUME NEW k \in 1 .. n, left[k - 1] = FieldRefs(grok) \ Past(k - 1)
      PROVE  Turn(k)
  <2>. DEFINE q == pos[k]
              L == left[k - 1]
  <2>1. L \in SUBSET FieldRefs(grok)
    <3>1. k - 1 \in 0 .. n
      BY <1>3
    <3>. QED
      BY <1>1, <3>1
  <2>2. q \in L
    <3>1. q \in FieldRefs(grok)
      BY <1>2
    <3>2. \A i \in 1 .. k - 1 : i \in 1 .. n /\ i < k
      BY <1>3
    <3>3. \A i \in 1 .. k - 1 : pos[i] # q
      <4>1. \A i \in 1 .. k - 1 : pos[i] \in Nat /\ q \in Nat /\ pos[i] < q
        BY <1>2, <1>4, <3>2
      <4>. QED
        BY <4>1
    <3>. QED
      BY <1>5, <3>1, <3>3
  <2>3. \A i \in L : q <= i
    <3>. TAKE i \in L
    <3>1. i \in FieldRefs(grok) /\ i <= Len(grok) /\ i \in Nat /\ i \notin Past(k - 1)
      BY <1>3, <1>5, <2>1
    <3>2. PICK h \in 1 .. n : pos[h] = i
      BY <1>2, <3>1
    <3>3. h \notin 1 .. k - 1
      BY <3>1, <3>2
    <3>4. h = k \/ k < h
      BY <1>3, <3>3
    <3>5. q \in Nat /\ (k < h => q < i)
      BY <1>2, <1>4, <3>2
    <3>. QED
      BY <3>1, <3>2, <3>4, <3>5
  <2>4. PICK m \in Nat : m >= 1 /\ groups[k].name = Nth(FieldOf(grok, q), m)
    BY <1>2
  <2>. HIDE DEF q, L
  <2>5. /\ Offered(grok, L, Nth(FieldOf(grok, q), m)) # {}
        /\ Min(Offered(grok, L, Nth(FieldOf(grok, q), m))) = q
    BY <2>1, <2>2, <2>3, <2>4, QueueHead
  <2>. QED
    BY <2>4, <2>5 DEF q, L
<1>. DEFINE P == {k \in 0 .. n : left[k] = FieldRefs(grok) \ Past(k)}
<1>6. 0 \in P
  <2>1. Past(0) = {}
    OBVIOUS
  <2>. QED
    BY <1>1, <1>3, <2>1 DEF Leaves
<1>7. ASSUME NEW k \in 1 .. n, k - 1 \in P PROVE k \in P
  <2>1. Turn(k)
    BY <1>5, <1>7
  <2>2. left[k] = left[k - 1] \ {pos[k]}
    <3>1. left[k] = Taken(grok, left[k - 1], groups[k].name)
      BY <1>1 DEF Leaves, n
    <3>. QED
      BY <2>1, <3>1 DEF Taken
  <2>3. \A i : i \in 1 .. k <=> i \in 1 .. k - 1 \/ i = k
    BY <1>3
  <2>4. Past(k) = Past(k - 1) \cup {pos[k]}
    BY <2>3
  <2>5. left[k - 1] = FieldRefs(grok) \ Past(k - 1)
    BY <1>7
  <2>. HIDE DEF Past
  <2>6. left[k] = FieldRefs(grok) \ Past(k)
    BY ONLY <2>2, <2>4, <2>5
  <2>7. k \in 0 .. n
    BY <1>3
  <2>. QED
    BY <2>6, <2>7
<1>8. \A k \in 1 .. n : k - 1 \in P
  <2>. DEFINE S == {k \in Nat : k <= n => k \in P}
  <2>. HIDE DEF P
  <2>1. 0 \in S
    BY <1>6
  <2>2. ASSUME NEW k \in Nat, k \in S PROVE k + 1 \in S
    <3>1. SUFFICES ASSUME k + 1 <= n PROVE k + 1 \in P
      OBVIOUS
    <3>2. k + 1 \in 1 .. n /\ (k + 1) - 1 = k /\ k \in P
      BY <1>3, <2>2, <3>1
    <3>. QED
      BY <1>7, <3>2
  <2>. HIDE DEF S
  <2>3. Nat \subseteq S
    BY <2>1, <2>2, UpFromZero
  <2>4. \A k \in 1 .. n : k - 1 \in Nat /\ k - 1 <= n
    BY <1>3
  <2>. QED
    BY <2>3, <2>4 DEF S
<1>9. ASSUME NEW g \in 1 .. n PROVE GroupTokens(grok, groups)[g] = groups[g].piece.prim
  <2>1. Turn(g)
    BY <1>5, <1>8
  <2>2. GroupTokens(grok, groups)[g] = HeadToken(grok, Offered(grok, left[g - 1], groups[g].name))
    BY <1>1, <1>3
  <2>3. groups[g].piece = grok[pos[g]]
    BY <1>2
  <2>. QED
    BY <2>1, <2>2, <2>3 DEF HeadToken
<1>. QED
  BY <1>9 DEF n

NoInner(G) == \A i \in 1 .. Len(G) : ~ G[i].inner

LEMMA DedupInner ==
  ASSUME NEW e \in Expansions
  PROVE  LET D == DedupNamedGroups(e) IN D \in Expansions /\ AllInner(D.groups)
<1>1. PICK f : Renames(e, f) /\ DedupNamedGroups(e) = f[Len(e.groups)]
  BY DedupUnfold
<1>. DEFINE n == Len(e.groups)
            P == {k \in 0 .. n : f[k] \in Expansions /\ AllInner(f[k].groups)}
<1>2. n \in Nat /\ e.groups \in Seq(GroupSet) /\ e.err \in Errors /\ e.used \in Seq(Names)
  BY LenProperties DEF Expansions
<1>3. 0 \in P
  <2>. DEFINE err == e.err
              U == e.used
              G == <<>>
  <2>1. err \in Errors /\ G \in Seq(GroupSet) /\ U \in Seq(Names) /\ Len(G) = 0
    BY <1>2, EmptySeq
  <2>2. f[0] = Expansion(err, G, U) /\ 0 \in 0 .. n
    BY <1>1, <1>2 DEF Renames
  <2>. HIDE DEF err, G, U
  <2>3. f[0] \in Expansions /\ f[0].groups = G
    <3>1. Expansion(err, G, U) \in Expansions
      BY <2>1, ExpansionIs
    <3>2. Expansion(err, G, U).groups = G
      BY DEF Expansion
    <3>. QED
      BY ONLY <2>2, <3>1, <3>2
  <2>4. AllInner(G)
    BY <2>1 DEF AllInner
  <2>. QED
    BY <2>2, <2>3, <2>4
<1>4. ASSUME NEW k \in 1 .. n, k - 1 \in P PROVE k \in P
  <2>. DEFINE d == f[k - 1]
              g == e.groups[k]
              r == Renamed(g, d.used)
              G == d.groups
              H == Append(G, r)
              more == Append(d.used, g.name)
  <2>1. g \in GroupSet /\ k \in 0 .. n /\ d \in Expansions /\ f[k] = Rename(d, g) /\ AllInner(G)
    BY <1>1, <1>2, <1>4, ElementOfSeq DEF Renames
  <2>. HIDE DEF d, g
  <2>2. f[k] \in Expansions /\ r \in GroupSet /\ f[k] = Expansion(d.err, H, more)
    BY <2>1, RenameIs
  <2>3. f[k].groups = H /\ r.inner = TRUE
    BY <2>2 DEF Expansion, Renamed
  <2>4. G \in Seq(GroupSet)
    BY <2>1, ExpansionParts
  <2>. HIDE DEF G, r
  <2>5. /\ Len(G) \in Nat /\ Len(H) = Len(G) + 1 /\ H[Len(G) + 1] = r
        /\ \A i \in 1 .. Len(G) : H[i] = G[i]
    BY <2>2, <2>4, AppendAt
  <2>. HIDE DEF H
  <2>6. \A i \in 1 .. Len(H) : i \in 1 .. Len(G) \/ i = Len(G) + 1
    BY <2>5
  <2>7. AllInner(H)
    BY <2>1, <2>3, <2>5, <2>6 DEF AllInner
  <2>. QED
    BY <2>1, <2>2, <2>3, <2>7
<1>. HIDE DEF P
<1>5. n \in P
  BY <1>2, <1>3, <1>4, AlongLoop DEF P
<1>. QED
  BY <1>1, <1>5 DEF P

\* Without a group from a body, a reference gives its own group, if it has a field.
LEMMA WrappedBare ==
  ASSUME NEW piece \in Pieces, piece.kind # "group", NEW body \in Expansions,
         NoInner(Wrapped(piece, body).groups)
  PROVE  /\ piece.field = None => Wrapped(piece, body).groups = <<>>
         /\ piece.field # None =>
              \E own \in GroupSet :
                /\ Wrapped(piece, body).groups = <<own>> /\ own.piece = piece
                /\ \E m \in Nat : m >= 1 /\ own.name = Nth(Sanitized[piece.field], m)
<1>. DEFINE D == DedupNamedGroups(body)
            H == D.groups
            V == D.used
            y == Sanitized[piece.field]
            own == Opened(piece, UniqueName(y, V), Len(H))
            W == Wrapped(piece, body).groups
<1>1. AllInner(H) /\ H \in Seq(GroupSet) /\ V \in Seq(Names)
  BY DedupInner, ExpansionParts
<1>2. Len(H) \in Nat /\ (H = <<>> <=> Len(H) = 0)
  BY <1>1, LenProperties, EmptySeq
<1>3. CASE piece.field = None
  <2>1. W = H
    BY <1>3, WrappedIs
  <2>. HIDE DEF W, H
  <2>2. \A i \in 1 .. Len(H) : H[i].inner = TRUE /\ ~ H[i].inner
    BY <1>1, <2>1 DEF AllInner, NoInner, W
  <2>3. ~ \E i \in 1 .. Len(H) : TRUE
    BY <2>2
  <2>4. Len(H) = 0
    BY <1>2, <2>3
  <2>. QED
    BY <1>2, <1>3, <2>1, <2>4 DEF W
<1>4. CASE piece.field # None
  <2>1. own \in GroupSet /\ W = <<own>> \o H /\ y \in Names
    BY <1>4, WrappedIs, PieceIs
  <2>2. own.piece = piece /\ own.name = UniqueName(y, V)
    BY DEF Opened
  <2>3. \E m \in Nat : m >= 1 /\ own.name = Nth(y, m)
    <3>1. Asked(y, V) \in Nat
      BY <1>1, AskedIs
    <3>2. Asked(y, V) + 1 \in Nat /\ Asked(y, V) + 1 >= 1
      BY <3>1
    <3>. HIDE DEF own, y, V
    <3>. QED
      BY <2>2, <3>2 DEF UniqueName
  <2>. DEFINE O == <<own>>
  <2>4. O \in Seq(GroupSet) /\ Len(O) = 1
    <3>. HIDE DEF own
    <3>. QED
      BY <2>1
  <2>. HIDE DEF own, O, H, W
  <2>5. /\ Len(O \o H) = 1 + Len(H)
        /\ \A i \in 1 .. 1 + Len(H) : (O \o H)[i] = IF i <= 1 THEN O[i] ELSE H[i - 1]
    BY <1>1, <2>4, ConcatProperties
  <2>6. W = O \o H
    BY <2>1 DEF O
  <2>7. \A i \in 1 .. Len(H) : H[i].inner = TRUE /\ ~ H[i].inner
    <3>. TAKE i \in 1 .. Len(H)
    <3>1. i + 1 \in 1 .. 1 + Len(H) /\ ~ (i + 1 <= 1) /\ (i + 1) - 1 = i
      BY <1>2
    <3>2. (O \o H)[i + 1] = H[i]
      BY <2>5, <3>1
    <3>3. ~ (O \o H)[i + 1].inner
      BY <2>5, <2>6, <3>1 DEF NoInner, W
    <3>. QED
      BY <1>1, <3>2, <3>3 DEF AllInner
  <2>8. ~ \E i \in 1 .. Len(H) : TRUE
    BY <2>7
  <2>9. H = <<>>
    BY <1>2, <2>8
  <2>10. O \o <<>> = O
    BY <2>4, ConcatEmptySeq
  <2>11. W = <<own>>
    BY <2>6, <2>9, <2>10 DEF O
  <2>. QED
    BY <1>4, <2>1, <2>2, <2>3, <2>11 DEF W, y
<1>. QED
  BY <1>3, <1>4

LEMMA PlacedStart ==
  ASSUME NEW grok \in Seq(Pieces), NEW G \in Seq(GroupSet), Len(G) = 0
  PROVE  Placed(G, grok, 0)
<1>1. FieldRefs(grok) \subseteq 1 .. Len(grok) /\ Len(grok) \in Nat
  BY RefFields
<1>. DEFINE pos == [i \in 1 .. 0 |-> i]
<1>2. ~ \E i \in 1 .. 0 : TRUE
  OBVIOUS
<1>3. pos \in [1 .. Len(G) -> 1 .. 0]
  BY <1>2
<1>4. \A q \in FieldRefs(grok) : ~ (q <= 0)
  BY <1>1
<1>. HIDE DEF pos
<1>. QED
  BY <1>2, <1>3, <1>4 DEF Placed

LEMMA PlacedOver ==
  ASSUME NEW grok \in Seq(Pieces), NEW G \in Seq(GroupSet),
         NEW k \in 1 .. Len(grok), Placed(G, grok, k - 1), k \notin FieldRefs(grok)
  PROVE  Placed(G, grok, k)
<1>1. PICK pos \in [1 .. Len(G) -> 1 .. k - 1] :
        /\ \A i, j \in 1 .. Len(G) : i < j => pos[i] < pos[j]
        /\ \A q \in FieldRefs(grok) : q <= k - 1 => \E i \in 1 .. Len(G) : pos[i] = q
        /\ \A i \in 1 .. Len(G) :
             /\ pos[i] \in FieldRefs(grok) /\ G[i].piece = grok[pos[i]]
             /\ \E m \in Nat : m >= 1 /\ G[i].name = Nth(FieldOf(grok, pos[i]), m)
  BY DEF Placed
<1>2. FieldRefs(grok) \subseteq 1 .. Len(grok) /\ Len(grok) \in Nat
  BY RefFields
<1>3. \A i : i \in 1 .. k - 1 => i \in 1 .. k
  BY <1>2
<1>4. pos \in [1 .. Len(G) -> 1 .. k]
  BY <1>1, <1>3
<1>5. \A q \in FieldRefs(grok) : q <= k => q <= k - 1
  BY <1>2
<1>. QED
  BY <1>1, <1>4, <1>5 DEF Placed

LEMMA PlacedNext ==
  ASSUME NEW grok \in Seq(Pieces), NEW G \in Seq(GroupSet), NEW own \in GroupSet,
         NEW k \in 1 .. Len(grok), Placed(G, grok, k - 1), k \in FieldRefs(grok),
         own.piece = grok[k], NEW m \in Nat, m >= 1, own.name = Nth(FieldOf(grok, k), m),
         NEW H \in Seq(GroupSet), Len(H) = Len(G) + 1, H[Len(G) + 1] = own,
         \A i \in 1 .. Len(G) : H[i] = G[i]
  PROVE  Placed(H, grok, k)
<1>. DEFINE l == Len(G)
<1>1. PICK pos \in [1 .. l -> 1 .. k - 1] :
        /\ \A i, j \in 1 .. l : i < j => pos[i] < pos[j]
        /\ \A q \in FieldRefs(grok) : q <= k - 1 => \E i \in 1 .. l : pos[i] = q
        /\ \A i \in 1 .. l :
             /\ pos[i] \in FieldRefs(grok) /\ G[i].piece = grok[pos[i]]
             /\ \E x \in Nat : x >= 1 /\ G[i].name = Nth(FieldOf(grok, pos[i]), x)
  BY DEF Placed
<1>2. /\ FieldRefs(grok) \subseteq 1 .. Len(grok) /\ Len(grok) \in Nat /\ l \in Nat
      /\ Len(H) = l + 1 /\ H[l + 1] = own /\ \A i \in 1 .. l : H[i] = G[i]
  BY RefFields, LenProperties
<1>. HIDE DEF l
<1>. DEFINE more == [i \in 1 .. l + 1 |-> IF i = l + 1 THEN k ELSE pos[i]]
<1>3. \A i \in 1 .. l + 1 : i \in 1 .. l \/ i = l + 1
  BY <1>2
<1>4. \A i \in 1 .. l : i \in 1 .. l + 1 /\ i # l + 1
  BY <1>2
<1>5. l + 1 \in 1 .. l + 1
  BY <1>2
<1>6. more[l + 1] = k /\ \A i \in 1 .. l : more[i] = pos[i]
  BY <1>4, <1>5
<1>7. \A i \in 1 .. l : pos[i] \in 1 .. k - 1 /\ pos[i] \in 1 .. k /\ pos[i] < k
  <2>1. \A x \in 1 .. k - 1 : x \in 1 .. k /\ x < k
    BY <1>2
  <2>. QED
    BY <1>1, <2>1
<1>8. k \in 1 .. k
  BY <1>2
<1>9. more \in [1 .. Len(H) -> 1 .. k]
  <2>1. \A i \in 1 .. l + 1 : (IF i = l + 1 THEN k ELSE pos[i]) \in 1 .. k
    BY <1>3, <1>4, <1>7, <1>8
  <2>. QED
    BY <1>2, <2>1
<1>. HIDE DEF more
<1>10. \A i, j \in 1 .. l + 1 : i < j => more[i] < more[j]
  <2>. TAKE i, j \in 1 .. l + 1
  <2>1. SUFFICES ASSUME i < j PROVE more[i] < more[j]
    OBVIOUS
  <2>2. i \in 1 .. l
    BY <1>2, <2>1
  <2>3. CASE j \in 1 .. l
    BY <1>1, <1>6, <2>1, <2>2, <2>3
  <2>4. CASE j = l + 1
    BY <1>6, <1>7, <2>2, <2>4
  <2>. QED
    BY <1>3, <2>3, <2>4
<1>11. \A q \in FieldRefs(grok) : q <= k => \E i \in 1 .. l + 1 : more[i] = q
  <2>. TAKE q \in FieldRefs(grok)
  <2>1. SUFFICES ASSUME q <= k PROVE \E i \in 1 .. l + 1 : more[i] = q
    OBVIOUS
  <2>2. q = k \/ q <= k - 1
    BY <1>2, <2>1
  <2>3. CASE q = k
    BY <1>5, <1>6, <2>3
  <2>4. CASE q <= k - 1
    <3>1. PICK i \in 1 .. l : pos[i] = q
      BY <1>1, <2>4
    <3>. QED
      BY <1>4, <1>6, <3>1
  <2>. QED
    BY <2>2, <2>3, <2>4
<1>12. ASSUME NEW i \in 1 .. l + 1
       PROVE  /\ more[i] \in FieldRefs(grok) /\ H[i].piece = grok[more[i]]
              /\ \E x \in Nat : x >= 1 /\ H[i].name = Nth(FieldOf(grok, more[i]), x)
  <2>1. CASE i \in 1 .. l
    <3>1. more[i] = pos[i] /\ H[i] = G[i]
      BY <1>2, <1>6, <2>1
    <3>. QED
      BY <1>1, <2>1, <3>1
  <2>2. CASE i = l + 1
    <3>1. more[i] = k /\ H[i] = own
      BY <1>2, <1>6, <2>2
    <3>. QED
      BY <3>1
  <2>. QED
    BY <1>3, <2>1, <2>2
<1>13. /\ \A i, j \in 1 .. Len(H) : i < j => more[i] < more[j]
       /\ \A q \in FieldRefs(grok) : q <= k => \E i \in 1 .. Len(H) : more[i] = q
       /\ \A i \in 1 .. Len(H) :
            /\ more[i] \in FieldRefs(grok) /\ H[i].piece = grok[more[i]]
            /\ \E x \in Nat : x >= 1 /\ H[i].name = Nth(FieldOf(grok, more[i]), x)
  <2>1. Len(H) = l + 1
    BY <1>2
  <2>. QED
    BY ONLY <1>10, <1>11, <1>12, <2>1
<1>. QED
  BY ONLY <1>9, <1>13 DEF Placed

\* A pattern of references whose bodies give no group gives the groups of its
\* references with a field, in order.
LEMMA PiecesPlaced ==
  ASSUME NEW call \in GrokCalls, NEW extras, Extras(extras), AllRefs(call.grok),
         NEW deeper \in [GrokCalls -> Expansions],
         ExpandPieces(call, extras, deeper).err = "none",
         NoInner(ExpandPieces(call, extras, deeper).groups)
  PROVE  Placed(ExpandPieces(call, extras, deeper).groups, call.grok, Len(call.grok))
<1>. DEFINE n == Len(call.grok)
            grok == call.grok
<1>1. /\ n \in Nat /\ \A k \in 1 .. n : grok[k] \in Pieces
      /\ grok \in Seq(Pieces)
  BY CallIs
<1>2. PICK f \in [0 .. n -> Expansions] :
        Expands(f, call, extras, deeper) /\ ExpandPieces(call, extras, deeper) = f[n]
  BY PiecesUnfold
<1>3. \A k \in 1 .. n : Leads(grok[k], extras, deeper, f[k - 1].used) /\ grok[k].kind # "group"
  <2>1. f[Len(call.grok)].err = "none"
    BY <1>2
  <2>2. \A k \in 1 .. n : grok[k].kind # "group" => Leads(grok[k], extras, deeper, f[k - 1].used)
    BY <1>2, <2>1, CleanTrace
  <2>. QED
    BY <2>2 DEF AllRefs
<1>4. f[0].groups = <<>>
  BY <1>2 DEF Expands, Expansion
<1>. DEFINE P == {k \in 0 .. n : NoInner(f[k].groups) => Placed(f[k].groups, grok, k)}
<1>5. 0 \in P
  <2>. DEFINE G == f[0].groups
  <2>1. G \in Seq(GroupSet) /\ Len(G) = 0 /\ 0 \in 0 .. n
    BY <1>1, <1>4, EmptySeq
  <2>. HIDE DEF G
  <2>2. Placed(G, grok, 0)
    BY <1>1, <2>1, PlacedStart
  <2>. QED
    BY <2>1, <2>2 DEF G
<1>6. ASSUME NEW k \in 1 .. n, k - 1 \in P, NoInner(f[k].groups)
      PROVE  Placed(f[k].groups, grok, k)
  <2>. DEFINE e == f[k - 1]
              piece == grok[k]
              inside == deeper[GrokCall(Body(piece.prim, extras), e.used)]
              G == e.groups
              H == Wrapped(piece, inside).groups
              J == f[k].groups
  <2>1. k - 1 \in 0 .. n /\ piece \in Pieces /\ piece.kind # "group" /\ Leads(piece, extras, deeper, e.used)
    BY <1>1, <1>3
  <2>2. e \in Expansions /\ f[k] = ExpandPiece(e, piece, extras, deeper)
    BY <1>2, <2>1 DEF Expands
  <2>3. NoInner(G) => Placed(G, grok, k - 1)
    BY <1>6
  <2>. HIDE DEF e, piece, P
  <2>4. inside \in Expansions /\ Wrapped(piece, inside) \in Expansions /\ J = G \o H
    BY <2>1, <2>2, PieceInside
  <2>5. G \in Seq(GroupSet) /\ H \in Seq(GroupSet)
    BY <2>2, <2>4, ExpansionParts
  <2>6. NoInner(J)
    BY <1>6
  <2>. DEFINE I == inside
  <2>. HIDE DEF G, J, I
  <2>7. H \in Seq(GroupSet) /\ Len(G) \in Nat /\ Len(H) \in Nat /\ J \in Seq(GroupSet)
        /\ Len(J) = Len(G) + Len(H)
        /\ \A i \in 1 .. Len(J) : J[i] = IF i <= Len(G) THEN G[i] ELSE H[i - Len(G)]
    <3>. HIDE DEF H
    <3>. QED
      BY <2>4, <2>5, ConcatProperties, LenProperties
  <2>8. NoInner(G)
    <3>. HIDE DEF H
    <3>1. \A i \in 1 .. Len(G) : i \in 1 .. Len(J) /\ i <= Len(G)
      BY <2>7
    <3>. QED
      BY <2>6, <2>7, <3>1 DEF NoInner
  <2>9. NoInner(H)
    <3>. HIDE DEF H
    <3>1. \A i \in 1 .. Len(H) : i + Len(G) \in 1 .. Len(J) /\ ~ (i + Len(G) <= Len(G))
                                 /\ (i + Len(G)) - Len(G) = i
      BY <2>7
    <3>2. \A i \in 1 .. Len(H) : J[i + Len(G)] = H[i]
      BY <2>7, <3>1
    <3>3. \A i \in 1 .. Len(H) : ~ J[i + Len(G)].inner
      BY <2>6, <3>1 DEF NoInner
    <3>. QED
      BY <3>2, <3>3 DEF NoInner
  <2>10. Placed(G, grok, k - 1)
    BY <2>3, <2>8
  <2>11. /\ piece.field = None => H = <<>>
         /\ piece.field # None =>
              \E own \in GroupSet :
                /\ H = <<own>> /\ own.piece = piece
                /\ \E m \in Nat : m >= 1 /\ own.name = Nth(Sanitized[piece.field], m)
    BY <2>1, <2>4, <2>9, WrappedBare DEF I
  <2>12. k \in FieldRefs(grok) <=> piece.field # None
    BY <1>1, <2>1, RefFields DEF piece
  <2>. HIDE DEF H
  <2>13. CASE piece.field = None
    <3>1. J = G
      BY <2>4, <2>5, <2>11, <2>13, ConcatEmptySeq
    <3>2. Placed(G, grok, k)
      BY <1>1, <2>5, <2>10, <2>12, <2>13, PlacedOver
    <3>. QED
      BY <3>1, <3>2 DEF J
  <2>14. CASE piece.field # None
    <3>1. PICK own \in GroupSet :
            /\ H = <<own>> /\ own.piece = piece
            /\ \E m \in Nat : m >= 1 /\ own.name = Nth(Sanitized[piece.field], m)
      BY <2>11, <2>14
    <3>2. PICK m \in Nat : m >= 1 /\ own.name = Nth(FieldOf(grok, k), m)
      BY <3>1 DEF FieldOf, piece
    <3>3. Len(H) = 1 /\ H[1] = own
      BY <3>1
    <3>4. /\ Len(J) = Len(G) + 1 /\ J[Len(G) + 1] = own
          /\ \A i \in 1 .. Len(G) : J[i] = G[i]
      <4>1. Len(J) = Len(G) + 1
        BY <2>7, <3>3
      <4>2. Len(G) + 1 \in 1 .. Len(J) /\ ~ (Len(G) + 1 <= Len(G)) /\ (Len(G) + 1) - Len(G) = 1
        BY <2>7, <4>1
      <4>3. J[Len(G) + 1] = H[1]
        BY <2>7, <4>2
      <4>4. \A i \in 1 .. Len(G) : i \in 1 .. Len(J) /\ i <= Len(G)
        BY <2>7, <4>1
      <4>. QED
        BY <2>7, <3>3, <4>1, <4>3, <4>4
    <3>5. k \in FieldRefs(grok) /\ own.piece = grok[k]
      BY <2>12, <2>14, <3>1 DEF piece
    <3>6. Placed(J, grok, k)
      BY <1>1, <2>5, <2>7, <2>10, <3>2, <3>4, <3>5, PlacedNext
    <3>. QED
      BY <3>6 DEF J
  <2>. QED
    BY <2>13, <2>14
<1>7. \A k \in 1 .. n : k - 1 \in P => k \in P
  <2>1. \A k \in 1 .. n : k \in 0 .. n
    BY <1>1
  <2>. QED
    BY <1>6, <2>1
<1>. HIDE DEF P
<1>8. n \in P
  BY <1>1, <1>5, <1>7, AlongLoop DEF P
<1>. QED
  BY <1>2, <1>8 DEF P

LEMMA CompiledPlaced ==
  ASSUME NEW grok \in Seq(Pieces), NEW extras, Extras(extras), AllRefs(grok),
         CompileGrok(grok, extras).err = "none", NoInner(CompileGrok(grok, extras).groups)
  PROVE  Placed(CompileGrok(grok, extras).groups, grok, Len(grok))
<1>1. PICK F \in [0 .. MaxDepth + 1 -> [GrokCalls -> Expansions]] :
        Levels(F, extras) /\ ExpandGrok(extras) = F[MaxDepth + 1]
  BY LevelsUnfold
<1>. DEFINE call == GrokCall(grok, <<>>)
            deeper == F[MaxDepth]
<1>2. call \in GrokCalls /\ call.grok = grok
  <2>1. <<>> \in Seq(Names)
    BY EmptySeq
  <2>. QED
    BY <2>1 DEF GrokCall, GrokCalls
<1>3. MaxDepth + 1 \in 1 .. MaxDepth + 1 /\ (MaxDepth + 1) - 1 = MaxDepth /\ MaxDepth \in 0 .. MaxDepth + 1
  BY ExpandAssumption
<1>4. deeper \in [GrokCalls -> Expansions]
  BY <1>1, <1>3
<1>5. Expanded(grok, extras) = F[MaxDepth + 1][call]
  BY <1>1 DEF Expanded
<1>6. F[MaxDepth + 1] = [x \in GrokCalls |-> ExpandPieces(x, extras, deeper)]
  BY <1>1, <1>3 DEF Levels
<1>. HIDE DEF call, deeper
<1>7. Expanded(grok, extras) = ExpandPieces(call, extras, deeper)
  BY <1>2, <1>5, <1>6
<1>8. /\ Expanded(grok, extras).err = "none"
      /\ CompileGrok(grok, extras).groups = Expanded(grok, extras).groups
  BY CompileIs
<1>9. Placed(ExpandPieces(call, extras, deeper).groups, call.grok, Len(call.grok))
  BY <1>2, <1>4, <1>7, <1>8, PiecesPlaced
<1>. QED
  BY <1>2, <1>7, <1>8, <1>9

LEMMA TokensAreTheirs == AnswerInv => TokenOfReference
<1>. SUFFICES ASSUME AnswerInv, NEW c \in Answered,
                     OnlyRefs(answer[c].response.grok),
                     Unnumbered(answer[c].response.grok, answer[c].response.extras),
                     \A g \in DOMAIN answer[c].groups : ~ answer[c].groups[g].inner,
                     NEW i \in MatchedLines(c), NEW s \in ToSet(Segments(c, i)), s.field # None
              PROVE  \E g \in DOMAIN answer[c].groups :
                       /\ answer[c].groups[g].name = s.field
                       /\ answer[c].groups[g].piece.prim = s.token
                       /\ answer[c].captures[i][g] = <<s.from, s.to>>
  BY DEF TokenOfReference
<1>. DEFINE groups == answer[c].groups
            grok == answer[c].response.grok
            extras == answer[c].response.extras
            spans == answer[c].captures[i]
            segs == Segments(c, i)
            tokens == GroupTokens(grok, groups)
<1>1. PICK e \in Compiled : /\ groups = CompileGrok(e.grok, e.extras).groups
                            /\ grok = e.grok /\ extras = e.extras
  BY AnsweredLines DEF LinesAre
<1>2. /\ grok \in Seq(Pieces) /\ Extras(extras) /\ CompileGrok(grok, extras).err = "none"
      /\ groups = CompileGrok(grok, extras).groups
  BY <1>1, EntriesAre DEF EntryIs
<1>3. /\ groups \in Seq(GroupSet) /\ spans \in Captures(groups)
      /\ Complete(spans, tokens, groups, LineSize, segs)
  BY LineComplete DEF MatchedLines, Segments
<1>4. OnlyRefs(grok) /\ Unnumbered(grok, extras) /\ \A g \in DOMAIN groups : ~ groups[g].inner
  OBVIOUS
<1>5. s \in ToSet(segs) /\ s.field # None
  OBVIOUS
<1>. HIDE DEF groups, grok, extras, spans, segs, tokens
<1>6. AllRefs(grok)
  <2>1. DOMAIN grok = 1 .. Len(grok) /\ "ref" # "group"
    BY <1>2, LenProperties
  <2>. QED
    BY <1>4, <2>1 DEF OnlyRefs, AllRefs
<1>7. NoInner(groups) /\ DOMAIN groups = 1 .. Len(groups)
  <2>1. DOMAIN groups = 1 .. Len(groups)
    BY <1>3, LenProperties
  <2>. QED
    BY <1>4, <2>1 DEF NoInner
<1>8. Placed(groups, grok, Len(grok))
  BY <1>2, <1>6, <1>7, CompiledPlaced
<1>9. \A k \in FieldRefs(grok) : Bare(FieldOf(grok, k))
  <2>1. \A k \in 1 .. Len(grok) : Plainly(grok[k])
    BY <1>2, <1>4, BodiesAreFamily DEF Family
  <2>2. FieldRefs(grok) \subseteq 1 .. Len(grok)
        /\ \A k \in FieldRefs(grok) : grok[k].kind # "group" /\ grok[k].field # None
    BY <1>2, RefFields
  <2>. QED
    BY <2>1, <2>2 DEF Plainly, FieldOf
<1>10. \A g \in 1 .. Len(groups) : tokens[g] = groups[g].piece.prim
  BY <1>2, <1>3, <1>8, <1>9, TokensPlaced DEF tokens
<1>11. /\ DOMAIN spans = 1 .. Len(groups)
       /\ \A g \in Captured(spans) : spans[g] = <<spans[g][1], spans[g][2]>>
  BY <1>3, CapturesAre
<1>12. PICK q \in 1 .. Len(segs) : segs[q] = s
  <2>1. DOMAIN segs = 1 .. Len(segs)
    BY <1>3 DEF Complete
  <2>. QED
    BY <1>5, <2>1 DEF ToSet
<1>13. PICK g \in Captured(spans) : s = Shows(spans, tokens, groups, g)
  BY <1>3, <1>5, <1>12 DEF Complete
<1>14. g \in 1 .. Len(groups)
  BY <1>11 DEF Captured
<1>15. /\ s.field = groups[g].name /\ s.token = tokens[g]
       /\ s.from = spans[g][1] /\ s.to = spans[g][2]
  BY <1>13 DEF Shows, Segment
<1>16. groups[g].name = s.field /\ groups[g].piece.prim = s.token /\ spans[g] = <<s.from, s.to>>
  BY <1>10, <1>11, <1>14, <1>15
<1>. QED
  BY <1>7, <1>14, <1>16 DEF groups, spans

\* Where a pattern's references are all there is, every segment has the primitive
\* its own reference names, also for the second of two equal fields
\* (groupTokens: webapi.go 162-193).
THEOREM TokensAreOfReferences == Spec => []TokenOfReference
<1>1. AnswerInv => TokenOfReference
  BY TokensAreTheirs
<1>. QED
  BY AnswerInvariant, <1>1, PTL
=============================================================================
