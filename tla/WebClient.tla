------------------------------ MODULE WebClient ------------------------------
(***************************************************************************)
(* The page of cmd/log2grok-web (static/app.js) and its engine, the worker *)
(* that runs the WASM build (static/worker.js).                            *)
(*                                                                         *)
(* The page is one event loop: an action is one task with the microtasks   *)
(* it leaves, so an await of a settled promise does not let another event  *)
(* in.  Calls is how many discover() calls can be under way at once: the   *)
(* button is disabled while one is, Ctrl+Enter and the examples are not.   *)
(* A worker that was terminated delivers nothing more.                     *)
(*                                                                         *)
(* What the page shows of an answer is left out, save the note that says   *)
(* where the logs are analysed.                                            *)
(***************************************************************************)
EXTENDS Naturals, SequencesExt

CONSTANTS Calls, NoWorker

ASSUME CallsAssumption ==
  /\ IsFiniteSet(Calls)
  /\ NoWorker \notin {"booting", "ready"}

\* What is in the text area: nothing, something, or more than MAX_INPUT_BYTES.
Texts == {"empty", "lines", "tooLarge"}

VARIABLES
  text,    \* el.logs.value
  busy,    \* el.discover.dataset.busy
  note,    \* the page says that logs never leave it
  usable,  \* engine.usable
  worker,  \* engine.worker: none, booting (engine.ready pending), ready
  inbox,   \* the calls posted to the worker, in order
  at       \* where each discover() call is

clientVars == <<text, busy, note, usable, worker, inbox, at>>

Running == {c \in Calls : at[c] # "idle"}
Awaiting == {c \in Calls : at[c] = "await startEngine"}
Pending == {c \in Calls : at[c] = "await wasmDiscover"}  \* engine.pending

\* resetEngine: what was posted to the old worker is gone.
ResetEngine == worker' = NoWorker /\ inbox' = <<>>

Move(moved, where) == at' = [c \in Calls |-> IF c \in moved THEN where ELSE at[c]]

(***************************************************************************)
(* discover(), and the ways into it                                        *)
(***************************************************************************)
\* engine.usable is FALSE: serverDiscover.
UseServer(c) ==
  /\ ~ usable
  /\ Move({c}, "await fetch")
  /\ UNCHANGED <<usable, worker, inbox>>

\* The engine is there: startEngine has resolved, wasmDiscover posts.
UseEngine(c) ==
  /\ usable /\ worker = "ready"
  /\ inbox' = Append(inbox, c)
  /\ Move({c}, "await wasmDiscover")
  /\ UNCHANGED <<usable, worker>>

\* It boots, or starts to.
AwaitEngine(c) ==
  /\ usable /\ worker # "ready"
  /\ worker' = "booting"
  /\ Move({c}, "await startEngine")
  /\ UNCHANGED <<usable, inbox>>

\* new Worker throws: the engine is given up and the server asked.
EngineThrows(c) ==
  /\ usable /\ worker = NoWorker
  /\ usable' = FALSE
  /\ Move({c}, "await fetch")
  /\ UNCHANGED <<worker, inbox>>

\* Nothing to discover, or too much: an error is shown.  The second case runs
\* the finally clause.
RefuseText(t) ==
  /\ t # "lines"
  /\ busy' = IF t = "tooLarge" THEN FALSE ELSE busy
  /\ UNCHANGED <<usable, worker, inbox, at>>

Discover(c, t) ==
  /\ at[c] = "idle"
  /\ text' = t
  /\ UNCHANGED note
  /\ \/ RefuseText(t)
     \/ /\ t = "lines"
        /\ busy' = TRUE
        /\ UseServer(c) \/ UseEngine(c) \/ AwaitEngine(c) \/ EngineThrows(c)

\* The button is disabled without lines and while busy (updateCount).
ClickDiscover(c) == ~ busy /\ text # "empty" /\ Discover(c, text)

CtrlEnter(c) == Discover(c, text)

ClickExample(c) == Discover(c, "lines")

\* Typing, pasting, and the clear button.
Edit(t) ==
  /\ t # text
  /\ text' = t
  /\ UNCHANGED <<busy, note, usable, worker, inbox, at>>

(***************************************************************************)
(* The worker                                                              *)
(***************************************************************************)
\* "ready": every waiting call goes on to post; calls are alike, so the order
\* they post in is left to SetToSeq.
WorkerReady ==
  /\ worker = "booting"
  /\ worker' = "ready"
  /\ inbox' = SetToSeq(Awaiting)
  /\ Move(Awaiting, "await wasmDiscover")
  /\ UNCHANGED <<text, busy, note, usable>>

\* "failed": engine.ready is rejected; its first reaction makes the engine
\* unusable, so the waiting calls turn to the server.
WorkerFailed ==
  /\ worker = "booting"
  /\ usable' = FALSE
  /\ ResetEngine
  /\ Move(Awaiting, "await fetch")
  /\ UNCHANGED <<text, busy, note>>

\* Mutant: onerror of a booting worker resets it without rejecting ready.
BootErrorNotRejected ==
  /\ worker = "booting"
  /\ ResetEngine
  /\ UNCHANGED <<text, busy, note, usable, at>>

\* onerror during the boot: as above, and failPending rejects what an earlier
\* worker left, which finds the engine unusable.
BootError ==
  /\ worker = "booting"
  /\ usable' = FALSE
  /\ ResetEngine
  /\ Move(Awaiting \cup Pending, "await fetch")
  /\ UNCHANGED <<text, busy, note>>

\* Mutant: a rejected call asks the server without looking at engine.usable.
RejectedAskServer ==
  /\ worker = "ready"
  /\ ResetEngine
  /\ Move(Pending, "await fetch")
  /\ UNCHANGED <<text, busy, note, usable>>

\* onerror afterwards: failPending ends every pending call with an error; the
\* engine stays usable and boots again at the next call.
EngineStops ==
  /\ worker = "ready"
  /\ ResetEngine
  /\ Move(Pending, "idle")
  /\ busy' = IF Pending # {} THEN FALSE ELSE busy
  /\ UNCHANGED <<text, note, usable>>

\* A result, rendered or, when it says so, shown as an error.
Result ==
  /\ inbox # <<>>
  /\ inbox' = Tail(inbox)
  /\ Move({Head(inbox)}, "idle")
  /\ busy' = FALSE
  /\ note' = TRUE
  /\ UNCHANGED <<text, usable, worker>>

\* Mutant: setBusy(FALSE) is not in a finally clause.
PanicLeavesBusy ==
  /\ inbox # <<>>
  /\ ResetEngine
  /\ Move({Head(inbox)}, "idle")
  /\ UNCHANGED <<text, busy, note, usable>>

\* "error": a Go panic left the runtime dead.  Only this call is rejected.
Panic ==
  /\ inbox # <<>>
  /\ ResetEngine
  /\ Move({Head(inbox)}, "idle")
  /\ busy' = FALSE
  /\ UNCHANGED <<text, note, usable>>

\* serverDiscover settles, with an answer or an error.
Fetched(c) ==
  /\ at[c] = "await fetch"
  /\ Move({c}, "idle")
  /\ busy' = FALSE
  /\ UNCHANGED <<text, note, usable, worker, inbox>>

-----------------------------------------------------------------------------
\* startEngine at the end of the script; new Worker may have thrown.
ClientInit ==
  /\ text = "empty" /\ busy = FALSE /\ note = FALSE
  /\ usable \in BOOLEAN
  /\ worker = IF usable THEN "booting" ELSE NoWorker
  /\ inbox = <<>>
  /\ at = [c \in Calls |-> "idle"]

User ==
  \/ \E c \in Calls : ClickDiscover(c) \/ CtrlEnter(c) \/ ClickExample(c)
  \/ \E t \in Texts : Edit(t)

Boot == WorkerReady \/ WorkerFailed \/ BootError

Engine == Result \/ Panic \/ EngineStops

ClientNext == User \/ Boot \/ Engine \/ \E c \in Calls : Fetched(c)

\* A boot comes to an end, the worker answers what it was sent or dies, and a
\* request to the server settles.
Fairness ==
  /\ WF_clientVars(Boot)
  /\ WF_clientVars(inbox # <<>> /\ Engine)
  /\ \A c \in Calls : WF_clientVars(Fetched(c))

ClientSpec == ClientInit /\ [][ClientNext]_clientVars /\ Fairness

-----------------------------------------------------------------------------
(***************************************************************************)
(* Properties                                                              *)
(***************************************************************************)
\* Types, and what was posted is at a live worker and still pending, each call
\* once.
ClientTypeOK ==
  /\ text \in Texts
  /\ busy \in BOOLEAN /\ note \in BOOLEAN /\ usable \in BOOLEAN
  /\ worker \in {NoWorker, "booting", "ready"}
  /\ at \in [Calls -> {"idle", "await startEngine", "await wasmDiscover", "await fetch"}]
  /\ inbox \in Seq(Pending) /\ IsInjective(inbox)
  /\ inbox # <<>> => worker = "ready"

\* A call that waits for the engine waits for one that is booting, and once the
\* engine is unusable there is none and nobody waits for it: whichever way a
\* boot ends, its waiters learn of it ("resolves when the WASM is running ... a
\* failed boot marks the engine unusable so callers fall back to the server",
\* app.js 318-319).
WaitersHaveEngine ==
  /\ Awaiting # {} => worker = "booting"
  /\ ~ usable => worker = NoWorker

\* Logs are sent to the server only when the engine could not be started, not
\* because a request to a working engine failed ("engine is fine; this request
\* failed", app.js 392).
ServerOnlyWithoutEngine ==
  (\E c \in Calls : at[c] = "await fetch") => ~ usable

\* The button does not stay disabled: whatever becomes of the calls, the ones
\* that a terminated worker never answers included, busy ends (app.js 407-416).
BusyClears == busy ~> ~ busy

\* A message is only ever posted to a worker there is, and a call waits only for
\* an engine that is booting, however boots, panics and stops follow one another
\* (startEngine, wasmDiscover: app.js 312-389).
EngineSound == ClientTypeOK /\ WaitersHaveEngine

=============================================================================
