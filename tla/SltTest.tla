------------------------------- MODULE SltTest -------------------------------
(***************************************************************************)
(* One sqllogictest task of cli/src/args/slt.rs: run_test opens a client,  *)
(* runs run_test_inner and closes the client whatever the inner result,   *)
(* ignoring the close's own result; run_test_inner runs the pre hook of   *)
(* every hook whose pattern matches the test name, in TestHooks order,    *)
(* then the test body, then the post hooks in the same order.  Every      *)
(* await is followed by `?`: an error returns at once.  A pre hook that   *)
(* answers false skips the rest of the test and returns Ok(()).           *)
(*                                                                         *)
(* A hook, the body and the client are abstracted to their outcome; what  *)
(* they do to the database is left out.  The tests run as separate tasks  *)
(* that share nothing here, so several tests only vary the matching hooks. *)
(***************************************************************************)
EXTENDS Naturals, Sequences, SequencesExt

CONSTANTS
  Tests,        \* test names (model values)
  Hooks,        \* the hooks of TestHooks, in iteration order (a sequence)
  Matches       \* the pairs <<hook, test>> whose pattern matches the test name

ASSUME Matches \subseteq Range(Hooks) \X Tests

(* hooks.iter().filter(|(pattern, _)| pattern.matches(test_name))          *)
HooksOf(t) == SelectSeq(Hooks, LAMBDA h : <<h, t>> \in Matches)

VARIABLES
  phase,        \* phase[t]: "idle", "pre", "body", "post", "close", "sent"
  hi,           \* hi[t]: position in HooksOf(t) of the hook loop
  res,          \* res[t]: what run_test_inner (or TestClient::new) returned
  clientOpen,   \* clientOpen[t]: the client exists and is not closed
  preOk,        \* preOk[t]: hooks whose pre returned Ok(true)
  postOk,       \* postOk[t]: hooks whose post returned Ok
  bodyRes,      \* bodyRes[t]: what test.execute returned, or "none"
  skipped       \* skipped[t]: a pre hook returned Ok(false)

vars == <<phase, hi, res, clientOpen, preOk, postOk, bodyRes, skipped>>

Outcomes == {"none", "ok", "err"}

TypeOK ==
  /\ phase \in [Tests -> {"idle", "pre", "body", "post", "close", "sent"}]
  /\ hi \in [Tests -> Nat]
  /\ res \in [Tests -> Outcomes]
  /\ clientOpen \in [Tests -> BOOLEAN]
  /\ preOk \in [Tests -> SUBSET Range(Hooks)]
  /\ postOk \in [Tests -> SUBSET Range(Hooks)]
  /\ bodyRes \in [Tests -> Outcomes]
  /\ skipped \in [Tests -> BOOLEAN]

Init ==
  /\ phase = [t \in Tests |-> "idle"]
  /\ hi = [t \in Tests |-> 1]
  /\ res = [t \in Tests |-> "none"]
  /\ clientOpen = [t \in Tests |-> FALSE]
  /\ preOk = [t \in Tests |-> {}]
  /\ postOk = [t \in Tests |-> {}]
  /\ bodyRes = [t \in Tests |-> "none"]
  /\ skipped = [t \in Tests |-> FALSE]

(* The hook the loop is at.                                               *)
Hook(t) == HooksOf(t)[hi[t]]
LastHook(t) == hi[t] = Len(HooksOf(t))

(* run_test_inner returns r; run_test goes on to close the client.        *)
Return(t, r) ==
  /\ res' = [res EXCEPT ![t] = r]
  /\ phase' = [phase EXCEPT ![t] = "close"]

(* The client of the chosen protocol is created: TestClient::new(..)?.    *)
(* An error leaves run_test before there is a client to close.            *)
NewClient(t, ok) ==
  /\ phase[t] = "idle"
  /\ IF ok
     THEN /\ clientOpen' = [clientOpen EXCEPT ![t] = TRUE]
          /\ phase' = [phase EXCEPT ![t] = IF HooksOf(t) = <<>> THEN "body" ELSE "pre"]
          /\ UNCHANGED res
     ELSE /\ res' = [res EXCEPT ![t] = "err"]
          /\ phase' = [phase EXCEPT ![t] = "sent"]
          /\ UNCHANGED clientOpen
  /\ UNCHANGED <<hi, preOk, postOk, bodyRes, skipped>>

(***************************************************************************)
(* One pre hook: hook.pre(..).await?.  Ok(true) goes on to the next hook  *)
(* (after the last, to the body); Ok(false) returns Ok(()), skipping the  *)
(* test; Err returns the error.                                            *)
(***************************************************************************)
PreHook(t, r) ==
  /\ phase[t] = "pre"
  /\ CASE r = "continue" ->
            /\ preOk' = [preOk EXCEPT ![t] = @ \cup {Hook(t)}]
            /\ IF LastHook(t)
               THEN phase' = [phase EXCEPT ![t] = "body"] /\ hi' = [hi EXCEPT ![t] = 1]
               ELSE hi' = [hi EXCEPT ![t] = @ + 1] /\ UNCHANGED phase
            /\ UNCHANGED <<res, skipped>>
       [] r = "skip" ->
            /\ Return(t, "ok") /\ skipped' = [skipped EXCEPT ![t] = TRUE]
            /\ UNCHANGED <<hi, preOk>>
       [] r = "err" ->
            /\ Return(t, "err") /\ UNCHANGED <<hi, preOk, skipped>>
  /\ UNCHANGED <<clientOpen, postOk, bodyRes>>

(* Mutant: the body's error is returned from run_test itself (a `?` on   *)
(* run_test_inner), so the client is not closed.                          *)
BodyReturnsEarly(t, ok) ==
  /\ phase[t] = "body"
  /\ bodyRes' = [bodyRes EXCEPT ![t] = IF ok THEN "ok" ELSE "err"]
  /\ IF ok
     THEN IF HooksOf(t) = <<>> THEN Return(t, "ok")
          ELSE phase' = [phase EXCEPT ![t] = "post"] /\ UNCHANGED res
     ELSE res' = [res EXCEPT ![t] = "err"] /\ phase' = [phase EXCEPT ![t] = "sent"]
  /\ UNCHANGED <<hi, clientOpen, preOk, postOk, skipped>>

(* The test body: test.execute(..).await?; then the post hooks, if any.   *)
Body(t, ok) ==
  /\ phase[t] = "body"
  /\ bodyRes' = [bodyRes EXCEPT ![t] = IF ok THEN "ok" ELSE "err"]
  /\ IF ok
     THEN IF HooksOf(t) = <<>> THEN Return(t, "ok")
          ELSE phase' = [phase EXCEPT ![t] = "post"] /\ UNCHANGED res
     ELSE Return(t, "err")
  /\ UNCHANGED <<hi, clientOpen, preOk, postOk, skipped>>

(* Mutant: a post hook's error is ignored (`let _ = hook.post(..)`).      *)
PostHookIgnoreErr(t, ok) ==
  /\ phase[t] = "post"
  /\ postOk' = [postOk EXCEPT ![t] = IF ok THEN @ \cup {Hook(t)} ELSE @]
  /\ IF LastHook(t) THEN Return(t, "ok") /\ UNCHANGED hi
     ELSE hi' = [hi EXCEPT ![t] = @ + 1] /\ UNCHANGED <<res, phase>>
  /\ UNCHANGED <<clientOpen, preOk, bodyRes, skipped>>

(* One post hook: hook.post(..).await?; after the last, Ok(()).           *)
PostHook(t, ok) ==
  /\ phase[t] = "post"
  /\ IF ok
     THEN /\ postOk' = [postOk EXCEPT ![t] = @ \cup {Hook(t)}]
          /\ IF LastHook(t) THEN Return(t, "ok") /\ UNCHANGED hi
             ELSE hi' = [hi EXCEPT ![t] = @ + 1] /\ UNCHANGED <<res, phase>>
     ELSE Return(t, "err") /\ UNCHANGED <<hi, postOk>>
  /\ UNCHANGED <<clientOpen, preOk, bodyRes, skipped>>

(* run_test: let _ = client.close().await; the task then sends res.       *)
CloseClient(t) ==
  /\ phase[t] = "close"
  /\ clientOpen' = [clientOpen EXCEPT ![t] = FALSE]
  /\ phase' = [phase EXCEPT ![t] = "sent"]
  /\ UNCHANGED <<hi, res, preOk, postOk, bodyRes, skipped>>

Next ==
  \E t \in Tests :
    \/ \E ok \in BOOLEAN : NewClient(t, ok) \/ Body(t, ok) \/ PostHook(t, ok)
    \/ \E r \in {"continue", "skip", "err"} : PreHook(t, r)
    \/ CloseClient(t)

Spec == Init /\ [][Next]_vars

(***************************************************************************)
(* Properties                                                              *)
(***************************************************************************)

(* A task hands its result to the runner only after the client it opened *)
(* is closed, on every exit of run_test_inner: a failed pre hook, a skip, *)
(* a failed body, a failed post hook or success (run_test's close after   *)
(* the inner call, whose result is kept rather than returned by `?`).     *)
ClientClosedWhenSent ==
  \A t \in Tests : phase[t] = "sent" => ~clientOpen[t]

(* A test reported Ok was either skipped by a pre hook, or ran its body   *)
(* with success and then every matching post hook with success: no error *)
(* of a hook or of the body is lost on the way to the result.             *)
OkMeansPassedOrSkipped ==
  \A t \in Tests : res[t] = "ok" =>
    \/ skipped[t]
    \/ /\ bodyRes[t] = "ok"
       /\ preOk[t] = Range(HooksOf(t))
       /\ postOk[t] = Range(HooksOf(t))

=============================================================================
