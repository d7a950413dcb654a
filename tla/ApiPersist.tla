----------------------------- MODULE ApiPersist -----------------------------
(***************************************************************************)
(* The API's persisted analyses: each request has a connection of its own  *)
(* (api/deps.py get_db_adapter), runs ApiDbAdapter.save_company_output on  *)
(* it without any lock or handler, and closes it whatever happened.        *)
(***************************************************************************)
EXTENDS Store

VARIABLES response  \* per request, what the client got

Responses == {"none", "ok", "error"}

\* The analysis is done and its result is to be persisted.
BeginSave(r) ==
  /\ call[r].step = "idle"
  /\ \E t \in Tickers, d \in Dates :
       call' = [call EXCEPT ![r] = NewFrame("api", "upsert_instrument", "insert", t, d)]
  /\ UNCHANGED <<committed, pending, writer, nextId, faults, response>>

\* save_output returns: the handler returns the run id.
SaveReturns(r) ==
  /\ CommitLast(r)
  /\ call' = [call EXCEPT ![r].step = "close"]
  /\ response' = [response EXCEPT ![r] = "ok"]

\* Wrong variant: the failure is swallowed and the run id is returned.
SaveRaisesQuietly(r) ==
  /\ MethodRaises(r)
  /\ call' = [call EXCEPT ![r].step = "close"]
  /\ response' = [response EXCEPT ![r] = "ok"]

\* A Store method raises: nothing handles it, the client gets a 500.
SaveRaises(r) ==
  /\ MethodRaises(r)
  /\ call' = [call EXCEPT ![r].step = "close"]
  /\ response' = [response EXCEPT ![r] = "error"]

\* Wrong variant: the adapter is not closed.
CloseAdapterForgotten(r) ==
  /\ call[r].step = "close"
  /\ call' = [call EXCEPT ![r].step = "done"]
  /\ UNCHANGED <<committed, pending, writer, nextId, faults, response>>

\* The finally clause of get_db_adapter.
CloseAdapter(r) ==
  /\ call[r].step = "close"
  /\ call' = [call EXCEPT ![r].step = "done"]
  /\ Rollback(r)
  /\ UNCHANGED <<nextId, faults, response>>

RequestStep(r) ==
  \/ Insert(r) /\ UNCHANGED response
  \/ CommitAndCallOn(r) /\ UNCHANGED response
  \/ SaveReturns(r)
  \/ SaveRaises(r)
  \/ CloseAdapter(r)

InFlight == {r \in Requests : call[r].step \in {"insert", "commit", "close"}}

\* The server process dies with all its requests.
KillServer ==
  /\ InFlight # {}
  /\ pending' = [c \in Conns |-> IF c \in InFlight THEN {} ELSE pending[c]]
  /\ writer' = IF writer \in InFlight THEN NoConn ELSE writer
  /\ call' = [a \in Actors |->
                IF a \in InFlight THEN [call[a] EXCEPT !.step = "done"] ELSE call[a]]
  /\ UNCHANGED <<committed, nextId, faults, response>>

ApiTypeOK == response \in [Requests -> Responses]
=============================================================================
