------------------------------ MODULE BarTable ------------------------------
(***************************************************************************)
(* What DatabaseManager.add_market_data promises its callers, with no word *)
(* on checks, transactions or retries.  A caller hands over a batch of     *)
(* minute bars and waits.  Rows made from the batch appear in the table,   *)
(* at any time until the answer, and never two rows for one minute bar.    *)
(* Rows stay as they are.  "ok" is answered only when every bar of the     *)
(* batch is in the table, put there by this call or by somebody before it. *)
(*                                                                         *)
(* BarStore is shown to implement this specification.                      *)
(***************************************************************************)
EXTENDS Naturals

CONSTANTS
    Writers,    \* callers
    Keys,       \* the (symbol, timestamp) pairs a minute bar is known by
    Batches     \* the batches a caller may hand over: sequences of bar keys

VARIABLES
    rows,       \* market_data
    request,    \* the batch of each caller's current or last call
    ticket,     \* how many calls each caller has made
    reply       \* "none" yet, "pending", "ok" or "failed"

tableVars == <<rows, request, ticket, reply>>

(* The row made from position i of the batch of w.                          *)
RowFrom(w, i) == [from |-> <<w, ticket[w], i>>, key |-> request[w][i]]

(* One row per minute bar; records without a timestamp are not compared.    *)
OnePerBar(R) == \A r, s \in R : r.key = s.key /\ r.key \in Keys => r = s

(* Every bar of the batch of w is in the table R.                           *)
Complete(w, R) ==
    \A i \in DOMAIN request[w] :
        IF request[w][i] \in Keys
        THEN \E r \in R : r.key = request[w][i]
        ELSE RowFrom(w, i) \in R

TableInit ==
    /\ rows = {}
    /\ request = [w \in Writers |-> <<>>]
    /\ ticket = [w \in Writers |-> 0]
    /\ reply = [w \in Writers |-> "none"]

Ask(w) ==
    /\ reply[w] # "pending"
    /\ \E b \in Batches : request' = [request EXCEPT ![w] = b]
    /\ ticket' = [ticket EXCEPT ![w] = @ + 1]
    /\ reply' = [reply EXCEPT ![w] = "pending"]
    /\ UNCHANGED rows

(* Rows I of the batch are added, and the caller may get its answer.        *)
Serve(w) ==
    /\ reply[w] = "pending"
    /\ \E I \in SUBSET (DOMAIN request[w]) :
           rows' = rows \union {RowFrom(w, i) : i \in I}
    /\ OnePerBar(rows')
    /\ \/ UNCHANGED reply
       \/ reply' = [reply EXCEPT ![w] = "failed"]
       \/ reply' = [reply EXCEPT ![w] = "ok"] /\ Complete(w, rows')
    /\ UNCHANGED <<request, ticket>>

TableNext == \E w \in Writers : Ask(w) \/ Serve(w)

TableSpec == TableInit /\ [][TableNext]_tableVars
=============================================================================
