---------------------------- MODULE HoldBackend ----------------------------
(***************************************************************************)
(* What the settlement service relies on of any Lightning backend          *)
(* (lib/src/settlement/backend.js): the life of a hold invoice, and what a *)
(* caller of waitUntilHeld may be told about it.  One step may move an     *)
(* invoice and answer its callers; every answer is true of the invoice as  *)
(* that step leaves it, and "expired" means that it can never be paid.     *)
(***************************************************************************)
CONSTANTS Hashes, Callers

VARIABLES invoice,  \* per hash: "none", "open", "expired", "held", "settled", "cancelled"
          answer,   \* per caller: "none", "waiting", or what it was told
          asked     \* per caller: the hash it waits for, or NoHash

vars == <<invoice, answer, asked>>

CONSTANT NoHash

Init == /\ invoice = [h \in Hashes |-> "none"]
        /\ answer = [c \in Callers |-> "none"]
        /\ asked = [c \in Callers |-> NoHash]

\* Expired invoices are never paid; settled and cancelled ones never change.
Moves == {<<"none", "open">>, <<"open", "expired">>, <<"open", "held">>,
          <<"open", "cancelled">>, <<"expired", "cancelled">>,
          <<"held", "settled">>, <<"held", "cancelled">>}

InvoiceStep(h) == invoice'[h] = invoice[h] \/ <<invoice[h], invoice'[h]>> \in Moves

CallerStep(c) ==
  \/ UNCHANGED <<answer[c], asked[c]>>
  \/ /\ answer[c] \in {"none", "waiting"}
     /\ asked'[c] \in Hashes
     /\ answer[c] = "waiting" => asked'[c] = asked[c]
     /\ \/ answer'[c] \in {"waiting", "timedOut", "error"}
        \/ /\ answer'[c] \in {"held", "expired", "cancelled"}
           /\ answer'[c] = invoice'[asked'[c]]

Next == /\ \A h \in Hashes : InvoiceStep(h)
        /\ \A c \in Callers : CallerStep(c)
        /\ answer' \in [Callers -> {"none", "waiting", "timedOut", "error",
                                    "held", "expired", "cancelled"}]

Spec == Init /\ [][Next]_vars
=============================================================================
