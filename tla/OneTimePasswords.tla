-------------------------- MODULE OneTimePasswords --------------------------
(***************************************************************************)
(* What one-time passwords promise: each is issued once, is good for one    *)
(* download while it is live, and is worth nothing from then on, whether it *)
(* was used, expired or was lost with the process.  Downloads implements   *)
(* this.                                                                   *)
(***************************************************************************)
EXTENDS Naturals

CONSTANT Passwords

VARIABLES
    ticket,     \* ticket[p]: what p is worth
    downloads   \* downloads[p]: the downloads p has started

Init ==
    /\ ticket = [p \in Passwords |-> "unissued"]
    /\ downloads = [p \in Passwords |-> 0]

Issue(p) ==
    /\ ticket[p] = "unissued"
    /\ ticket' = [ticket EXCEPT ![p] = "live"]
    /\ UNCHANGED downloads

Use(p) ==
    /\ ticket[p] = "live"
    /\ ticket' = [ticket EXCEPT ![p] = "void"]
    /\ downloads' = [downloads EXCEPT ![p] = @ + 1]

\* Some passwords, or all of them at once, are lost.
Lose ==
    /\ \E lost \in SUBSET {p \in Passwords : ticket[p] = "live"} :
          ticket' = [p \in Passwords |-> IF p \in lost THEN "void" ELSE ticket[p]]
    /\ UNCHANGED downloads

Next == Lose \/ \E p \in Passwords : Issue(p) \/ Use(p)

Spec == Init /\ [][Next]_<<ticket, downloads>>
=============================================================================
